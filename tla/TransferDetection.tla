------------------------- MODULE TransferDetection -------------------------
(***************************************************************************)
(* mailtx: what is made of one email.  The model's reply is checked, the   *)
(* account is resolved from the text, the transfer rules decide whether    *)
(* the transaction is a leg of a route, and the leg is matched against     *)
(* those pending, among several routes and amounts.                        *)
(*                                                                         *)
(* One action is a run of mailtx, from draining to its exit.  Runs follow  *)
(* each other here: their interleaving, lost answers and kills are in      *)
(* TransferBooking, which takes what is decided here as a choice.          *)
(*                                                                         *)
(* Text is what the program looks for in it: the numbers its expressions   *)
(* capture, as sequences of digits in the order of the text, and the words *)
(* it contains.  Amounts are in tenths of a cent; dates and categories are *)
(* left out.  Account ids are distinct, none is "default" and none has a   *)
(* colon: a rule's id is then its pair of accounts.                        *)
(***************************************************************************)
EXTENDS Integers, Sequences, FiniteSets, SequencesExt

CONSTANTS
  Configs,     \* configurations: accounts and rules in their order, default account, backend
  Mails,       \* emails that may arrive: their text and the model's reply
  MaxEmails,   \* bound on emails processed
  Garbled      \* a reply's text that is not the JSON object asked for

\* A configuration without accounts is not loaded.
ASSUME ConfigsAssumption == \A c \in Configs : c.accounts # <<>>

Legs == {"withdrawal", "deposit"}
NoAccount == ""

VARIABLES
  config,      \* the configuration of all runs
  read,        \* history: what was made of each email that was booked or stored
  pending,     \* pending_transfers; ids are given in the order of insertion
  ledger       \* Firefly: transactions

vars == <<config, read, pending, ledger>>

-----------------------------------------------------------------------------
(* The model's reply.  An optional value is a set with at most one element. *)

\* What openai_compatible takes for an answer that is complete.
Complete(reply) == reply.finish \in {"none", "stop"} /\ ~reply.refusal /\ ~reply.call

\* Of the backends, auto does not look at how the reply ended.  Every failure on the way
\* to a text (status, size, envelope, time) leaves no text.
ResponseText(reply) == IF config.backend = "auto" \/ Complete(reply) THEN reply.text ELSE {}

IsNotFound(tx) == tx.status = "not_found" /\ tx.amount = {} /\ tx.type = "none" /\ tx.narration = {}
IsFound(tx) == tx.status = "found" /\ tx.amount \notin {{}, {0}} /\ tx.type \in Legs

\* What is extracted: one transaction (or the statement that there is none), or an error.
ParseTransaction(reply) ==
  {tx \in ResponseText(reply) \ {Garbled} : IsNotFound(tx) \/ IsFound(tx)}

\* The narration, or the words that stand in for one that is absent or blank.
Narration(tx) == IF UNION tx.narration = {} THEN {"bank", "transaction"} ELSE UNION tx.narration

-----------------------------------------------------------------------------
(* The account. *)

\* Index of the first account of which Test holds, 0 if there is none.
FindAccount(Test(_)) == SelectInSeq(config.accounts, Test)

\* The account of the first number that has one.
FirstOwned(numbers, Owner(_)) ==
  LET i == SelectInSeq(numbers, LAMBDA n : Owner(n) # 0)
  IN IF i = 0 THEN 0 ELSE Owner(numbers[i])

CardOwner(number) == FindAccount(LAMBDA a : number \in a.cards)
SuffixOwner(number) == FindAccount(LAMBDA a : \E s \in a.suffixes : IsSuffix(s, number))
AliasOwner(words) == FindAccount(LAMBDA a : a.aliases \cap words # {})

\* The account a text names, 0 if none.  Mutant: account numbers go before cards.
AccountBeforeCard(mail) ==
  LET number == FirstOwned(mail.numbers, SuffixOwner)
      card   == FirstOwned(mail.cards, CardOwner)
  IN IF number # 0 THEN number ELSE IF card # 0 THEN card ELSE AliasOwner(mail.words)
NamedAccount(mail) ==
  LET card   == FirstOwned(mail.cards, CardOwner)
      number == FirstOwned(mail.numbers, SuffixOwner)
  IN IF card # 0 THEN card ELSE IF number # 0 THEN number ELSE AliasOwner(mail.words)

\* resolve_asset_account: the account with its Firefly id, the default, or an error.
ResolveAssetAccount(mail) ==
  LET i == NamedAccount(mail) IN
  IF i # 0 THEN {[id |-> config.accounts[i].id, firefly |-> config.accounts[i].firefly]}
  ELSE IF config.default # NoAccount THEN {[id |-> "default", firefly |-> config.default]}
  ELSE {}

-----------------------------------------------------------------------------
(* The route. *)

Keywords(rule, leg) == IF leg = "withdrawal" THEN rule.withdrawal ELSE rule.deposit
OwnAccount(rule, leg) == IF leg = "withdrawal" THEN rule.source ELSE rule.destination
Opposite(leg) == CHOOSE l \in Legs : l # leg

\* Does the rule take a leg of that account with that narration?
Fits(rule, leg, account, words) ==
  OwnAccount(rule, leg) = account /\ Keywords(rule, leg) \subseteq words

\* find_firefly_id.  Mutant: an account that is not configured has an empty id.
FireflyIdOrEmpty(account) ==
  LET i == FindAccount(LAMBDA a : a.id = account)
  IN IF i = 0 THEN {NoAccount} ELSE {config.accounts[i].firefly}
FireflyId(account) ==
  LET i == FindAccount(LAMBDA a : a.id = account)
  IN IF i = 0 THEN {} ELSE {config.accounts[i].firefly}

\* detect_transfer_rule: the first rule that fits.  When one of its accounts is not
\* configured there is no match at all, whatever rules follow.
DetectTransferRule(leg, account, words) ==
  LET i == SelectInSeq(config.rules, LAMBDA r : Fits(r, leg, account, words)) IN
  IF i = 0 THEN {}
  ELSE {[rule |-> <<config.rules[i].source, config.rules[i].destination>>,
         source |-> s, destination |-> d] :
          s \in FireflyId(config.rules[i].source), d \in FireflyId(config.rules[i].destination)}

\* An amount without its sign, which the model may give or not.
Absolute(amount) == IF amount < 0 THEN -amount ELSE amount

\* Cents, rounded.  Mutant: the sign is kept.
AmountUnitsSigned(tx) == ((CHOOSE a \in tx.amount : TRUE) + 5) \div 10
AmountUnits(tx) == (Absolute(CHOOSE a \in tx.amount : TRUE) + 5) \div 10

-----------------------------------------------------------------------------
(* A run of mailtx. *)

Expired == {p \in pending : p.old}

\* An expired leg is booked by itself, on its own account.
Unmatched(p) ==
  [exts |-> {p.ext}, type |-> p.leg, units |-> p.units, tagged |-> TRUE,
   source |-> IF p.leg = "withdrawal" THEN p.source ELSE NoAccount,
   destination |-> IF p.leg = "deposit" THEN p.destination ELSE NoAccount]

\* A transaction that is no leg of a route.
Regular(ext, leg, units, account) ==
  [exts |-> {ext}, type |-> leg, units |-> units, tagged |-> FALSE,
   source |-> IF leg = "withdrawal" THEN account ELSE NoAccount,
   destination |-> IF leg = "deposit" THEN account ELSE NoAccount]

Transfer(ext, other, units, route) ==
  [exts |-> {ext, other}, type |-> "transfer", units |-> units, tagged |-> FALSE,
   source |-> route.source, destination |-> route.destination]

\* find_match, among the legs that the drain left.  Mutant: legs of any route match.
MatchesAnyRule(p, route, leg, units) == p.leg = Opposite(leg) /\ p.units = units /\ ~p.old
Matches(p, route, leg, units) ==
  p.rule = route.rule /\ p.leg = Opposite(leg) /\ p.units = units /\ ~p.old

\* The legs waiting and the transactions booked, once the leg is joined or stored.
JoinOrStore(ext, leg, units, route, waiting, booked) ==
  LET found == {p \in waiting : Matches(p, route, leg, units)} IN
  IF found = {}
  THEN /\ pending' = waiting \cup {[ext |-> ext, rule |-> route.rule, leg |-> leg, units |-> units,
                                    source |-> route.source, destination |-> route.destination,
                                    old |-> FALSE]}
       /\ ledger' = booked
  ELSE LET p == CHOOSE q \in found : \A r \in found : q.ext <= r.ext IN
       /\ pending' = waiting \ {p}
       /\ ledger' = booked \cup {Transfer(ext, p.ext, units, route)}

\* The run drains, then books or stores the email's transaction.  An expired leg whose
\* posting fails stays.
Run(mail, flushed) ==
  LET ext     == Len(read) + 1
      waiting == pending \ flushed
      booked  == ledger \cup {Unmatched(p) : p \in flushed}
  IN
  /\ Len(read) < MaxEmails /\ flushed \subseteq Expired
  /\ \E tx \in ParseTransaction(mail.reply), account \in ResolveAssetAccount(mail) :
       LET units == AmountUnits(tx)
           route == DetectTransferRule(tx.type, account.id, Narration(tx))
       IN
       /\ tx.status = "found"
       /\ read' = Append(read, [mail |-> mail, account |-> account, tx |-> tx])
       /\ IF route = {}
          THEN /\ pending' = waiting
               /\ ledger' = booked \cup {Regular(ext, tx.type, units, account.firefly)}
          ELSE \E r \in route : JoinOrStore(ext, tx.type, units, r, waiting, booked)
  /\ UNCHANGED config

\* The run drains and then ends without a transaction: there is none, the reply or the
\* text is of no use, or a request fails.
Drain(flushed) ==
  /\ flushed \subseteq Expired /\ flushed # {}
  /\ pending' = pending \ flushed
  /\ ledger' = ledger \cup {Unmatched(p) : p \in flushed}
  /\ UNCHANGED <<config, read>>

\* Time passes: the legs up to this one have waited longer than the match window.
WindowEnds(p) ==
  /\ p \in pending /\ ~p.old
  /\ pending' = {IF q.ext <= p.ext THEN [q EXCEPT !.old = TRUE] ELSE q : q \in pending}
  /\ UNCHANGED <<config, read, ledger>>

Init == config \in Configs /\ read = <<>> /\ pending = {} /\ ledger = {}

Next ==
  \/ \E flushed \in SUBSET Expired : Drain(flushed) \/ \E mail \in Mails : Run(mail, flushed)
  \/ \E p \in pending : WindowEnds(p)

Spec == Init /\ [][Next]_vars

-----------------------------------------------------------------------------
(* Properties. *)

FireflyIds == {config.accounts[i].firefly : i \in DOMAIN config.accounts} \cup {config.default}

TypeOK ==
  /\ config \in Configs
  /\ Len(read) <= MaxEmails
  /\ \A i \in DOMAIN read :
       /\ read[i].mail \in Mails /\ read[i].tx \in read[i].mail.reply.text
       /\ read[i].account.firefly \in FireflyIds
  /\ \A p \in pending :
       /\ p.ext \in DOMAIN read /\ p.leg \in Legs /\ p.units \in Int /\ p.old \in BOOLEAN
       /\ {p.source, p.destination} \subseteq FireflyIds
  /\ \A t \in ledger :
       /\ t.exts \subseteq DOMAIN read /\ t.type \in Legs \cup {"transfer"}
       /\ t.tagged \in BOOLEAN /\ {t.source, t.destination} \subseteq FireflyIds \cup {NoAccount}

Leg(i) == read[i].tx.type
Amount(i) == Absolute(CHOOSE a \in read[i].tx.amount : TRUE)

\* A transfer joins a withdrawal and a deposit of one amount, but for less than a cent, and
\* moves it between the two accounts on which the emails would have been booked by
\* themselves: no leg is taken for another route or amount, whatever routes share an
\* account or a keyword.
TransferJoinsBothAccounts ==
  \A t \in ledger : t.type = "transfer" =>
    \E w, d \in t.exts :
      /\ Leg(w) = "withdrawal" /\ Leg(d) = "deposit"
      /\ t.source = read[w].account.firefly /\ t.destination = read[d].account.firefly
      /\ Amount(w) - Amount(d) \in -9..9

\* The rules that take an email for a leg.
FittingRules(i) ==
  {r \in Range(config.rules) : Fits(r, Leg(i), read[i].account.id, Narration(read[i].tx))}

\* Two legs of one transfer, of which the rules leave no doubt.
Couple(w, d) ==
  /\ Leg(w) = "withdrawal" /\ Leg(d) = "deposit" /\ Amount(w) = Amount(d)
  /\ FittingRules(w) = FittingRules(d) /\ Cardinality(FittingRules(w)) = 1
  /\ \A r \in FittingRules(w) : FireflyId(r.source) # {} /\ FireflyId(r.destination) # {}

InTransfer(i) == \E t \in ledger : t.type = "transfer" /\ i \in t.exts
WaitedTooLong(i) ==
  \/ \E p \in pending : p.ext = i /\ p.old
  \/ \E t \in ledger : t.tagged /\ i \in t.exts

\* Two legs of one transfer do not pass each other: in whatever order they come, and
\* whatever other legs wait, one of them is joined (to the other or to a like one), unless
\* one waited longer than the window.
CouplesMeet ==
  \A w, d \in DOMAIN read :
    Couple(w, d) => InTransfer(w) \/ InTransfer(d) \/ WaitedTooLong(w) \/ WaitedTooLong(d)

\* What a text says of an account: by a card, by the end of an account number, by an
\* alias; where in the text (aliases have no place); and which account of the list.
Hints(mail) ==
  {h \in {<<1, i, a>> : i \in DOMAIN mail.cards, a \in DOMAIN config.accounts} :
     mail.cards[h[2]] \in config.accounts[h[3]].cards}
  \cup
  {h \in {<<2, i, a>> : i \in DOMAIN mail.numbers, a \in DOMAIN config.accounts} :
     \E s \in config.accounts[h[3]].suffixes : IsSuffix(s, mail.numbers[h[2]])}
  \cup
  {h \in {<<3, 0, a>> : a \in DOMAIN config.accounts} :
     config.accounts[h[3]].aliases \cap mail.words # {}}

Before(h, k) ==
  \/ h[1] < k[1]
  \/ h[1] = k[1] /\ h[2] < k[2]
  \/ h[1] = k[1] /\ h[2] = k[2] /\ h[3] <= k[3]

\* Every email is booked on the account of its best hint (a card before an account number
\* before an alias, then the text's order, then the configuration's), and on the default
\* account only when no hint names any.
BestHintDecides ==
  \A i \in DOMAIN read :
    LET hints == Hints(read[i].mail) IN
    IF hints = {} THEN read[i].account = [id |-> "default", firefly |-> config.default]
    ELSE \E h \in hints : /\ \A k \in hints : Before(h, k)
                          /\ read[i].account.id = config.accounts[h[3]].id

=============================================================================
