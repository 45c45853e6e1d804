------------------------- MODULE MCTransferDetection -------------------------
(* Instances of TransferDetection for TLC. *)
EXTENDS TransferDetection

\* An alias of savings also stands in texts about the joint account, and the number that
\* ends in sbm's suffix ends in a longer one of the joint account.
Savings == [id |-> "savings", firefly |-> "12", cards |-> {<<7, 4>>}, suffixes |-> {<<9, 7>>},
            aliases |-> {"hdfc"}]
Sbm     == [id |-> "sbm", firefly |-> "42", cards |-> {}, suffixes |-> {<<8, 9>>},
            aliases |-> {"sbm bank"}]
Joint   == [id |-> "joint", firefly |-> "77", cards |-> {}, suffixes |-> {<<3, 8, 9>>},
            aliases |-> {"joint", "hdfc"}]

Rule(source, destination, withdrawal, deposit) ==
  [source |-> source, destination |-> destination,
   withdrawal |-> withdrawal, deposit |-> deposit]

\* Two routes from one account, the way back, and a route to an account that is not listed.
ToSbm    == Rule("savings", "sbm", {"sbm"}, {"neft", "hdfc"})
ToJoint  == Rule("savings", "joint", {"joint"}, {"savings"})
BackHome == Rule("sbm", "savings", {"neft"}, {"sbm"})
ToClosed == Rule("savings", "closed", {"closed"}, {})

ThreeConfigs ==
  {[accounts |-> <<Savings, Sbm, Joint>>, default |-> "99", backend |-> "openai_compatible",
    rules |-> <<ToClosed, ToSbm, ToJoint, BackHome>>],
   [accounts |-> <<Joint, Sbm, Savings>>, default |-> NoAccount, backend |-> "auto",
    rules |-> <<ToJoint, ToSbm>>],
   [accounts |-> <<Sbm, Savings>>, default |-> "99", backend |-> "auto",
    rules |-> <<BackHome, ToSbm, Rule("default", "sbm", {}, {})>>]}

Says(type, amount, narration) ==
  [status |-> "found", amount |-> {amount}, type |-> type, narration |-> {narration}]
NotFound == [status |-> "not_found", amount |-> {}, type |-> "none", narration |-> {}]

Reply(text) == [finish |-> "stop", refusal |-> FALSE, call |-> FALSE, text |-> text]
Mail(cards, numbers, words, text) ==
  [cards |-> cards, numbers |-> numbers, words |-> words, reply |-> Reply(text)]

\* Legs of both routes with one amount, one a fraction of a cent off, one that fits two
\* rules and one that the rule of the missing account takes first; a transfer back; an
\* email without a hint; replies that are of no use.
SomeMails ==
  {Mail(<<<<7, 4>>>>, <<>>, {"joint"}, {Says("withdrawal", 50000, {"sbm"})}),
   Mail(<<>>, <<<<1, 3, 8, 9>>>>, {}, {Says("deposit", 50004, {"neft", "hdfc"})}),
   Mail(<<>>, <<<<5, 9, 7>>, <<1, 8, 9>>>>, {}, {Says("withdrawal", -50000, {"joint"})}),
   Mail(<<>>, <<>>, {"joint"}, {Says("deposit", 50000, {"savings"})}),
   Mail(<<<<7, 4>>>>, <<<<1, 8, 9>>>>, {}, {Says("withdrawal", 50000, {"sbm", "joint"})}),
   Mail(<<<<7, 4>>>>, <<>>, {}, {Says("withdrawal", 50000, {"closed", "sbm"})}),
   Mail(<<<<1, 1>>>>, <<<<2, 8, 9>>>>, {"hdfc"}, {Says("deposit", 50000, {"neft", "hdfc"})}),
   Mail(<<>>, <<>>, {"hdfc"}, {Says("deposit", 700, {"sbm"})}),
   Mail(<<>>, <<>>, {"shop"}, {Says("withdrawal", 700, {})}),
   Mail(<<<<7, 4>>>>, <<>>, {}, {NotFound}),
   Mail(<<<<7, 4>>>>, <<>>, {}, {Garbled}),
   [Mail(<<<<7, 4>>>>, <<>>, {}, {Says("withdrawal", 700, {"closed"})})
      EXCEPT !.reply.finish = "length"]}
=============================================================================
