--------------------------- MODULE MCJobBuilding ---------------------------
(* Methods for TLC: an agent on the command line, after a first mechanism   *)
(* that is told in its environment.                                         *)
EXTENDS JobBuilding, TLC

NoPairs == [k \in {} |-> ""]

Dynamic(default) == [Field |-> "port", Default |-> default, Values |-> "n1" :> "7"]

Agent(command, env) == [Name |-> "agent", Image |-> "image", Command |-> command, Env |-> env]

Mechanism(format, command, config, dynamic, passed, env, secrets) ==
  [Container |-> Agent(command, env), PassTargetAs |-> passed,
   ArgumentFormat |-> format, Config |-> config, DynamicConfig |-> dynamic,
   Secrets |-> secrets]

Method(mechanisms) == [Name |-> "ipmi", Mechanisms |-> mechanisms]

Words(n) == SubSeq(<<"fence", "-v", "-f", "-t", "-q">>, 1, n)

Told == Mechanism("env", <<"shoot">>, ("ip" :> "10.0.0.1"), <<Dynamic("0")>>, "node",
                  <<[name |-> "mode", value |-> "off"]>>, ("password" :> "bmc"))

OnCommandLine(n, dynamic, passed) ==
  Mechanism("cli", Words(n), ("user" :> "root") @@ ("lanplus" :> "1"), dynamic, passed,
            <<>>, NoPairs)

(* Commands that fill their array, among them none at all; a dynamic        *)
(* attribute with and without a default; an argument format nobody knows.   *)
FittingDrafts ==
  {Method(<<Told, OnCommandLine(n, <<Dynamic(default)>>, passed)>>) :
     n \in {0, 1, 2, 4}, default \in {"", "0"}, passed \in {"", "plug"}}
  \cup {Method(<<Mechanism("json", Words(1), NoPairs, <<>>, "", <<>>, NoPairs)>>)}

(* Three words leave an array of four with room for one, five words one of  *)
(* eight with room for three: appends go into the array, and some of them   *)
(* move out of it.                                                          *)
RoomyDrafts ==
  {Method(<<OnCommandLine(n, <<Dynamic(default)>>, passed), OnCommandLine(3, <<>>, "")>>) :
     n \in {3, 5}, default \in {"", "0"}, passed \in {"", "plug"}}

ASSUME OnlyFittingFill ==
  /\ FillTheirArrays(FittingDrafts)
  /\ \A method \in RoomyDrafts : ~FillTheirArrays({method})

AllDrafts == FittingDrafts \cup RoomyDrafts

TwoTargets == {"n1", "n2"}
OneWorker == {"FencingRequest"}
=============================================================================
