---------------------------- MODULE JobBuilding ----------------------------
(***************************************************************************)
(* How a method of a parsed configuration becomes a Job (createFencingJob, *)
(* CreateContainer).  getContainerCommand appends a mechanism's arguments  *)
(* to the Command slice that the configuration holds, and the next Job is  *)
(* built from the same slice.  A slice is a length over an array; append   *)
(* writes into the array as long as it has room, and copies it when it has *)
(* not.  The Job is encoded, and so the arrays are read, when it is sent.  *)
(* The FencingRequest worker builds Jobs; the Job worker would do so too,  *)
(* at the same time, if listFencingRequests ever found its request.        *)
(***************************************************************************)
EXTENDS ConfigParser

CONSTANTS
  Drafts,    \* methods an administrator may have in mind
  Targets,   \* the nodes to fence
  Workers,   \* the workers that build Jobs
  None

(* What the types of pkg/apis can hold of a method.                        *)
MapOfStrings(f) ==
  f \in [DOMAIN f -> STRING] /\ DOMAIN f \subseteq STRING /\ IsFiniteSet(DOMAIN f)

FencingDynamicConfig(d) ==
  /\ d \in [Field : STRING, Default : STRING, Values : {d.Values}]
  /\ MapOfStrings(d.Values)

Container ==
  [Name : STRING, Image : STRING, Command : Seq(STRING),
   Env : Seq([name : STRING, value : STRING])]

FencingMechanism(m) ==
  /\ m \in [Container : Container, PassTargetAs : STRING, ArgumentFormat : STRING,
            Config : {m.Config}, DynamicConfig : Seq(Range(m.DynamicConfig)),
            Secrets : {m.Secrets}]
  /\ MapOfStrings(m.Config) /\ MapOfStrings(m.Secrets)
  /\ \A d \in Range(m.DynamicConfig) : FencingDynamicConfig(d)

FencingMethod(method) ==
  /\ method \in [Name : STRING, Mechanisms : Seq(Range(method.Mechanisms))]
  /\ \A m \in Range(method.Mechanisms) : FencingMechanism(m)

(* As long as an array has less than 1024 elements, append doubles it. *)
MaxWords == 1024

ASSUME DraftsAssumption ==
  \A method \in Drafts :
    /\ FencingMethod(method)
    /\ \A m \in Range(method.Mechanisms) : Len(m.Container.Command) <= MaxWords

ASSUME NoneAssumption == None \notin Nat

VARIABLES
  draft,     \* the method that was written down
  parsed,    \* the configuration in fencingConfigs, None before it is loaded
  array,     \* the array behind each mechanism's Container.Command
  builder,   \* each worker's createFencingJob
  sent       \* the Jobs as they were encoded

vars == <<draft, parsed, array, builder, sent>>

-----------------------------------------------------------------------------
(* The text: pairs that belong together are one list item.  One item per    *)
(* pair, as in deploy/cr-design.yaml, loses all but the first               *)
(* (GetMapOfStrings).                                                       *)

Pairs(f) == List(<<Mapping([k \in DOMAIN f |-> Text(f[k])])>>)

Items(Op(_), s) == List([i \in DOMAIN s |-> Op(s[i])])

Written(method) ==
  LET variable(e) == Mapping([name |-> Text(e.name), value |-> Text(e.value)])
      dynamic(d) == Mapping([field |-> Text(d.Field), default |-> Text(d.Default),
                             values |-> Pairs(d.Values)])
      container(c) == Mapping([name |-> Text(c.Name), image |-> Text(c.Image),
                               command |-> Items(Text, c.Command),
                               env |-> Items(variable, c.Env)])
      mechanism(m) == Mapping([container |-> container(m.Container),
                               passTargetAs |-> Text(m.PassTargetAs),
                               argumentFormat |-> Text(m.ArgumentFormat),
                               config |-> Pairs(m.Config),
                               dynamicConfig |-> Items(dynamic, m.DynamicConfig),
                               secrets |-> Pairs(m.Secrets)])
  IN [methods |-> List(<<Mapping([name |-> Text(method.Name),
                                  mechanisms |-> Items(mechanism, method.Mechanisms)])>>)]

-----------------------------------------------------------------------------
(* Slices.  Arguments are words, or a name with its dashes.                *)

Word(s) == [dashes |-> FALSE, text |-> s]
Flag(s) == [dashes |-> TRUE, text |-> s]
Blank   == [dashes |-> FALSE, text |-> ""]

(* What an array has grown to when n strings were appended one by one. *)
Sizes == {0, 1, 2, 4, 8, 16, 32, 64, 128, 256, 512, MaxWords}

Capacity(n) == Min({c \in Sizes : n <= c})

NewArray(command) ==
  [i \in 1 .. Capacity(Len(command)) |->
     IF i <= Len(command) THEN Word(command[i]) ELSE Blank]

(* A slice of mechanism i's array, or of a private copy of it. *)
Shared(i, n) == [of |-> i, len |-> n, copy |-> <<>>]
Private(s)   == [of |-> None, len |-> Len(s), copy |-> s]

Contents(slice) ==
  IF slice.of = None THEN slice.copy ELSE SubSeq(array[slice.of], 1, slice.len)

-----------------------------------------------------------------------------
(* What is passed to an agent.                                             *)

(* Slip: every target gets the default. *)
LookupDefault(dc, target) == [ok |-> dc.Default # "", value |-> dc.Default]

Lookup(dc, target) ==
  IF target \in DOMAIN dc.Values THEN [ok |-> TRUE, value |-> dc.Values[target]]
  ELSE [ok |-> dc.Default # "", value |-> dc.Default]

(* The dynamic attributes before the first without a value. *)
Known(m, target) ==
  Max({k \in 0 .. Len(m.DynamicConfig) :
         \A i \in 1 .. k : Lookup(m.DynamicConfig[i], target).ok})

Aborted(m, target) ==
  \/ m.ArgumentFormat \notin {"env", "cli"}
  \/ Known(m, target) < Len(m.DynamicConfig)

(* getContainerCommand appends these, in this order; order is how the loop  *)
(* happens to go through the map m.Config.                                  *)
Appended(m, target, order) ==
  LET fixed == FlattenSeq([i \in DOMAIN order |->
                             <<Flag(order[i]), Word(m.Config[order[i]])>>])
      value(i) == Word(Lookup(m.DynamicConfig[i], target).value)
      known == Known(m, target)
      dynamic == FlattenSeq([i \in 1 .. known |->
                               <<Flag(m.DynamicConfig[i].Field), value(i)>>])
      last == IF known < Len(m.DynamicConfig)
              THEN <<Flag(m.DynamicConfig[known + 1].Field)>>
              ELSE (IF m.PassTargetAs = "" THEN <<>> ELSE <<Flag(m.PassTargetAs)>>)
                   \o <<Word(target)>>
  IN IF m.ArgumentFormat = "cli" THEN fixed \o dynamic \o last ELSE <<>>

Variable(name, value) == [name |-> name, value |-> value]

(* getContainerEnv and processSecrets; the order is left out. *)
Environment(m, target) ==
  LET secrets == {Variable("SECRETPATH_" \o k, m.Secrets[k]) : k \in DOMAIN m.Secrets}
      fixed == {Variable(k, m.Config[k]) : k \in DOMAIN m.Config}
      dynamic == {Variable(d.Field, Lookup(d, target).value) : d \in Range(m.DynamicConfig)}
      passed == IF m.PassTargetAs = "" THEN {} ELSE {Variable(m.PassTargetAs, target)}
  IN {Variable("SECRET_FORMAT", m.ArgumentFormat)} \cup Range(m.Container.Env) \cup secrets
     \cup (IF m.ArgumentFormat = "env" THEN fixed \cup dynamic \cup passed ELSE {})

(* processSecrets: a volume per secret, mounted under its name. *)
Volumes(m) == {[name |-> "secret-" \o k, secret |-> m.Secrets[k]] : k \in DOMAIN m.Secrets}

-----------------------------------------------------------------------------
(* The workers.                                                            *)

Resting == [pc |-> "idle", target |-> None, left |-> <<>>, slice |-> Private(<<>>),
            containers |-> <<>>, volumes |-> {}]

Init ==
  /\ draft \in Drafts
  /\ parsed = None
  /\ array = <<>>
  /\ builder = [w \in Workers |-> Resting]
  /\ sent = {}

MechanismsOf(config) ==
  FlattenSeq([i \in DOMAIN config.Methods |-> config.Methods[i].Mechanisms])

Mechanisms == MechanismsOf(parsed)

(* HandleConfigMap has the configuration, and its slices, ready. *)
Load ==
  /\ parsed = None
  /\ parsed' = FencingConfig(Written(draft))
  /\ array' = [i \in DOMAIN MechanismsOf(parsed') |->
                 NewArray(MechanismsOf(parsed')[i].Container.Command)]
  /\ UNCHANGED <<draft, builder, sent>>

Start(w, target) ==
  /\ parsed # None /\ builder[w].pc = "idle"
  /\ builder' = [builder EXCEPT ![w] = [Resting EXCEPT !.pc = "mechanism",
                                                       !.target = target]]
  /\ UNCHANGED <<draft, parsed, array, sent>>

(* Slip: the arguments take the place of the command. *)
CommandOfEmptied(i) == Shared(i, 0)

CommandOf(i) == Shared(i, Len(Mechanisms[i].Container.Command))

(* The next mechanism: its command, and what is to be appended to it. *)
NextMechanism(w) ==
  LET i == Len(builder[w].containers) + 1
      m == Mechanisms[i]
  IN /\ builder[w].pc = "mechanism" /\ i <= Len(Mechanisms)
     /\ \E order \in SetToSeqs(DOMAIN m.Config) :
          builder' = [builder EXCEPT
            ![w].pc = "append", ![w].slice = CommandOf(i),
            ![w].left = Appended(m, builder[w].target, order)]
     /\ UNCHANGED <<draft, parsed, array, sent>>

(* One append. *)
Append1(w) ==
  LET k == builder[w].slice
      room == k.of # None /\ k.len < Len(array[k.of])
      arg == Head(builder[w].left)
      grown == IF room THEN Shared(k.of, k.len + 1)
                       ELSE Private(Append(Contents(k), arg))
  IN /\ builder[w].pc = "append" /\ builder[w].left # <<>>
     /\ array' = IF room THEN [array EXCEPT ![k.of][k.len + 1] = arg] ELSE array
     /\ builder' = [builder EXCEPT ![w].left = Tail(@), ![w].slice = grown]
     /\ UNCHANGED <<draft, parsed, sent>>

(* All is appended: the container is ready, or the method is aborted for    *)
(* want of a value; HandleFencingRequest then records the failure.          *)
EndMechanism(w) ==
  LET m == Mechanisms[Len(builder[w].containers) + 1]
      target == builder[w].target
      container == [command |-> builder[w].slice, env |-> Environment(m, target),
                    mounts |-> {v.name : v \in Volumes(m)}]
  IN /\ builder[w].pc = "append" /\ builder[w].left = <<>>
     /\ \/ /\ Aborted(m, target)
           /\ builder' = [builder EXCEPT ![w] = Resting]
        \/ /\ ~Aborted(m, target)
           /\ builder' = [builder EXCEPT
                ![w].pc = "mechanism", ![w].slice = Private(<<>>),
                ![w].containers = Append(@, container),
                ![w].volumes = @ \cup Volumes(m)]
     /\ UNCHANGED <<draft, parsed, array, sent>>

Send(w) ==
  LET k == builder[w]
      encoded == [i \in DOMAIN k.containers |->
                    [k.containers[i] EXCEPT !.command = Contents(@)]]
  IN /\ k.pc = "mechanism" /\ Len(k.containers) = Len(Mechanisms)
     /\ sent' = sent \cup {[target |-> k.target, containers |-> encoded,
                            volumes |-> k.volumes]}
     /\ builder' = [builder EXCEPT ![w] = Resting]
     /\ UNCHANGED <<draft, parsed, array>>

Next ==
  \/ Load
  \/ \E w \in Workers :
       \/ \E target \in Targets : Start(w, target)
       \/ NextMechanism(w) \/ Append1(w) \/ EndMechanism(w) \/ Send(w)

Spec == Init /\ [][Next]_vars

-----------------------------------------------------------------------------
(* Properties.                                                             *)

(* What is parsed is what was written: each method and mechanism in its     *)
(* place, each pair with its value, as long as pairs that belong together   *)
(* are in one list item (HandleConfigMap).  With a name it is also found by *)
(* its dotted key.                                                          *)
ParsedAsWritten ==
  parsed # None =>
    /\ parsed.Methods = <<draft>>
    /\ retrieveValueFromKeys(<<"methods", draft.Name, "name">>, Written(draft))
         = Text(draft.Name)

(* No worker ever changes the command that the configuration holds, neither *)
(* by an append into its array nor by what it appends next time.            *)
ConfigurationIsIntact ==
  parsed # None =>
    \A i \in DOMAIN array :
      LET command == draft.Mechanisms[i].Container.Command
      IN SubSeq(array[i], 1, Len(command)) = [k \in DOMAIN command |-> Word(command[k])]

(* What a command that is given arguments asks of its array: no room.       *)
FillTheirArrays(methods) ==
  \A method \in methods : \A m \in Range(method.Mechanisms) :
    m.ArgumentFormat = "cli" => Capacity(Len(m.Container.Command)) = Len(m.Container.Command)

(* A Job that is sent fences the target it was built for: each of its       *)
(* containers runs the command that was written down, with the arguments or *)
(* variables that are meant for this target and nothing else in between,    *)
(* whatever was built before and another worker builds meanwhile            *)
(* (createFencingJob).                                                      *)
Adjacent(s, a, b) == \E i \in 1 .. Len(s) - 1 : s[i] = a /\ s[i + 1] = b

ValueFor(d, target) ==
  CHOOSE v \in Range(d.Values) \cup {d.Default} :
    v = IF target \in DOMAIN d.Values THEN d.Values[target] ELSE d.Default

CarriesArguments(s, m, target) ==
  LET command == m.Container.Command
      passed == IF m.PassTargetAs = "" THEN 1 ELSE 2
      extra == 2 * (Cardinality(DOMAIN m.Config) + Len(m.DynamicConfig)) + passed
  IN /\ Len(s) = Len(command) + extra
     /\ \A k \in DOMAIN command : s[k] = Word(command[k])
     /\ s[Len(s)] = Word(target)
     /\ \A k \in DOMAIN m.Config : Adjacent(s, Flag(k), Word(m.Config[k]))
     /\ \A d \in Range(m.DynamicConfig) :
          Adjacent(s, Flag(d.Field), Word(ValueFor(d, target)))

CarriesVariables(env, m, target) ==
  /\ \A k \in DOMAIN m.Config : Variable(k, m.Config[k]) \in env
  /\ \A d \in Range(m.DynamicConfig) : Variable(d.Field, ValueFor(d, target)) \in env
  /\ m.PassTargetAs # "" => Variable(m.PassTargetAs, target) \in env

JobFencesItsTarget ==
  \A j \in sent :
    /\ Len(j.containers) = Len(draft.Mechanisms)
    /\ \A i \in DOMAIN j.containers :
         LET c == j.containers[i]
             m == draft.Mechanisms[i]
         IN /\ \A d \in Range(m.DynamicConfig) :
                 j.target \in DOMAIN d.Values \/ d.Default # ""
            /\ IF m.ArgumentFormat = "cli"
               THEN CarriesArguments(c.command, m, j.target)
               ELSE /\ c.command = [k \in DOMAIN m.Container.Command |->
                                      Word(m.Container.Command[k])]
                    /\ CarriesVariables(c.env, m, j.target)
            /\ \A k \in c.mounts : \E v \in j.volumes : v.name = k
=============================================================================
