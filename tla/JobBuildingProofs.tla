------------------------- MODULE JobBuildingProofs -------------------------
(***************************************************************************)
(* What is proved about the parsing of a configuration and the Jobs built  *)
(* from it, for every method that the types of the API can hold: the       *)
(* parser gives back what was written; no worker changes it; and each Job  *)
(* fences its target, if one worker builds Jobs or the commands fill their *)
(* arrays.                                                                 *)
(* The provers have no induction; what is recursive (a fold, FlattenSeq)   *)
(* is compared with its closed form, and where they would differ first     *)
(* (LeastNat) they do not.                                                 *)
(***************************************************************************)
EXTENDS JobBuilding, FiniteSetTheorems, SequenceTheorems, WellFoundedInduction, TLAPS

-----------------------------------------------------------------------------
(* Numbers.                                                                *)

(* A set of natural numbers that is not empty has a least element. *)
LEMMA LeastNat ==
  ASSUME NEW T, T \subseteq Nat, T # {}
  PROVE  \E n \in T : \A m \in T : n <= m
<1> DEFINE R == {ss \in Nat \X Nat : ss[1] < ss[2]}
<1>1. IsWellFoundedOn(R, Nat)
  BY NatLessThanWellFounded DEF OpToRel
<1>2. PICK n \in T : \A m \in T : ~ (<<m, n>> \in R)
  <2> HIDE DEF R
  <2> QED BY <1>1, WFMin
<1>3. ASSUME NEW m \in T PROVE n <= m
  <2>1. <<m, n>> \in Nat \X Nat
    OBVIOUS
  <2>2. ~ (m < n)
    BY <1>2, <2>1
  <2> QED BY <2>2
<1> QED BY <1>3

(* Max and Min are what they are called. *)
LEMMA MaxIs ==
  ASSUME NEW S, S \subseteq Int, NEW n \in S, \A m \in S : m <= n
  PROVE  Max(S) = n
<1>1. \A y \in S : n >= y
  OBVIOUS
<1>2. Max(S) \in S /\ \A y \in S : Max(S) >= y
  BY <1>1 DEF Max
<1>3. Max(S) \in Int /\ n \in Int /\ Max(S) >= n /\ Max(S) <= n
  BY <1>2
<1> QED BY <1>3

LEMMA MinIs ==
  ASSUME NEW S, S \subseteq Int, NEW n \in S, \A m \in S : n <= m
  PROVE  Min(S) = n
<1>1. \A y \in S : n =< y
  OBVIOUS
<1>2. Min(S) \in S /\ \A y \in S : Min(S) =< y
  BY <1>1 DEF Min
<1>3. Min(S) \in Int /\ n \in Int /\ Min(S) >= n /\ Min(S) <= n
  BY <1>2
<1> QED BY <1>3

-----------------------------------------------------------------------------
(* retrieveValueFromKeys: a fold over the keys, one or three of them.      *)

Under(v, key) == LET f == FieldsOf(v) IN IF key \in DOMAIN f THEN f[key] ELSE Nothing

LEMMA FieldsOfMapping == ASSUME NEW f PROVE FieldsOf(Mapping(f)) = f
BY DEF FieldsOf, Mapping, createStringMap

LEMMA OneKey ==
  ASSUME NEW fields, NEW key
  PROVE  retrieveValueFromKeys(<<key>>, fields) = Under(Mapping(fields), key)
<1> DEFINE S == DOMAIN <<key>>
           body(g) == [s \in SUBSET S |->
                         IF s = {} THEN Mapping(fields)
                         ELSE Under(g[s \ {Max(s)}], <<key>>[Max(s)])]
           iter == CHOOSE g : g = body(g)
           h == [s \in SUBSET S |-> IF s = {} THEN Mapping(fields)
                                    ELSE Under(Mapping(fields), key)]
<1>1. retrieveValueFromKeys(<<key>>, fields) = iter[S]
  BY DEF retrieveValueFromKeys, FoldLeft, MapThenFoldSet, Under
<1>2. S = {1}
  OBVIOUS
<1>3. h = body(h)
  <2>1. ASSUME NEW s \in SUBSET S, s # {}
        PROVE  Under(h[s \ {Max(s)}], <<key>>[Max(s)]) = Under(Mapping(fields), key)
    <3>1. s = {1}
      BY <1>2, <2>1
    <3>2. Max(s) = 1 /\ s \ {Max(s)} = {}
      BY <3>1, MaxIs
    <3>3. h[s \ {Max(s)}] = Mapping(fields) /\ <<key>>[Max(s)] = key
      BY <3>2
    <3> QED BY <3>3
  <2> QED BY <2>1
<1>4. iter = body(iter)
  <2> HIDE DEF body, h
  <2> QED BY <1>3
<1> HIDE DEF iter
<1>5. iter[{}] = Mapping(fields)
  BY <1>4
<1>6. iter[S] = Under(iter[S \ {Max(S)}], <<key>>[Max(S)])
  BY <1>2, <1>4
<1>7. Max(S) = 1 /\ S \ {Max(S)} = {} /\ <<key>>[1] = key
  BY <1>2, MaxIs
<1> QED BY <1>1, <1>5, <1>6, <1>7

LEMMA ThreeKeys ==
  ASSUME NEW fields, NEW a, NEW b, NEW c
  PROVE  retrieveValueFromKeys(<<a, b, c>>, fields)
           = Under(Under(Under(Mapping(fields), a), b), c)
<1> DEFINE keys == <<a, b, c>>
           S == DOMAIN keys
           body(g) == [s \in SUBSET S |->
                         IF s = {} THEN Mapping(fields)
                         ELSE Under(g[s \ {Max(s)}], keys[Max(s)])]
           iter == CHOOSE g : g = body(g)
           one(s) == IF 1 \in s THEN Under(Mapping(fields), a) ELSE Mapping(fields)
           two(s) == IF 2 \in s THEN Under(one(s), b) ELSE one(s)
           three(s) == IF 3 \in s THEN Under(two(s), c) ELSE two(s)
           h == [s \in SUBSET S |-> three(s)]
<1>1. retrieveValueFromKeys(<<a, b, c>>, fields) = iter[S]
  BY DEF retrieveValueFromKeys, FoldLeft, MapThenFoldSet, Under
<1>2. S = {1, 2, 3} /\ keys[1] = a /\ keys[2] = b /\ keys[3] = c
  OBVIOUS
<1> HIDE DEF keys
<1>3. h = body(h)
  <2>1. ASSUME NEW s \in SUBSET S, s # {}
        PROVE  three(s) = Under(three(s \ {Max(s)}), keys[Max(s)])
    <3>1. CASE 3 \in s
      <4>1. Max(s) = 3
        BY <1>2, <3>1, MaxIs
      <4> QED BY <1>2, <3>1, <4>1
    <3>2. CASE 3 \notin s /\ 2 \in s
      <4>1. Max(s) = 2
        BY <1>2, <3>2, MaxIs
      <4> QED BY <1>2, <3>2, <4>1
    <3>3. CASE 3 \notin s /\ 2 \notin s
      <4>1. s = {1}
        BY <1>2, <2>1, <3>3
      <4>2. Max(s) = 1
        BY <4>1, MaxIs
      <4> QED BY <1>2, <3>3, <4>1, <4>2
    <3> QED BY <3>1, <3>2, <3>3
  <2>2. three({}) = Mapping(fields)
    OBVIOUS
  <2> HIDE DEF three
  <2>3. \A s \in SUBSET S : s \ {Max(s)} \in SUBSET S
    OBVIOUS
  <2>4. \A s \in SUBSET S : h[s] = body(h)[s]
    BY <2>1, <2>2, <2>3
  <2> QED BY <2>4
<1>4. iter = body(iter)
  <2> HIDE DEF body, h
  <2> QED BY <1>3
<1> HIDE DEF iter
<1>5. iter[{}] = Mapping(fields)
  BY <1>4
<1>6. \A s \in SUBSET S : s # {} => iter[s] = Under(iter[s \ {Max(s)}], keys[Max(s)])
  BY <1>4
<1>7. /\ Max({1, 2, 3}) = 3 /\ {1, 2, 3} \ {3} = {1, 2}
      /\ Max({1, 2}) = 2 /\ {1, 2} \ {2} = {1}
      /\ Max({1}) = 1 /\ {1} \ {1} = {}
  <2>1. Max({1, 2, 3}) = 3
    BY MaxIs
  <2>2. Max({1, 2}) = 2
    BY MaxIs
  <2>3. Max({1}) = 1
    BY MaxIs
  <2> QED BY <2>1, <2>2, <2>3
<1>8. iter[{1}] = Under(Mapping(fields), a)
  BY <1>2, <1>5, <1>6, <1>7
<1>9. iter[{1, 2}] = Under(iter[{1}], b)
  BY <1>2, <1>6, <1>7
<1>10. iter[{1, 2, 3}] = Under(iter[{1, 2}], c)
  BY <1>2, <1>6, <1>7
<1> QED BY <1>1, <1>2, <1>8, <1>9, <1>10

-----------------------------------------------------------------------------
(* The getters give back what was written under a key.                     *)

LEMMA Retrieve ==
  ASSUME NEW fields, NEW key \in DOMAIN fields
  PROVE  retrieveValueFromKeys(<<key>>, fields) = fields[key]
BY OneKey, FieldsOfMapping DEF Under

LEMMA GetStringWritten ==
  ASSUME NEW fields, NEW key \in DOMAIN fields, NEW s, fields[key] = Text(s)
  PROVE  GetString(fields, key) = s
<1>1. retrieveValueFromKeys(<<key>>, fields) = Text(s)
  BY Retrieve
<1>2. Text(s).kind = "string" /\ Text(s).text = s
  BY DEF Text
<1> QED BY <1>1, <1>2 DEF GetString

LEMMA GetSubConfigWritten ==
  ASSUME NEW fields, NEW key \in DOMAIN fields, NEW f, fields[key] = Mapping(f)
  PROVE  GetSubConfig(fields, key) = f
BY Retrieve DEF GetSubConfig, Mapping, createStringMap

LEMMA GetSliceOfStringsWritten ==
  ASSUME NEW fields, NEW key \in DOMAIN fields, NEW s \in Seq(STRING),
         fields[key] = Items(Text, s)
  PROVE  GetSliceOfStrings(fields, key) = s
<1> DEFINE items == [i \in DOMAIN s |-> Text(s[i])]
           v == retrieveValueFromKeys(<<key>>, fields)
<1>1. v.kind = "list" /\ v.items = items
  BY Retrieve DEF Items, List
<1>2. \A i \in DOMAIN items : items[i].kind = "string" /\ items[i].text = s[i]
  BY DEF Text
<1>3. DOMAIN items = DOMAIN s /\ s = [i \in DOMAIN s |-> s[i]]
  OBVIOUS
<1> HIDE DEF items, v
<1>4. GetSliceOfStrings(fields, key) = [i \in DOMAIN v.items |-> v.items[i].text]
  <2>1. v.kind = "list" /\ \A i \in DOMAIN v.items : v.items[i].kind = "string"
    BY <1>1, <1>2
  <2> QED BY <2>1 DEF GetSliceOfStrings, v
<1>5. [i \in DOMAIN v.items |-> v.items[i].text] = [i \in DOMAIN s |-> s[i]]
  BY <1>1, <1>2, <1>3
<1> QED BY <1>3, <1>4, <1>5

(* A list of mappings has no item to stop at. *)
LEMMA LeadingIsAll ==
  ASSUME NEW n \in Nat, NEW items, items = [i \in 1 .. n |-> items[i]],
         \A i \in 1 .. n : createStringMap(items[i])
  PROVE  Leading(items) = items
<1>1. items \in Seq({items[i] : i \in 1 .. n}) /\ Len(items) = n
  OBVIOUS
<1> DEFINE clean == {k \in 0 .. n : \A i \in 1 .. k : createStringMap(items[i])}
<1>2. n \in clean /\ clean \subseteq Int /\ \A m \in clean : m <= n
  OBVIOUS
<1> HIDE DEF clean
<1>3. Max(clean) = n
  BY <1>2, MaxIs
<1>4. Leading(items) = SubSeq(items, 1, n)
  BY <1>1, <1>3 DEF Leading, clean
<1> QED BY <1>1, <1>4, SubSeqFull

LEMMA GetSubConfigArrayWritten ==
  ASSUME NEW cfg, NEW key \in DOMAIN cfg, NEW n \in Nat, NEW items,
         items = [i \in 1 .. n |-> Mapping(items[i].fields)],
         cfg[key] = List(items)
  PROVE  GetSubConfigArray(cfg, key) = [i \in 1 .. n |-> items[i].fields]
<1> DEFINE v == retrieveValueFromKeys(<<key>>, cfg)
<1>1. v.kind = "list" /\ v.items = items
  BY Retrieve DEF List
<1>2. \A i \in 1 .. n : createStringMap(items[i])
  <2> TAKE i \in 1 .. n
  <2>1. items[i] = Mapping(items[i].fields)
    OBVIOUS
  <2>2. \A f : createStringMap(Mapping(f))
    BY DEF createStringMap, Mapping
  <2> QED BY <2>1, <2>2
<1>3. items = [i \in 1 .. n |-> items[i]] /\ DOMAIN items = 1 .. n
  OBVIOUS
<1>4. Leading(items) = items
  BY <1>2, <1>3, LeadingIsAll
<1> HIDE DEF v
<1>5. GetSubConfigArray(cfg, key) = [i \in DOMAIN Leading(v.items) |-> v.items[i].fields]
  BY <1>1 DEF GetSubConfigArray, v
<1> QED BY <1>1, <1>3, <1>4, <1>5

LEMMA OneItem == \A x : <<x>> = [i \in 1 .. 1 |-> x]
OBVIOUS

LEMMA GetMapOfStringsWritten ==
  ASSUME NEW cfg, NEW key \in DOMAIN cfg, NEW f, MapOfStrings(f), cfg[key] = Pairs(f)
  PROVE  GetMapOfStrings(cfg, key) = f
<1> DEFINE texts == [k \in DOMAIN f |-> Text(f[k])]
           items == [i \in 1 .. 1 |-> Mapping(texts)]
<1>1. items = [i \in 1 .. 1 |-> Mapping(items[i].fields)] /\ items[1].fields = texts
  <2>1. Mapping(texts).fields = texts
    BY DEF Mapping
  <2> QED BY <2>1
<1>2. cfg[key] = List(items)
  BY OneItem DEF Pairs
<1>3. DOMAIN texts = DOMAIN f /\ f = [k \in DOMAIN f |-> f[k]]
  BY DEF MapOfStrings
<1>4. \A k \in DOMAIN f : texts[k].kind = "string" /\ texts[k].text = f[k]
  BY DEF Text
<1> HIDE DEF items, texts
<1>5. GetSubConfigArray(cfg, key) = [i \in 1 .. 1 |-> items[i].fields]
  <2> DEFINE n == 1
  <2>1. n \in Nat /\ items = [i \in 1 .. n |-> Mapping(items[i].fields)]
    BY <1>1
  <2> HIDE DEF n
  <2>2. GetSubConfigArray(cfg, key) = [i \in 1 .. n |-> items[i].fields]
    BY <1>2, <2>1, GetSubConfigArrayWritten
  <2> QED BY <2>2 DEF n
<1>6. GetSubConfigArray(cfg, key) # <<>> /\ GetSubConfigArray(cfg, key)[1] = texts
  BY <1>1, <1>5
<1>7. GetMapOfStrings(cfg, key)
        = [k \in {k \in DOMAIN texts : texts[k].kind = "string"} |-> texts[k].text]
  BY <1>6 DEF GetMapOfStrings
<1>8. {k \in DOMAIN texts : texts[k].kind = "string"} = DOMAIN f
  BY <1>3, <1>4
<1>9. [k \in DOMAIN f |-> texts[k].text] = [k \in DOMAIN f |-> f[k]]
  BY <1>4
<1> QED BY <1>3, <1>7, <1>8, <1>9

-----------------------------------------------------------------------------
(* The constructors give back what was written.                            *)

VariableFields(e) == [name |-> Text(e.name), value |-> Text(e.value)]

DynamicFields(d) ==
  [field |-> Text(d.Field), default |-> Text(d.Default), values |-> Pairs(d.Values)]

ContainerFields(c) ==
  [name |-> Text(c.Name), image |-> Text(c.Image), command |-> Items(Text, c.Command),
   env |-> List([i \in DOMAIN c.Env |-> Mapping(VariableFields(c.Env[i]))])]

MechanismFields(m) ==
  [container |-> Mapping(ContainerFields(m.Container)),
   passTargetAs |-> Text(m.PassTargetAs), argumentFormat |-> Text(m.ArgumentFormat),
   config |-> Pairs(m.Config),
   dynamicConfig |-> List([i \in DOMAIN m.DynamicConfig |->
                             Mapping(DynamicFields(m.DynamicConfig[i]))]),
   secrets |-> Pairs(m.Secrets)]

MethodFields(method) ==
  [name |-> Text(method.Name),
   mechanisms |-> List([i \in DOMAIN method.Mechanisms |->
                          Mapping(MechanismFields(method.Mechanisms[i]))])]

LEMMA WrittenFields ==
  ASSUME NEW method
  PROVE  Written(method) = [methods |-> List(<<Mapping(MethodFields(method))>>)]
BY DEF Written, Items, VariableFields, DynamicFields, ContainerFields, MechanismFields,
       MethodFields

(* A list with a mapping for each element of a sequence. *)
LEMMA ArrayWritten ==
  ASSUME NEW cfg, NEW key \in DOMAIN cfg, NEW S, NEW s \in Seq(S), NEW fields,
         fields = [i \in DOMAIN s |-> fields[i]],
         cfg[key] = List([i \in DOMAIN s |-> Mapping(fields[i])])
  PROVE  GetSubConfigArray(cfg, key) = fields
<1> DEFINE n == Len(s)
           items == [i \in 1 .. n |-> Mapping(fields[i])]
<1>1. n \in Nat /\ DOMAIN s = 1 .. n
  OBVIOUS
<1>2. \A i \in 1 .. n : items[i] = Mapping(fields[i]) /\ items[i].fields = fields[i]
  BY DEF Mapping
<1>3. cfg[key] = List(items)
  BY <1>1
<1>4. fields = [i \in 1 .. n |-> fields[i]] /\ items = [i \in 1 .. n |-> items[i]]
  BY <1>1
<1> HIDE DEF items, n
<1>5. items = [i \in 1 .. n |-> Mapping(items[i].fields)]
  BY <1>2, <1>4
<1>6. GetSubConfigArray(cfg, key) = [i \in 1 .. n |-> items[i].fields]
  BY <1>1, <1>3, <1>5, GetSubConfigArrayWritten
<1>7. [i \in 1 .. n |-> items[i].fields] = [i \in 1 .. n |-> fields[i]]
  BY <1>2
<1> QED BY <1>4, <1>6, <1>7

LEMMA DynamicParsed ==
  ASSUME NEW d, FencingDynamicConfig(d)
  PROVE  newDynamicAttributeFromConfig(DynamicFields(d)) = d
<1> DEFINE cfg == DynamicFields(d)
<1>1. /\ {"field", "default", "values"} \subseteq DOMAIN cfg
      /\ cfg["field"] = Text(d.Field) /\ cfg["default"] = Text(d.Default)
      /\ cfg["values"] = Pairs(d.Values)
  BY DEF DynamicFields
<1>2. d = [Field |-> d.Field, Default |-> d.Default, Values |-> d.Values]
      /\ MapOfStrings(d.Values)
  BY DEF FencingDynamicConfig
<1> HIDE DEF cfg
<1>3. GetString(cfg, "field") = d.Field /\ GetString(cfg, "default") = d.Default
  BY <1>1, GetStringWritten
<1>4. GetMapOfStrings(cfg, "values") = d.Values
  BY <1>1, <1>2, GetMapOfStringsWritten
<1>5. newDynamicAttributeFromConfig(cfg)
        = [Field |-> d.Field, Default |-> d.Default, Values |-> d.Values]
  BY <1>3, <1>4 DEF newDynamicAttributeFromConfig
<1> QED BY <1>2, <1>5 DEF cfg

LEMMA VariableParsed ==
  ASSUME NEW e \in [name : STRING, value : STRING]
  PROVE  [name |-> GetString(VariableFields(e), "name"),
          value |-> GetString(VariableFields(e), "value")] = e
<1> DEFINE cfg == VariableFields(e)
<1>1. /\ {"name", "value"} \subseteq DOMAIN cfg
      /\ cfg["name"] = Text(e.name) /\ cfg["value"] = Text(e.value)
  BY DEF VariableFields
<1> HIDE DEF cfg
<1>2. GetString(cfg, "name") = e.name /\ GetString(cfg, "value") = e.value
  BY <1>1, GetStringWritten
<1> QED BY <1>2 DEF cfg

LEMMA ContainerParsed ==
  ASSUME NEW c \in Container
  PROVE  newContainerFromConfig(ContainerFields(c)) = c
<1> DEFINE cfg == ContainerFields(c)
           S == [name : STRING, value : STRING]
           fields == [i \in DOMAIN c.Env |-> VariableFields(c.Env[i])]
<1>1. /\ {"name", "image", "command", "env"} \subseteq DOMAIN cfg
      /\ cfg["name"] = Text(c.Name) /\ cfg["image"] = Text(c.Image)
      /\ cfg["command"] = Items(Text, c.Command)
      /\ cfg["env"] = List([i \in DOMAIN c.Env |-> Mapping(VariableFields(c.Env[i]))])
  BY DEF ContainerFields
<1>2. /\ c = [Name |-> c.Name, Image |-> c.Image, Command |-> c.Command, Env |-> c.Env]
      /\ c.Command \in Seq(STRING) /\ c.Env \in Seq(S)
  BY DEF Container
<1> HIDE DEF cfg, S
<1>3. GetString(cfg, "name") = c.Name /\ GetString(cfg, "image") = c.Image
  BY <1>1, GetStringWritten
<1>4. GetSliceOfStrings(cfg, "command") = c.Command
  BY <1>1, <1>2, GetSliceOfStringsWritten
<1>5. GetSubConfigArray(cfg, "env") = fields
  <2> DEFINE env == c.Env
  <2>1. /\ env \in Seq(S) /\ fields = [i \in DOMAIN env |-> fields[i]]
        /\ cfg["env"] = List([i \in DOMAIN env |-> Mapping(fields[i])])
    BY <1>1, <1>2
  <2> HIDE DEF fields, env
  <2> QED BY <1>1, <2>1, ArrayWritten
<1>6. [i \in DOMAIN fields |-> [name |-> GetString(fields[i], "name"),
                                value |-> GetString(fields[i], "value")]] = c.Env
  <2>1. c.Env = [i \in DOMAIN c.Env |-> c.Env[i]] /\ DOMAIN fields = DOMAIN c.Env
    BY <1>2
  <2>2. ASSUME NEW i \in DOMAIN c.Env
        PROVE  [name |-> GetString(fields[i], "name"),
                value |-> GetString(fields[i], "value")] = c.Env[i]
    <3>1. c.Env[i] \in S /\ fields[i] = VariableFields(c.Env[i])
      BY <1>2
    <3> HIDE DEF fields
    <3> QED BY <3>1, VariableParsed DEF S
  <2> HIDE DEF fields
  <2> QED BY <2>1, <2>2
<1> HIDE DEF fields
<1>7. newContainerFromConfig(cfg)
        = [Name |-> c.Name, Image |-> c.Image, Command |-> c.Command, Env |-> c.Env]
  BY <1>3, <1>4, <1>5, <1>6 DEF newContainerFromConfig
<1> QED BY <1>2, <1>7 DEF cfg

LEMMA MechanismParsed ==
  ASSUME NEW m, FencingMechanism(m)
  PROVE  newFencingMechanismFromConfig(MechanismFields(m)) = m
<1> DEFINE cfg == MechanismFields(m)
           dcs == m.DynamicConfig
           fields == [i \in DOMAIN dcs |-> DynamicFields(dcs[i])]
<1>1. /\ {"container", "passTargetAs", "argumentFormat", "config", "dynamicConfig",
          "secrets"} \subseteq DOMAIN cfg
      /\ cfg["container"] = Mapping(ContainerFields(m.Container))
      /\ cfg["passTargetAs"] = Text(m.PassTargetAs)
      /\ cfg["argumentFormat"] = Text(m.ArgumentFormat)
      /\ cfg["config"] = Pairs(m.Config) /\ cfg["secrets"] = Pairs(m.Secrets)
      /\ cfg["dynamicConfig"] = List([i \in DOMAIN dcs |-> Mapping(fields[i])])
  BY DEF MechanismFields
<1>2. /\ m = [Container |-> m.Container, PassTargetAs |-> m.PassTargetAs,
              ArgumentFormat |-> m.ArgumentFormat, Config |-> m.Config,
              DynamicConfig |-> m.DynamicConfig, Secrets |-> m.Secrets]
      /\ m.Container \in Container /\ dcs \in Seq(Range(dcs))
      /\ MapOfStrings(m.Config) /\ MapOfStrings(m.Secrets)
      /\ \A i \in DOMAIN dcs : FencingDynamicConfig(dcs[i])
  BY DEF FencingMechanism, Range
<1>3. GetSubConfigArray(cfg, "dynamicConfig") = fields
  <2>1. fields = [i \in DOMAIN dcs |-> fields[i]]
    OBVIOUS
  <2> HIDE DEF cfg, dcs, fields
  <2> QED BY <1>1, <1>2, <2>1, ArrayWritten
<1>4. [i \in DOMAIN fields |-> newDynamicAttributeFromConfig(fields[i])] = dcs
  <2>1. dcs = [i \in DOMAIN dcs |-> dcs[i]] /\ DOMAIN fields = DOMAIN dcs
    BY <1>2
  <2>2. \A i \in DOMAIN dcs : newDynamicAttributeFromConfig(fields[i]) = dcs[i]
    BY <1>2, DynamicParsed
  <2> HIDE DEF fields, dcs
  <2> QED BY <2>1, <2>2
<1> HIDE DEF cfg, fields
<1>5. /\ GetString(cfg, "passTargetAs") = m.PassTargetAs
      /\ GetString(cfg, "argumentFormat") = m.ArgumentFormat
  BY <1>1, GetStringWritten
<1>6. newContainerFromConfig(GetSubConfig(cfg, "container")) = m.Container
  BY <1>1, <1>2, GetSubConfigWritten, ContainerParsed
<1>7. GetMapOfStrings(cfg, "config") = m.Config /\ GetMapOfStrings(cfg, "secrets") = m.Secrets
  BY <1>1, <1>2, GetMapOfStringsWritten
<1>8. newFencingMechanismFromConfig(cfg)
        = [Container |-> m.Container, PassTargetAs |-> m.PassTargetAs,
           ArgumentFormat |-> m.ArgumentFormat, Config |-> m.Config,
           DynamicConfig |-> m.DynamicConfig, Secrets |-> m.Secrets]
  BY <1>3, <1>4, <1>5, <1>6, <1>7 DEF newFencingMechanismFromConfig
<1> QED BY <1>2, <1>8 DEF cfg

LEMMA MethodParsed ==
  ASSUME NEW method, FencingMethod(method)
  PROVE  NewFencingMethodFromConfig(MethodFields(method)) = method
<1> DEFINE cfg == MethodFields(method)
           ms == method.Mechanisms
           fields == [i \in DOMAIN ms |-> MechanismFields(ms[i])]
<1>1. /\ {"name", "mechanisms"} \subseteq DOMAIN cfg
      /\ cfg["name"] = Text(method.Name)
      /\ cfg["mechanisms"] = List([i \in DOMAIN ms |-> Mapping(fields[i])])
  BY DEF MethodFields
<1>2. /\ method = [Name |-> method.Name, Mechanisms |-> ms]
      /\ ms \in Seq(Range(ms))
      /\ \A i \in DOMAIN ms : FencingMechanism(ms[i])
  BY DEF FencingMethod, Range
<1>3. GetSubConfigArray(cfg, "mechanisms") = fields
  <2>1. fields = [i \in DOMAIN ms |-> fields[i]]
    OBVIOUS
  <2> HIDE DEF cfg, ms, fields
  <2> QED BY <1>1, <1>2, <2>1, ArrayWritten
<1>4. [i \in DOMAIN fields |-> newFencingMechanismFromConfig(fields[i])] = ms
  <2>1. ms = [i \in DOMAIN ms |-> ms[i]] /\ DOMAIN fields = DOMAIN ms
    BY <1>2
  <2>2. \A i \in DOMAIN ms : newFencingMechanismFromConfig(fields[i]) = ms[i]
    BY <1>2, MechanismParsed
  <2> HIDE DEF fields, ms
  <2> QED BY <2>1, <2>2
<1> HIDE DEF cfg, fields
<1>5. GetString(cfg, "name") = method.Name
  BY <1>1, GetStringWritten
<1>6. NewFencingMethodFromConfig(cfg) = [Name |-> method.Name, Mechanisms |-> ms]
  BY <1>3, <1>4, <1>5 DEF NewFencingMethodFromConfig
<1> QED BY <1>2, <1>6 DEF cfg

(* HandleConfigMap gets the method that was written, and no other. *)
LEMMA ConfigParsed ==
  ASSUME NEW method, FencingMethod(method)
  PROVE  FencingConfig(Written(method)).Methods = <<method>>
<1> DEFINE cfg == Written(method)
           fields == [i \in 1 .. 1 |-> MethodFields(method)]
<1>1. "methods" \in DOMAIN cfg /\ cfg["methods"] = List(<<Mapping(MethodFields(method))>>)
  BY WrittenFields
<1>2. <<Mapping(MethodFields(method))>> = [i \in 1 .. 1 |-> Mapping(fields[i])]
  BY OneItem
<1>3. DOMAIN <<method>> = 1 .. 1 /\ <<method>> \in Seq({method})
  OBVIOUS
<1>4. fields = [i \in 1 .. 1 |-> fields[i]]
  OBVIOUS
<1>5. GetSubConfigArray(cfg, "methods") = fields
  <2> DEFINE s == <<method>>
  <2>1. /\ s \in Seq({method}) /\ fields = [i \in DOMAIN s |-> fields[i]]
        /\ cfg["methods"] = List([i \in DOMAIN s |-> Mapping(fields[i])])
    BY <1>1, <1>2, <1>3, <1>4
  <2> HIDE DEF cfg, fields, s
  <2> QED BY <1>1, <2>1, ArrayWritten
<1> HIDE DEF cfg
<1>6. [i \in DOMAIN fields |-> NewFencingMethodFromConfig(fields[i])]
        = [i \in 1 .. 1 |-> method]
  BY MethodParsed
<1> HIDE DEF fields
<1>7. FencingConfig(cfg).Methods = [i \in 1 .. 1 |-> method]
  BY <1>5, <1>6 DEF FencingConfig
<1> QED BY <1>7, OneItem DEF cfg

(* The name of the method is a dotted key of the text. *)
LEMMA NameFound ==
  ASSUME NEW method
  PROVE  retrieveValueFromKeys(<<"methods", method.Name, "name">>, Written(method))
           = Text(method.Name)
<1> DEFINE fields == MethodFields(method)
           items == [i \in 1 .. 1 |-> Mapping(fields)]
<1>1. "name" \in DOMAIN fields /\ fields["name"] = Text(method.Name)
  BY DEF MethodFields
<1>2. Under(Mapping(Written(method)), "methods") = List(items)
  BY WrittenFields, FieldsOfMapping, OneItem DEF Under
<1> HIDE DEF fields
<1>3. Leading(items) = items
  <2> DEFINE n == 1
  <2>1. n \in Nat /\ items = [i \in 1 .. n |-> items[i]]
        /\ \A i \in 1 .. n : createStringMap(items[i])
    BY DEF createStringMap, Mapping
  <2> HIDE DEF items, n
  <2> QED BY <2>1, LeadingIsAll
<1>4. DOMAIN items = {1} /\ items[1] = Mapping(fields)
  OBVIOUS
<1> HIDE DEF items
<1>5. NameOf(items[1]) = Text(method.Name) /\ Text(method.Name).kind = "string"
      /\ Text(method.Name).text = method.Name
  BY <1>1, <1>4 DEF NameOf, Mapping, Text
<1>6. createSubMapFromArray(items) = [key \in {method.Name} |-> Mapping(fields)]
  <2> DEFINE named(i) == NameOf(items[i]).kind = "string"
             keys == {NameOf(items[i]).text : i \in {j \in DOMAIN items : named(j)}}
             last(key) == Max({i \in DOMAIN items : NameOf(items[i]) = Text(key)})
  <2>1. keys = {method.Name}
    BY <1>4, <1>5
  <2>2. {i \in DOMAIN items : NameOf(items[i]) = Text(method.Name)} = {1}
    BY <1>4, <1>5
  <2>3. last(method.Name) = 1
    BY <2>2, MaxIs
  <2>4. createSubMapFromArray(items) = [key \in keys |-> items[last(key)]]
    BY <1>3 DEF createSubMapFromArray
  <2> HIDE DEF keys, last
  <2> QED BY <1>4, <2>1, <2>3, <2>4
<1>7. FieldsOf(List(items)) = [key \in {method.Name} |-> Mapping(fields)]
  BY <1>6 DEF FieldsOf, createStringMap, List
<1>8. Under(List(items), method.Name) = Mapping(fields)
  BY <1>7 DEF Under
<1>9. Under(Mapping(fields), "name") = Text(method.Name)
  BY <1>1, FieldsOfMapping DEF Under
<1> QED BY <1>2, <1>8, <1>9, ThreeKeys

-----------------------------------------------------------------------------
(* FlattenSeq, from its closed form.                                       *)

LEMMA FlattenIs ==
  ASSUME NEW n, NEW seqs, NEW h, n \in Nat \ {0}, Len(seqs) = n,
         h = [i \in 1 .. n |-> IF i = 1 THEN seqs[i] ELSE h[i - 1] \o seqs[i]]
  PROVE  FlattenSeq(seqs) = h[n]
<1> DEFINE body(g) == [i \in 1 .. Len(seqs) |->
                         IF i = 1 THEN seqs[i] ELSE g[i - 1] \o seqs[i]]
           flatten == CHOOSE g : g = body(g)
<1>1. FlattenSeq(seqs) = flatten[Len(seqs)]
  BY DEF FlattenSeq
<1>2. h = body(h)
  OBVIOUS
<1>3. flatten = body(flatten)
  <2> HIDE DEF body
  <2> QED BY <1>2
<1> HIDE DEF flatten
<1>4. h[1] = seqs[1] /\ flatten[1] = seqs[1]
  BY <1>3
<1>5. ASSUME NEW i \in 2 .. n
      PROVE  h[i] = h[i - 1] \o seqs[i] /\ flatten[i] = flatten[i - 1] \o seqs[i]
  <2>1. i \in 1 .. n /\ i # 1
    OBVIOUS
  <2>2. h[i] = h[i - 1] \o seqs[i]
    BY <2>1
  <2>3. flatten[i] = flatten[i - 1] \o seqs[i]
    BY <1>3, <2>1
  <2> QED BY <2>2, <2>3
<1>6. \A i \in 1 .. n : flatten[i] = h[i]
  <2> DEFINE T == {i \in 1 .. n : flatten[i] # h[i]}
  <2> SUFFICES ASSUME T # {} PROVE FALSE
    OBVIOUS
  <2>1. T \subseteq Nat
    OBVIOUS
  <2>2. PICK i \in T : \A j \in T : i <= j
    <3> HIDE DEF T
    <3> QED BY <2>1, LeastNat
  <2>3. i \in 1 .. n /\ flatten[i] # h[i]
    OBVIOUS
  <2>4. i # 1
    BY <1>4, <2>3
  <2>5. i \in 2 .. n /\ i - 1 \in 1 .. n /\ ~ (i <= i - 1)
    BY <2>3, <2>4
  <2>6. i - 1 \notin T
    BY <2>2, <2>5
  <2>7. flatten[i - 1] = h[i - 1]
    BY <2>5, <2>6
  <2>8. h[i] = h[i - 1] \o seqs[i] /\ flatten[i] = flatten[i - 1] \o seqs[i]
    BY <1>5, <2>5
  <2> QED BY <2>3, <2>7, <2>8
<1>7. n \in 1 .. n
  OBVIOUS
<1> HIDE DEF body
<1> QED BY <1>1, <1>6, <1>7

LEMMA FlattenOne ==
  ASSUME NEW s
  PROVE  FlattenSeq([i \in 1 .. 1 |-> s]) = s
<1> DEFINE n == 1
           seqs == [i \in 1 .. 1 |-> s]
<1>1. n \in Nat \ {0} /\ Len(seqs) = n
  OBVIOUS
<1>2. seqs = [i \in 1 .. n |-> IF i = 1 THEN seqs[i] ELSE seqs[i - 1] \o seqs[i]]
  OBVIOUS
<1>3. seqs[n] = s
  OBVIOUS
<1> HIDE DEF seqs, n
<1>4. FlattenSeq(seqs) = seqs[n]
  BY ONLY <1>1, <1>2, FlattenIs
<1> QED BY <1>3, <1>4 DEF seqs

LEMMA FlattenNone ==
  ASSUME NEW seqs, Len(seqs) = 0
  PROVE  FlattenSeq(seqs) = seqs
BY DEF FlattenSeq

(* A sequence of pairs, one after the other. *)
Interleaved(n, a, b) ==
  [k \in 1 .. 2 * n |-> IF k % 2 = 1 THEN a[(k + 1) \div 2] ELSE b[k \div 2]]

LEMMA InterleavedShape ==
  ASSUME NEW n \in Nat, NEW S, NEW a \in [1 .. n -> S], NEW b \in [1 .. n -> S],
         NEW m \in 0 .. n
  PROVE  Interleaved(m, a, b) \in Seq(S) /\ Len(Interleaved(m, a, b)) = 2 * m
<1> DEFINE s == Interleaved(m, a, b)
<1>1. ASSUME NEW k \in 1 .. 2 * m
      PROVE  s[k] \in S
  <2>1. CASE k % 2 = 1
    <3>1. (k + 1) \div 2 \in 1 .. n
      BY <2>1
    <3> QED BY <2>1, <3>1 DEF Interleaved
  <2>2. CASE k % 2 # 1
    <3>1. k \div 2 \in 1 .. n
      BY <2>2
    <3> QED BY <2>2, <3>1 DEF Interleaved
  <2> QED BY <2>1, <2>2
<1>2. s = [k \in 1 .. 2 * m |-> s[k]] /\ 2 * m \in Nat
  BY DEF Interleaved
<1> DEFINE p == 2 * m
<1> HIDE DEF s, p
<1>3. s \in Seq(S) /\ Len(s) = p
  <2>1. p \in Nat /\ s = [k \in 1 .. p |-> s[k]] /\ \A k \in 1 .. p : s[k] \in S
    BY <1>1, <1>2 DEF p
  <2> QED BY ONLY <2>1
<1> QED BY <1>3 DEF s, p

PairAt(n, i, j, k) == n \in Nat /\ i \in 1 .. n /\ j = 2 * i - 1 /\ k = 2 * i

LEMMA InterleavedAt ==
  ASSUME NEW n, NEW a, NEW b, NEW i, NEW j, NEW k, PairAt(n, i, j, k)
  PROVE  Interleaved(n, a, b)[j] = a[i] /\ Interleaved(n, a, b)[k] = b[i]
<1>1. n \in Nat /\ i \in 1 .. n /\ j \in 1 .. 2 * n /\ k \in 1 .. 2 * n
  BY DEF PairAt
<1>2. j % 2 = 1 /\ (j + 1) \div 2 = i
  BY <1>1 DEF PairAt
<1>3. k % 2 # 1 /\ k \div 2 = i
  BY <1>1 DEF PairAt
<1> QED BY <1>1, <1>2, <1>3 DEF Interleaved

PairsBefore(n, S, a, b, k, m) ==
  n \in Nat /\ a \in [1 .. n -> S] /\ b \in [1 .. n -> S] /\ m \in 1 .. n /\ k = m - 1

LEMMA InterleavedGrows ==
  ASSUME NEW n, NEW S, NEW a, NEW b, NEW k, NEW m, PairsBefore(n, S, a, b, k, m)
  PROVE  Interleaved(m, a, b) = Interleaved(k, a, b) \o <<a[m], b[m]>>
<1> SUFFICES ASSUME n \in Nat, a \in [1 .. n -> S], b \in [1 .. n -> S], m \in 1 .. n
             PROVE  Interleaved(m, a, b) = Interleaved(m - 1, a, b) \o <<a[m], b[m]>>
  BY DEF PairsBefore
<1> DEFINE s == Interleaved(m, a, b)
           t == Interleaved(m - 1, a, b)
           u == <<a[m], b[m]>>
<1>0. m \in 0 .. n /\ m - 1 \in 0 .. n
  OBVIOUS
<1>1. s \in Seq(S) /\ Len(s) = 2 * m
  BY <1>0, InterleavedShape
<1>2. t \in Seq(S) /\ Len(t) = 2 * (m - 1)
  BY <1>0, InterleavedShape
<1>3. s[2 * m - 1] = a[m] /\ s[2 * m] = b[m]
  <2> DEFINE j == 2 * m - 1
             l == 2 * m
  <2>1. j \in 1 .. 2 * m /\ l \in 1 .. 2 * m
    OBVIOUS
  <2>2. j % 2 = 1 /\ (j + 1) \div 2 = m
    OBVIOUS
  <2>3. l % 2 # 1 /\ l \div 2 = m
    OBVIOUS
  <2> HIDE DEF j, l
  <2>4. s[j] = a[m] /\ s[l] = b[m]
    BY <2>1, <2>2, <2>3 DEF Interleaved
  <2> QED BY <2>4 DEF j, l
<1>4. u \in Seq(S) /\ Len(u) = 2 /\ u[1] = a[m] /\ u[2] = b[m]
  OBVIOUS
<1>5. \A i \in 1 .. 2 * (m - 1) : s[i] = t[i]
  BY DEF Interleaved
<1> HIDE DEF s, t, u
<1>6. /\ t \o u \in Seq(S) /\ Len(t \o u) = Len(t) + Len(u)
      /\ \A i \in 1 .. Len(t) + Len(u) : (t \o u)[i] = IF i <= Len(t) THEN t[i]
                                                       ELSE u[i - Len(t)]
  BY <1>2, <1>4, ConcatProperties
<1>7. ASSUME NEW i \in 1 .. 2 * m
      PROVE  s[i] = (t \o u)[i]
  <2>0. i \in 1 .. Len(t) + Len(u)
    BY <1>2, <1>4
  <2>1. CASE i <= 2 * (m - 1)
    BY <1>2, <1>5, <1>6, <2>0, <2>1
  <2>2. CASE i = 2 * m - 1
    <3>1. i - Len(t) = 1 /\ ~ (i <= Len(t))
      BY <1>2, <2>2
    <3>2. (t \o u)[i] = u[1]
      BY <1>6, <2>0, <3>1
    <3> QED BY <1>3, <1>4, <2>2, <3>2
  <2>3. CASE i = 2 * m
    <3>1. i - Len(t) = 2 /\ ~ (i <= Len(t))
      BY <1>2, <2>3
    <3>2. (t \o u)[i] = u[2]
      BY <1>6, <2>0, <3>1
    <3> QED BY <1>3, <1>4, <2>3, <3>2
  <2>4. i <= 2 * (m - 1) \/ i = 2 * m - 1 \/ i = 2 * m
    OBVIOUS
  <2> QED BY <2>1, <2>2, <2>3, <2>4
<1>8. Len(t \o u) = 2 * m
  BY <1>2, <1>4, <1>6
<1>9. s = t \o u
  BY <1>1, <1>6, <1>7, <1>8, SeqEqual
<1> QED BY <1>9 DEF s, t, u

LEMMA FlattenPairs ==
  ASSUME NEW n \in Nat, NEW S, NEW a \in [1 .. n -> S], NEW b \in [1 .. n -> S]
  PROVE  FlattenSeq([i \in 1 .. n |-> <<a[i], b[i]>>]) = Interleaved(n, a, b)
<1> DEFINE seqs == [i \in 1 .. n |-> <<a[i], b[i]>>]
           h == [i \in 1 .. n |-> Interleaved(i, a, b)]
<1>1. Len(seqs) = n
  OBVIOUS
<1>2. CASE n = 0
  <2>1. seqs = <<>> /\ Interleaved(n, a, b) = <<>>
    BY <1>2 DEF Interleaved
  <2>2. FlattenSeq(seqs) = seqs
    BY <1>1, <1>2, FlattenNone
  <2> QED BY <2>1, <2>2
<1>3. CASE n # 0
  <2>1. Interleaved(0, a, b) = <<>>
    BY DEF Interleaved
  <2>2. Interleaved(1, a, b) = seqs[1]
    <3>1. Interleaved(1, a, b) = Interleaved(0, a, b) \o <<a[1], b[1]>>
      <4>1. PairsBefore(n, S, a, b, 0, 1)
        BY <1>3 DEF PairsBefore
      <4> QED BY ONLY <4>1, InterleavedGrows
    <3>2. 1 \in 1 .. n
      BY <1>3
    <3>3. <<>> \o <<a[1], b[1]>> = <<a[1], b[1]>>
      <4>1. <<a[1], b[1]>> \in Seq(S)
        BY <3>2
      <4> QED BY <4>1, ConcatEmptySeq
    <3>4. seqs[1] = <<a[1], b[1]>>
      BY <3>2
    <3> HIDE DEF seqs
    <3> QED BY <2>1, <3>1, <3>3, <3>4
  <2>3. ASSUME NEW i \in 2 .. n PROVE h[i] = h[i - 1] \o seqs[i]
    <3>1. i \in 1 .. n /\ i - 1 \in 1 .. n
      OBVIOUS
    <3>2. Interleaved(i, a, b) = Interleaved(i - 1, a, b) \o <<a[i], b[i]>>
      <4> DEFINE k == i - 1
      <4>1. PairsBefore(n, S, a, b, k, i)
        BY <3>1 DEF PairsBefore
      <4> HIDE DEF k
      <4>2. Interleaved(i, a, b) = Interleaved(k, a, b) \o <<a[i], b[i]>>
        BY ONLY <4>1, InterleavedGrows
      <4> QED BY <4>2 DEF k
    <3> QED BY <3>1, <3>2
  <2>4. h[1] = seqs[1]
    BY <1>3, <2>2
  <2>5. h = [i \in 1 .. n |-> h[i]] /\ h[n] = Interleaved(n, a, b)
    BY <1>3
  <2> HIDE DEF h, seqs
  <2>6. h = [i \in 1 .. n |-> IF i = 1 THEN seqs[i] ELSE h[i - 1] \o seqs[i]]
    <3>1. ASSUME NEW i \in 1 .. n
          PROVE  h[i] = IF i = 1 THEN seqs[i] ELSE h[i - 1] \o seqs[i]
      <4>1. i = 1 \/ i \in 2 .. n
        OBVIOUS
      <4> QED BY <2>3, <2>4, <4>1
    <3> QED BY <2>5, <3>1
  <2>7. FlattenSeq(seqs) = h[n]
    <3>1. n \in Nat \ {0}
      BY <1>3
    <3> QED BY ONLY <1>1, <2>6, <3>1, FlattenIs
  <2> QED BY <2>5, <2>7 DEF seqs
<1> QED BY <1>2, <1>3

-----------------------------------------------------------------------------
(* The arguments that are appended.                                        *)

Argument == {Blank} \cup [dashes : BOOLEAN, text : STRING \cup Targets]

Words(command) == [i \in DOMAIN command |-> Word(command[i])]

LEMMA Arguments ==
  ASSUME NEW x \in STRING \cup Targets
  PROVE  Word(x) \in Argument /\ Flag(x) \in Argument
BY DEF Word, Flag, Argument

LEMMA WordsTyped ==
  ASSUME NEW command \in Seq(STRING)
  PROVE  /\ Words(command) \in Seq(Argument) /\ Len(Words(command)) = Len(command)
         /\ \A k \in 1 .. Len(command) : Words(command)[k] = Word(command[k])
<1>1. DOMAIN command = 1 .. Len(command) /\ Len(command) \in Nat
  OBVIOUS
<1>2. \A i \in 1 .. Len(command) : Word(command[i]) \in Argument
  <2> TAKE i \in 1 .. Len(command)
  <2>1. command[i] \in STRING \cup Targets
    OBVIOUS
  <2> QED BY ONLY <2>1, Arguments
<1> QED BY <1>1, <1>2 DEF Words

LEMMA ShortSequences ==
  ASSUME NEW S, NEW x \in S, NEW y \in S
  PROVE  /\ <<x>> \in Seq(S) /\ Len(<<x>>) = 1 /\ <<x>>[1] = x
         /\ <<x, y>> \in Seq(S) /\ Len(<<x, y>>) = 2
         /\ <<x, y>>[1] = x /\ <<x, y>>[2] = y
         /\ <<>> \o <<x>> = <<x>> /\ <<x>> \o <<y>> = <<x, y>>
<1>1. <<x>> \in Seq(S) /\ Len(<<x>>) = 1 /\ <<x>>[1] = x
  OBVIOUS
<1>2. <<y>> \in Seq(S) /\ Len(<<y>>) = 1 /\ <<y>>[1] = y
  OBVIOUS
<1>3. <<x, y>> \in Seq(S) /\ Len(<<x, y>>) = 2 /\ <<x, y>>[1] = x /\ <<x, y>>[2] = y
  OBVIOUS
<1>4. <<>> \o <<x>> = <<x>>
  BY <1>1, ConcatEmptySeq
<1>5. <<x>> \o <<y>> = <<x, y>>
  <2> DEFINE s == <<x>>
             t == <<y>>
             u == <<x, y>>
  <2>1. s \in Seq(S) /\ t \in Seq(S) /\ Len(s) = 1 /\ Len(t) = 1 /\ s[1] = x /\ t[1] = y
    BY <1>1, <1>2
  <2>2. u \in Seq(S) /\ Len(u) = 2 /\ u[1] = x /\ u[2] = y
    BY <1>3
  <2> HIDE DEF s, t, u
  <2>3. /\ s \o t \in Seq(S) /\ Len(s \o t) = 2
        /\ \A i \in 1 .. 2 : (s \o t)[i] = IF i <= 1 THEN s[i] ELSE t[i - 1]
    BY <2>1, ConcatProperties
  <2>4. (s \o t)[1] = x /\ (s \o t)[2] = y
    BY <2>1, <2>3
  <2>5. ASSUME NEW i \in 1 .. 2 PROVE (s \o t)[i] = u[i]
    <3>1. i = 1 \/ i = 2
      OBVIOUS
    <3> QED BY <2>2, <2>4, <3>1
  <2>6. s \o t = u
    BY <2>2, <2>3, <2>5, SeqEqual
  <2> QED BY <2>6 DEF s, t, u
<1> QED BY <1>1, <1>3, <1>4, <1>5

(* A set of numbers up to n that is not empty has a greatest element. *)
LEMMA MaxExists ==
  ASSUME NEW n \in Nat, NEW S, S \subseteq 0 .. n, S # {}
  PROVE  Max(S) \in S /\ \A k \in S : k <= Max(S)
<1> DEFINE T == {n - k : k \in S}
<1>1. T \subseteq Nat /\ T # {}
  <2>1. \A k \in S : n - k \in Nat
    OBVIOUS
  <2>2. PICK k \in S : TRUE
    OBVIOUS
  <2>3. n - k \in T
    OBVIOUS
  <2> QED BY <2>1, <2>3
<1>2. PICK t \in T : \A u \in T : t <= u
  <2> HIDE DEF T
  <2> QED BY <1>1, LeastNat
<1>3. PICK m \in S : t = n - m
  OBVIOUS
<1>4. ASSUME NEW k \in S PROVE k <= m
  <2>1. n - m <= n - k
    BY <1>2, <1>3
  <2>2. k \in Int /\ m \in Int
    OBVIOUS
  <2> QED BY <2>1, <2>2
<1>5. S \subseteq Int
  OBVIOUS
<1>6. Max(S) = m
  BY <1>4, <1>5, MaxIs
<1> QED BY <1>4, <1>6

LEMMA LookupTyped ==
  ASSUME NEW d, FencingDynamicConfig(d), NEW target
  PROVE  /\ Lookup(d, target).value \in STRING /\ Lookup(d, target).value = ValueFor(d, target)
         /\ Lookup(d, target).ok => target \in DOMAIN d.Values \/ d.Default # ""
<1> DEFINE v == IF target \in DOMAIN d.Values THEN d.Values[target] ELSE d.Default
<1>1. /\ d.Default \in STRING /\ \A t \in DOMAIN d.Values : d.Values[t] \in STRING
  BY DEF FencingDynamicConfig, MapOfStrings
<1>2. v \in STRING /\ v \in Range(d.Values) \cup {d.Default}
  BY <1>1 DEF Range
<1>3. Lookup(d, target).value = v
  BY DEF Lookup
<1>4. ValueFor(d, target) = v
  BY <1>2 DEF ValueFor
<1>5. Lookup(d, target).ok => target \in DOMAIN d.Values \/ d.Default # ""
  BY DEF Lookup
<1> HIDE DEF v
<1> QED BY <1>2, <1>3, <1>4, <1>5

-----------------------------------------------------------------------------
(* What is appended has a name and a value for each pair, and the target   *)
(* at its end; what is adjacent stays adjacent in a longer sequence.       *)

LEMMA KnownIs ==
  ASSUME NEW m, FencingMechanism(m), NEW target
  PROVE  /\ Len(m.DynamicConfig) \in Nat
         /\ Known(m, target) \in 0 .. Len(m.DynamicConfig)
         /\ \A i \in 1 .. Known(m, target) : Lookup(m.DynamicConfig[i], target).ok
<1> DEFINE S == {k \in 0 .. Len(m.DynamicConfig) :
                   \A i \in 1 .. k : Lookup(m.DynamicConfig[i], target).ok}
<1>1. Len(m.DynamicConfig) \in Nat
  BY DEF FencingMechanism
<1>2. S \subseteq 0 .. Len(m.DynamicConfig) /\ 0 \in S
  BY <1>1
<1>3. Max(S) \in S
  <2> HIDE DEF S
  <2> QED BY <1>1, <1>2, MaxExists
<1>4. Known(m, target) = Max(S)
  BY DEF Known
<1> QED BY <1>1, <1>3, <1>4

(* The parts of Appended: the fixed pairs, the dynamic attributes that have *)
(* a value, and the end.                                                   *)
Fixed(m, order) ==
  Interleaved(Len(order), [i \in 1 .. Len(order) |-> Flag(order[i])],
                          [i \in 1 .. Len(order) |-> Word(m.Config[order[i]])])

Dynamics(m, target, n) ==
  Interleaved(n, [i \in 1 .. n |-> Flag(m.DynamicConfig[i].Field)],
                 [i \in 1 .. n |-> Word(Lookup(m.DynamicConfig[i], target).value)])

Passed(m, target) ==
  (IF m.PassTargetAs = "" THEN <<>> ELSE <<Flag(m.PassTargetAs)>>) \o <<Word(target)>>

Ending(m, target, known) ==
  IF known < Len(m.DynamicConfig) THEN <<Flag(m.DynamicConfig[known + 1].Field)>>
  ELSE Passed(m, target)

LEMMA OrderIs ==
  ASSUME NEW m, FencingMechanism(m), NEW order \in SetToSeqs(DOMAIN m.Config)
  PROVE  /\ Len(order) = Cardinality(DOMAIN m.Config) /\ Len(order) \in Nat
         /\ DOMAIN order = 1 .. Len(order)
         /\ \A i \in 1 .. Len(order) : order[i] \in DOMAIN m.Config /\ order[i] \in STRING
         /\ \A k \in DOMAIN m.Config : \E i \in 1 .. Len(order) : order[i] = k
<1> DEFINE K == DOMAIN m.Config
           n == Cardinality(K)
<1>1. IsFiniteSet(K) /\ K \subseteq STRING
  BY DEF FencingMechanism, MapOfStrings
<1>2. n \in Nat
  BY <1>1, FS_CardinalityType
<1>3. order \in [1 .. n -> K] /\ \A i, j \in 1 .. n : i # j => order[i] # order[j]
  BY DEF SetToSeqs
<1> HIDE DEF K, n
<1>4. DOMAIN order = 1 .. n /\ Len(order) = n
  BY <1>2, <1>3
<1>5. order \in Injection(1 .. n, K)
  BY <1>3 DEF Injection, IsInjective
<1>6. Cardinality(1 .. n) = Cardinality(K)
  BY <1>2, FS_Interval DEF n
<1>7. order \in Surjection(1 .. n, K)
  BY <1>1, <1>5, <1>6, FS_Injection
<1>8. \A k \in K : \E i \in 1 .. n : order[i] = k
  BY <1>7 DEF Surjection
<1> QED BY <1>1, <1>2, <1>3, <1>4, <1>8 DEF K, n

LEMMA FixedTyped ==
  ASSUME NEW m, FencingMechanism(m), NEW order \in SetToSeqs(DOMAIN m.Config)
  PROVE  /\ Fixed(m, order) \in Seq(Argument)
         /\ Len(Fixed(m, order)) = 2 * Cardinality(DOMAIN m.Config)
<1> DEFINE n == Len(order)
           a == [i \in 1 .. n |-> Flag(order[i])]
           b == [i \in 1 .. n |-> Word(m.Config[order[i]])]
<1>1. /\ n = Cardinality(DOMAIN m.Config) /\ n \in Nat
      /\ \A i \in 1 .. n : order[i] \in DOMAIN m.Config /\ order[i] \in STRING
  BY OrderIs
<1>2. \A k \in DOMAIN m.Config : m.Config[k] \in STRING
  BY DEF FencingMechanism, MapOfStrings
<1>3. a \in [1 .. n -> Argument]
  <2>1. ASSUME NEW i \in 1 .. n PROVE Flag(order[i]) \in Argument
    BY <1>1, Arguments
  <2> QED BY <2>1
<1>4. b \in [1 .. n -> Argument]
  <2>1. ASSUME NEW i \in 1 .. n PROVE Word(m.Config[order[i]]) \in Argument
    BY <1>1, <1>2, Arguments
  <2> QED BY <2>1
<1>5. n \in 0 .. n /\ n \in Nat
  BY <1>1
<1>6. Fixed(m, order) = Interleaved(n, a, b)
  BY DEF Fixed
<1> HIDE DEF n, a, b
<1>7. Interleaved(n, a, b) \in Seq(Argument) /\ Len(Interleaved(n, a, b)) = 2 * n
  BY ONLY <1>3, <1>4, <1>5, InterleavedShape
<1> QED BY <1>1, <1>6, <1>7

LEMMA DynamicsTyped ==
  ASSUME NEW m, FencingMechanism(m), NEW target, NEW n \in 0 .. Len(m.DynamicConfig)
  PROVE  /\ Dynamics(m, target, n) \in Seq(Argument) /\ Len(Dynamics(m, target, n)) = 2 * n
         /\ FlattenSeq([i \in 1 .. n |->
              <<Flag(m.DynamicConfig[i].Field), Word(Lookup(m.DynamicConfig[i], target).value)>>])
              = Dynamics(m, target, n)
<1> DEFINE dcs == m.DynamicConfig
           a == [i \in 1 .. n |-> Flag(dcs[i].Field)]
           b == [i \in 1 .. n |-> Word(Lookup(dcs[i], target).value)]
<1>1. Len(dcs) \in Nat /\ n \in Nat /\ n \in 0 .. n
  BY KnownIs
<1>2. \A i \in 1 .. n : FencingDynamicConfig(dcs[i])
  BY <1>1 DEF FencingMechanism, Range
<1>3. a \in [1 .. n -> Argument]
  <2>1. ASSUME NEW i \in 1 .. n PROVE Flag(dcs[i].Field) \in Argument
    <3>1. dcs[i].Field \in STRING
      BY <1>2 DEF FencingDynamicConfig
    <3> QED BY <3>1, Arguments
  <2> QED BY <2>1
<1>4. b \in [1 .. n -> Argument]
  <2>1. ASSUME NEW i \in 1 .. n PROVE Word(Lookup(dcs[i], target).value) \in Argument
    BY <1>2, LookupTyped, Arguments
  <2> QED BY <2>1
<1>5. Dynamics(m, target, n) = Interleaved(n, a, b)
  BY DEF Dynamics
<1>6. [i \in 1 .. n |-> <<Flag(dcs[i].Field), Word(Lookup(dcs[i], target).value)>>]
        = [i \in 1 .. n |-> <<a[i], b[i]>>]
  OBVIOUS
<1> HIDE DEF a, b
<1>7. FlattenSeq([i \in 1 .. n |-> <<a[i], b[i]>>]) = Interleaved(n, a, b)
  BY <1>1, <1>3, <1>4, FlattenPairs
<1>8. Interleaved(n, a, b) \in Seq(Argument) /\ Len(Interleaved(n, a, b)) = 2 * n
  BY <1>1, <1>3, <1>4, InterleavedShape
<1> QED BY <1>5, <1>6, <1>7, <1>8

LEMMA AppendedIs ==
  ASSUME NEW m, FencingMechanism(m), NEW target,
         NEW order \in SetToSeqs(DOMAIN m.Config), m.ArgumentFormat = "cli"
  PROVE  Appended(m, target, order)
           = Fixed(m, order) \o Dynamics(m, target, Known(m, target))
               \o Ending(m, target, Known(m, target))
<1> DEFINE n == Len(order)
           a == [i \in 1 .. n |-> Flag(order[i])]
           b == [i \in 1 .. n |-> Word(m.Config[order[i]])]
           known == Known(m, target)
<1>1. n \in Nat /\ DOMAIN order = 1 .. n
  BY OrderIs
<1>2. [i \in DOMAIN order |-> <<Flag(order[i]), Word(m.Config[order[i]])>>]
        = [i \in 1 .. n |-> <<a[i], b[i]>>]
  BY <1>1
<1>3. FlattenSeq([i \in 1 .. n |-> <<a[i], b[i]>>]) = Fixed(m, order)
  <2>1. Fixed(m, order) = Interleaved(n, a, b)
    BY DEF Fixed
  <2>2. DEFINE S == {a[i] : i \in 1 .. n} \cup {b[i] : i \in 1 .. n}
  <2>3. a \in [1 .. n -> S] /\ b \in [1 .. n -> S]
    OBVIOUS
  <2> HIDE DEF a, b, S, n
  <2> QED BY <1>1, <2>1, <2>3, FlattenPairs
<1>4. FlattenSeq([i \in 1 .. known |->
        <<Flag(m.DynamicConfig[i].Field), Word(Lookup(m.DynamicConfig[i], target).value)>>])
        = Dynamics(m, target, known)
  BY KnownIs, DynamicsTyped
<1> QED BY <1>2, <1>3, <1>4 DEF Appended, Ending, Passed

LEMMA EndingTyped ==
  ASSUME NEW m, FencingMechanism(m), NEW target \in Targets
  PROVE  /\ Ending(m, target, Known(m, target)) \in Seq(Argument)
         /\ Passed(m, target) \in Seq(Argument)
         /\ Len(Passed(m, target)) = IF m.PassTargetAs = "" THEN 1 ELSE 2
         /\ Passed(m, target)[Len(Passed(m, target))] = Word(target)
<1>1. Word(target) \in Argument
  BY Arguments
<1>2. m.PassTargetAs \in STRING /\ Flag(m.PassTargetAs) \in Argument
  <2>1. m.PassTargetAs \in STRING
    BY DEF FencingMechanism
  <2> QED BY <2>1, Arguments
<1>3. Passed(m, target) = IF m.PassTargetAs = "" THEN <<Word(target)>>
                          ELSE <<Flag(m.PassTargetAs), Word(target)>>
  <2>1. <<>> \o <<Word(target)>> = <<Word(target)>>
    BY <1>1, ShortSequences
  <2>2. <<Flag(m.PassTargetAs)>> \o <<Word(target)>> = <<Flag(m.PassTargetAs), Word(target)>>
    BY <1>1, <1>2, ShortSequences
  <2>3. CASE m.PassTargetAs = ""
    BY <2>1, <2>3 DEF Passed
  <2>4. CASE m.PassTargetAs # ""
    BY <2>2, <2>4 DEF Passed
  <2> QED BY <2>3, <2>4
<1>4. /\ Passed(m, target) \in Seq(Argument)
      /\ Len(Passed(m, target)) = IF m.PassTargetAs = "" THEN 1 ELSE 2
      /\ Passed(m, target)[Len(Passed(m, target))] = Word(target)
  <2> DEFINE x == Word(target)
             y == Flag(m.PassTargetAs)
  <2>1. /\ <<x>> \in Seq(Argument) /\ Len(<<x>>) = 1 /\ <<x>>[1] = x
        /\ <<y, x>> \in Seq(Argument) /\ Len(<<y, x>>) = 2 /\ <<y, x>>[2] = x
    BY <1>1, <1>2, ShortSequences
  <2> HIDE DEF x, y
  <2>2. Passed(m, target) = IF m.PassTargetAs = "" THEN <<x>> ELSE <<y, x>>
    BY <1>3 DEF x, y
  <2>3. CASE m.PassTargetAs = ""
    BY <2>1, <2>2, <2>3 DEF x
  <2>4. CASE m.PassTargetAs # ""
    BY <2>1, <2>2, <2>4 DEF x
  <2> QED BY <2>3, <2>4
<1>5. ASSUME Known(m, target) < Len(m.DynamicConfig)
      PROVE  <<Flag(m.DynamicConfig[Known(m, target) + 1].Field)>> \in Seq(Argument)
  <2> DEFINE d == m.DynamicConfig[Known(m, target) + 1]
  <2>1. Known(m, target) + 1 \in 1 .. Len(m.DynamicConfig)
    BY <1>5, KnownIs
  <2>2. FencingDynamicConfig(d)
    BY <2>1 DEF FencingMechanism, Range
  <2>3. Flag(d.Field) \in Argument
    BY <2>2, Arguments DEF FencingDynamicConfig
  <2> QED BY <2>3
<1> QED BY <1>4, <1>5 DEF Ending

LEMMA AdjacentInPairs ==
  ASSUME NEW n, NEW a, NEW b, NEW i, n \in Nat, i \in 1 .. n,
         Len(Interleaved(n, a, b)) = 2 * n
  PROVE  Adjacent(Interleaved(n, a, b), a[i], b[i])
<1> DEFINE s == Interleaved(n, a, b)
           j == 2 * i - 1
           k == 2 * i
<1>1. j \in 1 .. Len(s) - 1 /\ j + 1 = k /\ PairAt(n, i, j, k)
  BY DEF PairAt
<1> HIDE DEF s, j, k
<1>2. s[j] = a[i] /\ s[k] = b[i]
  BY ONLY <1>1, InterleavedAt DEF s
<1>3. Adjacent(s, a[i], b[i])
  BY <1>1, <1>2 DEF Adjacent
<1> QED BY <1>3 DEF s

LEMMA AdjacentLeft ==
  ASSUME NEW S, NEW s \in Seq(S), NEW t \in Seq(S), NEW x, NEW y, Adjacent(s, x, y)
  PROVE  Adjacent(s \o t, x, y)
<1>1. PICK i \in 1 .. Len(s) - 1 : s[i] = x /\ s[i + 1] = y
  BY DEF Adjacent
<1>2. /\ Len(s \o t) = Len(s) + Len(t) /\ Len(s) \in Nat /\ Len(t) \in Nat
      /\ \A k \in 1 .. Len(s) + Len(t) : (s \o t)[k] = IF k <= Len(s) THEN s[k]
                                                       ELSE t[k - Len(s)]
  BY ConcatProperties
<1>3. /\ i \in 1 .. Len(s \o t) - 1 /\ i \in 1 .. Len(s) + Len(t) /\ i <= Len(s)
      /\ i + 1 \in 1 .. Len(s) + Len(t) /\ i + 1 <= Len(s)
  BY <1>2
<1>4. (s \o t)[i] = x /\ (s \o t)[i + 1] = y
  BY <1>1, <1>2, <1>3
<1> QED BY <1>3, <1>4 DEF Adjacent

LEMMA AdjacentRight ==
  ASSUME NEW S, NEW s \in Seq(S), NEW t \in Seq(S), NEW x, NEW y, Adjacent(t, x, y)
  PROVE  Adjacent(s \o t, x, y)
<1>1. PICK i \in 1 .. Len(t) - 1 : t[i] = x /\ t[i + 1] = y
  BY DEF Adjacent
<1>2. /\ Len(s \o t) = Len(s) + Len(t) /\ Len(s) \in Nat /\ Len(t) \in Nat
      /\ \A k \in 1 .. Len(s) + Len(t) : (s \o t)[k] = IF k <= Len(s) THEN s[k]
                                                       ELSE t[k - Len(s)]
  BY ConcatProperties
<1> DEFINE k == Len(s) + i
<1>3. /\ k \in 1 .. Len(s \o t) - 1 /\ k \in 1 .. Len(s) + Len(t) /\ ~ (k <= Len(s))
      /\ k + 1 \in 1 .. Len(s) + Len(t) /\ ~ (k + 1 <= Len(s))
      /\ k - Len(s) = i /\ (k + 1) - Len(s) = i + 1
  BY <1>2
<1> HIDE DEF k
<1>4. (s \o t)[k] = t[i]
  BY <1>2, <1>3
<1>5. (s \o t)[k + 1] = t[i + 1]
  BY <1>2, <1>3
<1> QED BY <1>1, <1>3, <1>4, <1>5 DEF Adjacent

(* A container that is not aborted runs the command that was written down, *)
(* with the arguments for its target.                                      *)
LEMMA CommandCarries ==
  ASSUME NEW m, FencingMechanism(m), NEW target \in Targets,
         NEW order \in SetToSeqs(DOMAIN m.Config),
         m.ArgumentFormat = "cli", ~Aborted(m, target)
  PROVE  CarriesArguments(Words(m.Container.Command) \o Appended(m, target, order), m, target)
<1> DEFINE command == m.Container.Command
           w == Words(command)
           c == Cardinality(DOMAIN m.Config)
           dcs == m.DynamicConfig
           d == Len(dcs)
           fixed == Fixed(m, order)
           dynamic == Dynamics(m, target, d)
           passed == Passed(m, target)
           p == IF m.PassTargetAs = "" THEN 1 ELSE 2
           s == w \o (fixed \o dynamic \o passed)
<1>1. Known(m, target) = d /\ d \in Nat
  BY KnownIs DEF Aborted
<1>2. Words(command) \o Appended(m, target, order) = s
  <2>1. Ending(m, target, Known(m, target)) = passed
    BY <1>1 DEF Ending
  <2>2. Dynamics(m, target, Known(m, target)) = dynamic
    BY <1>1
  <2> HIDE DEF fixed, dynamic, passed
  <2> QED BY <2>1, <2>2, AppendedIs DEF fixed
<1>3. /\ w \in Seq(Argument) /\ Len(w) = Len(command)
      /\ \A k \in 1 .. Len(command) : w[k] = Word(command[k])
      /\ DOMAIN command = 1 .. Len(command) /\ Len(command) \in Nat
  <2>1. command \in Seq(STRING)
    BY DEF FencingMechanism, Container
  <2> HIDE DEF command
  <2> QED BY <2>1, WordsTyped
<1>4. fixed \in Seq(Argument) /\ Len(fixed) = 2 * c /\ c \in Nat
  <2>1. fixed \in Seq(Argument) /\ Len(fixed) = 2 * c
    BY FixedTyped
  <2>2. c \in Nat
    BY OrderIs
  <2> QED BY <2>1, <2>2
<1>5. dynamic \in Seq(Argument) /\ Len(dynamic) = 2 * d
  <2>1. d \in 0 .. Len(m.DynamicConfig)
    BY <1>1
  <2> HIDE DEF d
  <2> QED BY ONLY FencingMechanism(m), <2>1, DynamicsTyped DEF dynamic
<1>6. passed \in Seq(Argument) /\ Len(passed) = p /\ passed[p] = Word(target)
  BY EndingTyped
<1>7. \A k \in DOMAIN m.Config : Adjacent(fixed, Flag(k), Word(m.Config[k]))
  <2> TAKE k \in DOMAIN m.Config
  <2> DEFINE n == Len(order)
             a == [i \in 1 .. n |-> Flag(order[i])]
             b == [i \in 1 .. n |-> Word(m.Config[order[i]])]
  <2>1. PICK i \in 1 .. n : order[i] = k
    BY OrderIs
  <2>2. a[i] = Flag(k) /\ b[i] = Word(m.Config[k])
    BY <2>1
  <2>3. fixed = Interleaved(n, a, b) /\ n \in Nat /\ n = c
    BY OrderIs DEF Fixed
  <2> HIDE DEF fixed, n, a, b
  <2> QED BY <1>4, <2>2, <2>3, AdjacentInPairs
<1>8. \A x \in Range(dcs) : Adjacent(dynamic, Flag(x.Field), Word(ValueFor(x, target)))
  <2> TAKE x \in Range(dcs)
  <2> DEFINE a == [i \in 1 .. d |-> Flag(dcs[i].Field)]
             b == [i \in 1 .. d |-> Word(Lookup(dcs[i], target).value)]
  <2>1. dcs \in Seq(Range(dcs)) /\ FencingDynamicConfig(x)
    BY DEF FencingMechanism
  <2>2. PICK i \in 1 .. d : dcs[i] = x
    BY <2>1 DEF Range
  <2>3. a[i] = Flag(x.Field) /\ b[i] = Word(ValueFor(x, target))
    BY <2>1, <2>2, LookupTyped
  <2>4. dynamic = Interleaved(d, a, b)
    BY DEF Dynamics
  <2> HIDE DEF dynamic, d, a, b
  <2> QED BY <1>1, <1>5, <2>3, <2>4, AdjacentInPairs
<1> HIDE DEF w, fixed, dynamic, passed, c, d, p
<1>9. /\ fixed \o dynamic \in Seq(Argument) /\ Len(fixed \o dynamic) = 2 * c + 2 * d
      /\ \A x, y : Adjacent(fixed, x, y) \/ Adjacent(dynamic, x, y)
                     => Adjacent(fixed \o dynamic, x, y)
  BY <1>4, <1>5, ConcatProperties, AdjacentLeft, AdjacentRight
<1> DEFINE t == fixed \o dynamic \o passed
<1>10. /\ t \in Seq(Argument) /\ Len(t) = 2 * c + 2 * d + p
       /\ t[Len(t)] = Word(target) /\ p \in {1, 2}
       /\ \A x, y : Adjacent(fixed \o dynamic, x, y) => Adjacent(t, x, y)
  <2> DEFINE u == fixed \o dynamic
  <2>1. u \in Seq(Argument) /\ Len(u) = 2 * c + 2 * d
    BY <1>9
  <2>2. p \in {1, 2}
    BY DEF p
  <2> HIDE DEF u
  <2>3. /\ u \o passed \in Seq(Argument) /\ Len(u \o passed) = Len(u) + p
        /\ \A i \in 1 .. Len(u) + p : (u \o passed)[i] = IF i <= Len(u) THEN u[i]
                                                         ELSE passed[i - Len(u)]
    BY <1>6, <2>1, ConcatProperties
  <2>4. /\ Len(u) + p \in 1 .. Len(u) + p /\ ~ (Len(u) + p <= Len(u))
        /\ (Len(u) + p) - Len(u) = p
    BY <1>1, <1>4, <2>1, <2>2
  <2>5. (u \o passed)[Len(u) + p] = Word(target)
    BY <1>6, <2>3, <2>4
  <2>6. \A x, y : Adjacent(u, x, y) => Adjacent(u \o passed, x, y)
    BY <1>6, <2>1, AdjacentLeft
  <2> QED BY <2>1, <2>2, <2>3, <2>5, <2>6 DEF u
<1> HIDE DEF t
<1>11. /\ s \in Seq(Argument) /\ Len(s) = Len(command) + Len(t)
       /\ \A i \in 1 .. Len(command) + Len(t) :
            s[i] = IF i <= Len(command) THEN w[i] ELSE t[i - Len(command)]
       /\ \A x, y : Adjacent(t, x, y) => Adjacent(s, x, y)
  <2>1. s = w \o t
    BY DEF t
  <2> HIDE DEF s, command
  <2>2. /\ s \in Seq(Argument) /\ Len(s) = Len(w) + Len(t)
        /\ \A i \in 1 .. Len(w) + Len(t) :
             s[i] = IF i <= Len(w) THEN w[i] ELSE t[i - Len(w)]
    <3>1. w \in Seq(Argument) /\ t \in Seq(Argument)
      BY <1>3, <1>10
    <3> QED BY ONLY <2>1, <3>1, ConcatProperties
  <2>3. \A x, y : Adjacent(t, x, y) => Adjacent(s, x, y)
    BY <1>3, <1>10, <2>1, AdjacentRight
  <2> QED BY <1>3, <2>2, <2>3
<1> HIDE DEF s
<1>12. Len(s) = Len(command) + (2 * (c + d) + p)
  <2>1. Len(command) \in Nat /\ p \in Nat
    BY <1>3, <1>10
  <2> HIDE DEF command
  <2> QED BY <1>1, <1>4, <1>10, <1>11, <2>1
<1>13. ASSUME NEW k \in DOMAIN command PROVE s[k] = Word(command[k])
  <2> HIDE DEF command
  <2>1. k \in 1 .. Len(command) /\ k \in 1 .. Len(command) + Len(t) /\ k <= Len(command)
    BY <1>1, <1>3, <1>4, <1>10
  <2> QED BY <1>3, <1>11, <2>1
<1>14. s[Len(s)] = Word(target)
  <2> DEFINE x == Len(command)
             y == Len(t)
             z == Len(s)
  <2>1. x \in Nat /\ y \in Nat /\ y > 0 /\ z = x + y
    BY <1>1, <1>3, <1>4, <1>10, <1>11
  <2> HIDE DEF x, y, z
  <2>2. z \in 1 .. x + y /\ ~ (z <= x) /\ z - x = y
    BY <2>1
  <2> QED BY <1>10, <1>11, <2>2 DEF x, y, z
<1>15. \A k \in DOMAIN m.Config : Adjacent(s, Flag(k), Word(m.Config[k]))
  BY <1>7, <1>9, <1>10, <1>11
<1>16. \A x \in Range(dcs) : Adjacent(s, Flag(x.Field), Word(ValueFor(x, target)))
  BY <1>8, <1>9, <1>10, <1>11
<1>17. CarriesArguments(s, m, target)
  BY <1>12, <1>13, <1>14, <1>15, <1>16 DEF CarriesArguments, c, d, p
<1> QED BY <1>2, <1>17

-----------------------------------------------------------------------------
(* The inductive invariant.  Until a configuration is loaded all builders   *)
(* rest; then each array begins with the command that was written down, and *)
(* a slice that is appended to ends after that command, so that what is     *)
(* written into the array comes after it, too.                              *)

Possible == UNION {Range(method.Mechanisms) : method \in Drafts}

MountsOf(m) == {v.name : v \in Volumes(m)}

Slice == [of : Nat \cup {None}, len : Nat, copy : Seq(Argument)]

Built == [command : Slice, env : {Environment(m, target) : m \in Possible, target \in Targets},
          mounts : {MountsOf(m) : m \in Possible}]

Building == [pc : {"idle", "mechanism", "append"}, target : Targets \cup {None},
             left : Seq(Argument), slice : Slice, containers : Seq(Built),
             volumes : SUBSET UNION {Volumes(m) : m \in Possible}]

Typed == draft \in Drafts /\ builder \in [Workers -> Building]

Count == Len(draft.Mechanisms)

CommandAt(i) == draft.Mechanisms[i].Container.Command

BeginsWith(s, command) ==
  Len(command) <= Len(s) /\ \A k \in 1 .. Len(command) : s[k] = Word(command[k])

Loaded ==
  parsed # None =>
    /\ parsed = FencingConfig(Written(draft))
    /\ array \in [1 .. Count -> Seq(Argument)]
    /\ \A i \in 1 .. Count : BeginsWith(array[i], CommandAt(i))

Current(b) == Len(b.containers) + 1

(* A slice that is mechanism i's, and holds its command. *)
SliceOf(slice, i) ==
  slice.of # None => slice.of = i /\ slice.len \in Len(CommandAt(i)) .. Len(array[i])

Working(b) ==
  b.pc # "idle" =>
    /\ parsed # None /\ b.target \in Targets
    /\ b.pc = "append" => Current(b) \in 1 .. Count /\ SliceOf(b.slice, Current(b))

IntactInv == Typed /\ Loaded /\ \A w \in Workers : Working(builder[w])

(* And, if the commands fill their arrays or there is one builder: a        *)
(* command that is being put together is what was written down and what is  *)
(* appended to it, and each container is that of its mechanism, in an array *)
(* of its own or in the mechanism's.  If the commands fill their arrays,    *)
(* nothing is ever written into one.                                        *)
OneBuilder == \A v, w \in Workers : v = w

Complete(s, m, target) ==
  \E order \in SetToSeqs(DOMAIN m.Config) :
    s = Words(m.Container.Command) \o Appended(m, target, order)

Pristine ==
  FillTheirArrays(Drafts) /\ parsed # None =>
    array = [i \in 1 .. Count |-> NewArray(CommandAt(i))]

UnderWay(b) ==
  LET m == draft.Mechanisms[Current(b)]
  IN /\ Complete(Contents(b.slice) \o b.left, m, b.target)
     /\ b.left # <<>> => m.ArgumentFormat = "cli"

Ready(b) ==
  /\ Len(b.containers) <= Count
  /\ \A i \in 1 .. Len(b.containers) :
       LET c == b.containers[i]
           m == draft.Mechanisms[i]
       IN /\ ~Aborted(m, b.target) /\ Complete(Contents(c.command), m, b.target)
          /\ c.command.of # None => c.command.of = i
          /\ c.env = Environment(m, b.target)
          /\ c.mounts = MountsOf(m) /\ Volumes(m) \subseteq b.volumes

Faithful(b) == b.pc # "idle" => Ready(b) /\ (b.pc = "append" => UnderWay(b))

JobInv ==
  IntactInv /\ Pristine /\ (\A w \in Workers : Faithful(builder[w])) /\ JobFencesItsTarget

LEMMA MaxWordsIs == MaxWords \in Nat /\ MaxWords \in Sizes
BY DEF MaxWords, Sizes

LEMMA DraftTyped ==
  ASSUME NEW method \in Drafts
  PROVE  /\ FencingMethod(method) /\ Len(method.Mechanisms) \in Nat
         /\ DOMAIN method.Mechanisms = 1 .. Len(method.Mechanisms)
         /\ \A i \in 1 .. Len(method.Mechanisms) :
              LET m == method.Mechanisms[i]
              IN /\ m \in Possible /\ FencingMechanism(m)
                 /\ m.Container.Command \in Seq(STRING)
                 /\ Len(m.Container.Command) \in 0 .. MaxWords
<1>1. FencingMethod(method) /\ method.Mechanisms \in Seq(Range(method.Mechanisms))
  BY DraftsAssumption DEF FencingMethod
<1>2. /\ Len(method.Mechanisms) \in Nat
      /\ DOMAIN method.Mechanisms = 1 .. Len(method.Mechanisms)
  BY <1>1
<1>3. ASSUME NEW i \in 1 .. Len(method.Mechanisms)
      PROVE  LET m == method.Mechanisms[i]
             IN /\ m \in Possible /\ FencingMechanism(m)
                /\ m.Container.Command \in Seq(STRING)
                /\ Len(m.Container.Command) \in 0 .. MaxWords
  <2> DEFINE m == method.Mechanisms[i]
  <2>1. m \in Range(method.Mechanisms)
    BY <1>2 DEF Range
  <2> HIDE DEF m
  <2>2. m \in Possible
    BY <2>1 DEF Possible
  <2>3. FencingMechanism(m) /\ Len(m.Container.Command) <= MaxWords
    BY <1>1, <2>1, DraftsAssumption DEF FencingMethod
  <2>4. m.Container.Command \in Seq(STRING)
    BY <2>3 DEF FencingMechanism, Container
  <2> DEFINE n == Len(m.Container.Command)
  <2>5. n \in Nat /\ n <= MaxWords
    BY <2>3, <2>4
  <2> HIDE DEF n
  <2>6. n \in 0 .. MaxWords
    BY <2>5, MaxWordsIs
  <2> QED BY <2>2, <2>3, <2>4, <2>6 DEF m, n
<1> QED BY <1>1, <1>2, <1>3

LEMMA MechanismsLoaded ==
  ASSUME NEW method \in Drafts
  PROVE  MechanismsOf(FencingConfig(Written(method))) = method.Mechanisms
<1> DEFINE config == FencingConfig(Written(method))
           s == method.Mechanisms
<1>1. config.Methods = <<method>>
  BY DraftTyped, ConfigParsed
<1>2. <<method>> = [i \in 1 .. 1 |-> method]
  BY OneItem
<1> HIDE DEF config
<1>3. DOMAIN config.Methods = 1 .. 1 /\ \A i \in 1 .. 1 : config.Methods[i] = method
  BY <1>1, <1>2
<1>4. [i \in DOMAIN config.Methods |-> config.Methods[i].Mechanisms] = [i \in 1 .. 1 |-> s]
  BY <1>3
<1> HIDE DEF s
<1>5. FlattenSeq([i \in 1 .. 1 |-> s]) = s
  BY FlattenOne
<1>6. MechanismsOf(config) = s
  BY <1>4, <1>5 DEF MechanismsOf
<1> QED BY <1>6 DEF config, s

(* An array has room for the command, and at most for as much again. *)
LEMMA CapacityIs ==
  ASSUME NEW n \in 0 .. MaxWords
  PROVE  Capacity(n) \in Nat /\ n <= Capacity(n)
<1> DEFINE S == {c \in Sizes : n <= c}
<1>1. S \subseteq Nat /\ S \subseteq Int
  BY DEF Sizes, MaxWords
<1>2. MaxWords \in S /\ S # {}
  BY MaxWordsIs
<1>3. PICK c \in S : \A d \in S : c <= d
  <2> HIDE DEF S
  <2> QED BY <1>1, <1>2, LeastNat
<1>4. Min(S) = c
  <2> HIDE DEF S
  <2>1. c \in S /\ \A d \in S : c <= d
    BY <1>3
  <2> QED BY ONLY <1>1, <2>1, MinIs
<1> QED BY <1>1, <1>3, <1>4 DEF Capacity

LEMMA NewArrayIs ==
  ASSUME NEW command \in Seq(STRING), Len(command) \in 0 .. MaxWords
  PROVE  /\ NewArray(command) \in Seq(Argument)
         /\ Len(NewArray(command)) = Capacity(Len(command))
         /\ BeginsWith(NewArray(command), command)
<1> DEFINE n == Len(command)
           c == Capacity(n)
           a == NewArray(command)
<1>1. c \in Nat /\ n \in Nat /\ n <= c
  <2>1. n \in 0 .. MaxWords /\ n \in Nat
    BY MaxWordsIs
  <2> HIDE DEF n
  <2> QED BY <2>1, CapacityIs
<1>2. \A i \in 1 .. n : Word(command[i]) \in Argument
  <2> TAKE i \in 1 .. n
  <2>1. command[i] \in STRING \cup Targets
    OBVIOUS
  <2> QED BY ONLY <2>1, Arguments
<1>3. Blank \in Argument
  BY DEF Argument
<1> HIDE DEF n, c
<1>4. a = [i \in 1 .. c |-> IF i <= n THEN Word(command[i]) ELSE Blank]
  BY DEF NewArray, c, n
<1>5. a \in [1 .. c -> Argument]
  BY <1>1, <1>2, <1>3, <1>4
<1>6. \A k \in 1 .. n : k \in 1 .. c /\ a[k] = Word(command[k])
  BY <1>1, <1>4
<1> HIDE DEF a
<1>7. a \in Seq(Argument) /\ Len(a) = c
  BY <1>1, <1>5
<1> QED BY <1>1, <1>6, <1>7 DEF a, c, n, BeginsWith

LEMMA AppendedTyped ==
  ASSUME NEW m, FencingMechanism(m), NEW target \in Targets,
         NEW order \in SetToSeqs(DOMAIN m.Config)
  PROVE  Appended(m, target, order) \in Seq(Argument)
<1>1. CASE m.ArgumentFormat = "cli"
  <2> DEFINE a == Fixed(m, order)
             b == Dynamics(m, target, Known(m, target))
             c == Ending(m, target, Known(m, target))
  <2>1. a \in Seq(Argument)
    BY FixedTyped
  <2>2. b \in Seq(Argument)
    BY KnownIs, DynamicsTyped
  <2>3. c \in Seq(Argument)
    BY EndingTyped
  <2>4. Appended(m, target, order) = a \o b \o c
    BY <1>1, AppendedIs
  <2> HIDE DEF a, b, c
  <2> QED BY <2>1, <2>2, <2>3, <2>4, ConcatProperties
<1>2. CASE m.ArgumentFormat # "cli"
  BY <1>2 DEF Appended
<1> QED BY <1>1, <1>2

-----------------------------------------------------------------------------
(* What is parsed is what was written down (HandleConfigMap), for every     *)
(* method: any number of mechanisms, of words, pairs and attributes.        *)
THEOREM ParsedBack == Spec => []ParsedAsWritten
<1> DEFINE I == /\ draft \in Drafts
                /\ parsed # None => parsed = FencingConfig(Written(draft))
<1>1. Init => I
  BY DEF Init
<1>2. I /\ [Next]_vars => I'
  BY DEF Next, vars, Load, Start, NextMechanism, Append1, EndMechanism, Send
<1>3. I => ParsedAsWritten
  BY DraftTyped, ConfigParsed, NameFound DEF ParsedAsWritten
<1> QED BY <1>1, <1>2, <1>3, PTL DEF Spec

-----------------------------------------------------------------------------
(* No worker changes a command.                                            *)

LEMMA SliceTyped ==
  /\ \A i, n : i \in Nat /\ n \in Nat =>
       Shared(i, n) \in Slice /\ Shared(i, n).of = i /\ Shared(i, n).len = n /\ i # None
  /\ \A s \in Seq(Argument) :
       Private(s) \in Slice /\ Private(s).of = None /\ Private(s).copy = s
<1>1. <<>> \in Seq(Argument)
  OBVIOUS
<1>2. ASSUME NEW i, NEW n, i \in Nat, n \in Nat
      PROVE  /\ Shared(i, n) \in Slice /\ Shared(i, n).of = i /\ Shared(i, n).len = n
             /\ i # None
  BY <1>1, <1>2, NoneAssumption DEF Shared, Slice
<1>3. ASSUME NEW s \in Seq(Argument)
      PROVE  Private(s) \in Slice /\ Private(s).of = None /\ Private(s).copy = s
  BY <1>3 DEF Private, Slice
<1> QED BY <1>2, <1>3

LEMMA RestingTyped == Resting \in Building /\ Resting.pc = "idle"
<1>1. <<>> \in Seq(Argument) /\ <<>> \in Seq(Built)
  OBVIOUS
<1>2. Private(<<>>) \in Slice
  BY <1>1, SliceTyped
<1> QED BY <1>1, <1>2 DEF Resting, Building

(* A step of one worker that leaves the arrays alone. *)
LEMMA OneWorks ==
  ASSUME IntactInv, UNCHANGED <<draft, parsed, array>>, NEW w \in Workers,
         \E b \in Building : builder' = [builder EXCEPT ![w] = b] /\ Working(b)
  PROVE  IntactInv'
<1>1. PICK b \in Building : builder' = [builder EXCEPT ![w] = b] /\ Working(b)
  OBVIOUS
<1>2. Typed'
  BY <1>1 DEF IntactInv, Typed
<1>3. Loaded'
  BY DEF IntactInv, Loaded, Count, CommandAt
<1>4. ASSUME NEW v \in Workers PROVE Working(builder[v])'
  <2>1. builder'[v] = IF v = w THEN b ELSE builder[v]
    BY <1>1 DEF IntactInv, Typed
  <2>2. Working(b)' /\ Working(builder[v])
    BY <1>1 DEF IntactInv, Working, SliceOf, Current, Count, CommandAt
  <2>3. CASE v = w
    BY <2>1, <2>2, <2>3 DEF Working, SliceOf, Current, Count, CommandAt
  <2>4. CASE v # w
    BY <2>1, <2>2, <2>4 DEF Working, SliceOf, Current, Count, CommandAt
  <2> QED BY <2>3, <2>4
<1> QED BY <1>2, <1>3, <1>4 DEF IntactInv

LEMMA InitIntact == ASSUME Init PROVE IntactInv
<1>1. builder \in [Workers -> Building] /\ \A w \in Workers : builder[w].pc = "idle"
  BY RestingTyped DEF Init
<1> QED BY <1>1 DEF Init, IntactInv, Typed, Loaded, Working

(* What Mechanisms is, once a configuration is loaded. *)
LEMMA MechanismsAre ==
  ASSUME IntactInv, parsed # None
  PROVE  Mechanisms = draft.Mechanisms
<1>1. parsed = FencingConfig(Written(draft)) /\ draft \in Drafts
  BY DEF IntactInv, Loaded, Typed
<1> QED BY <1>1, MechanismsLoaded DEF Mechanisms

LEMMA LoadArrays ==
  ASSUME Typed, Load
  PROVE  /\ parsed' = FencingConfig(Written(draft))
         /\ array' = [i \in 1 .. Count |-> NewArray(CommandAt(i))]
<1>1. parsed' = FencingConfig(Written(draft)) /\ draft \in Drafts
  BY DEF Load, Typed
<1>2. MechanismsOf(parsed') = draft.Mechanisms
  BY <1>1, MechanismsLoaded
<1>3. DOMAIN draft.Mechanisms = 1 .. Count
  BY <1>1, DraftTyped DEF Count
<1>4. array' = [i \in DOMAIN MechanismsOf(parsed') |->
                  NewArray(MechanismsOf(parsed')[i].Container.Command)]
  BY DEF Load
<1> QED BY <1>1, <1>2, <1>3, <1>4 DEF CommandAt

LEMMA LoadIntact == ASSUME IntactInv, Load PROVE IntactInv'
<1>1. /\ parsed' = FencingConfig(Written(draft))
      /\ array' = [i \in 1 .. Count |-> NewArray(CommandAt(i))]
      /\ draft' = draft /\ builder' = builder /\ parsed = None
  BY LoadArrays DEF Load, IntactInv
<1>2. \A i \in 1 .. Count :
        NewArray(CommandAt(i)) \in Seq(Argument) /\ BeginsWith(NewArray(CommandAt(i)), CommandAt(i))
  BY DraftTyped, NewArrayIs DEF IntactInv, Typed, Count, CommandAt
<1>3. Typed'
  BY <1>1 DEF IntactInv, Typed
<1>4. Loaded'
  BY <1>1, <1>2 DEF Loaded, Count, CommandAt
<1>5. \A w \in Workers : Working(builder[w])'
  BY <1>1 DEF IntactInv, Working
<1> QED BY <1>3, <1>4, <1>5 DEF IntactInv

LEMMA StartIntact ==
  ASSUME IntactInv, NEW w \in Workers, NEW target \in Targets, Start(w, target)
  PROVE  IntactInv'
<1> DEFINE b == [Resting EXCEPT !.pc = "mechanism", !.target = target]
<1>1. b \in Building /\ b.pc = "mechanism" /\ b.target = target
  BY RestingTyped DEF Building
<1>2. /\ builder' = [builder EXCEPT ![w] = b] /\ parsed # None
      /\ UNCHANGED <<draft, parsed, array>>
  BY DEF Start
<1> HIDE DEF b
<1>3. Working(b)
  BY <1>1, <1>2 DEF Working
<1> QED BY <1>1, <1>2, <1>3, OneWorks

LEMMA NextMechanismIntact ==
  ASSUME IntactInv, NEW w \in Workers, NextMechanism(w)
  PROVE  IntactInv'
<1> DEFINE o == builder[w]
           i == Current(o)
           m == Mechanisms[i]
           n == Len(m.Container.Command)
<1>1. /\ o \in Building /\ Working(o) /\ o.pc = "mechanism"
      /\ UNCHANGED <<draft, parsed, array>> /\ i <= Len(Mechanisms)
  BY DEF IntactInv, Typed, NextMechanism, Current
<1>2. PICK order \in SetToSeqs(DOMAIN m.Config) :
        builder' = [builder EXCEPT ![w].pc = "append", ![w].slice = CommandOf(i),
                                   ![w].left = Appended(m, builder[w].target, order)]
  BY DEF NextMechanism, Current
<1>3. /\ parsed # None /\ o.target \in Targets /\ Mechanisms = draft.Mechanisms
      /\ draft \in Drafts
  BY <1>1, MechanismsAre DEF Working, IntactInv, Typed
<1>4. i \in 1 .. Count /\ i \in Nat
  BY <1>1, <1>3, DraftTyped DEF Building, Current, Count
<1>5. FencingMechanism(m) /\ n \in Nat /\ m = draft.Mechanisms[i]
  <2>1. m = draft.Mechanisms[i]
    BY <1>3
  <2>2. FencingMechanism(m) /\ m.Container.Command \in Seq(STRING)
    <3> HIDE DEF i, m
    <3> QED BY <1>3, <1>4, <2>1, DraftTyped DEF Count
  <2> HIDE DEF m
  <2> QED BY <2>1, <2>2
<1> DEFINE left == Appended(m, o.target, order)
           slice == CommandOf(i)
           b == [o EXCEPT !.pc = "append", !.slice = slice, !.left = left]
<1>6. left \in Seq(Argument)
  BY <1>3, <1>5, AppendedTyped
<1>7. slice \in Slice /\ slice.of = i /\ slice.len = n
  BY <1>4, <1>5, SliceTyped DEF CommandOf
<1>8. builder' = [builder EXCEPT ![w] = b]
  BY <1>2
<1>9. n \in n .. Len(array[i])
  <2>1. array[i] \in Seq(Argument) /\ n <= Len(array[i])
    BY <1>3, <1>4, <1>5 DEF IntactInv, Loaded, BeginsWith, CommandAt
  <2> HIDE DEF n
  <2> QED BY <1>5, <2>1
<1> HIDE DEF left, slice
<1>10. b \in Building /\ b.pc = "append" /\ b.target = o.target /\ b.slice = slice
       /\ Current(b) = i
  BY <1>1, <1>6, <1>7 DEF Building, Current
<1> HIDE DEF b
<1>11. SliceOf(b.slice, i)
  BY <1>5, <1>7, <1>9, <1>10 DEF SliceOf, CommandAt
<1>12. Working(b)
  BY <1>3, <1>4, <1>10, <1>11 DEF Working
<1> QED BY <1>1, <1>8, <1>10, <1>12, OneWorks

(* A sequence that begins with a command, cut off after it. *)
LEMMA Beginning ==
  ASSUME NEW s \in Seq(Argument), NEW command \in Seq(STRING), BeginsWith(s, command)
  PROVE  SubSeq(s, 1, Len(command)) = Words(command)
<1> DEFINE n == Len(command)
           w == Words(command)
           t == SubSeq(s, 1, n)
<1>1. /\ w \in Seq(Argument) /\ Len(w) = n /\ n \in Nat
      /\ \A k \in 1 .. n : w[k] = Word(command[k])
  BY WordsTyped
<1>2. n <= Len(s) /\ Len(s) \in Nat /\ \A k \in 1 .. n : s[k] = Word(command[k])
  BY DEF BeginsWith
<1> HIDE DEF n, w
<1>3. t \in Seq(Argument) /\ Len(t) = n /\ \A k \in 1 .. n : t[k] = s[k]
  BY <1>1, <1>2
<1> HIDE DEF t
<1>4. t = w
  BY <1>1, <1>2, <1>3, SeqEqual
<1> QED BY <1>4 DEF t, n, w

LEMMA SliceContents ==
  ASSUME IntactInv, parsed # None, NEW slice \in Slice, NEW i \in 1 .. Count,
         SliceOf(slice, i)
  PROVE  /\ Contents(slice) \in Seq(Argument)
         /\ slice.of # None =>
              /\ array[i] \in Seq(Argument) /\ Len(array[i]) \in Nat
              /\ Contents(slice) = SubSeq(array[i], 1, slice.len)
              /\ slice.of = i /\ slice.len \in Nat /\ slice.len <= Len(array[i])
              /\ Len(CommandAt(i)) \in Nat /\ Len(CommandAt(i)) <= slice.len
<1>1. CASE slice.of = None
  BY <1>1 DEF Contents, Slice
<1>2. CASE slice.of # None
  <2> DEFINE a == array[i]
             n == slice.len
             c == Len(CommandAt(i))
  <2>1. slice.of = i /\ n \in c .. Len(a) /\ n \in Nat /\ Contents(slice) = SubSeq(a, 1, n)
    BY <1>2 DEF SliceOf, Slice, Contents
  <2>2. a \in Seq(Argument) /\ Len(a) \in Nat
    BY DEF IntactInv, Loaded
  <2>3. c \in Nat
    <3>1. CommandAt(i) \in Seq(STRING)
      BY DraftTyped DEF IntactInv, Typed, Count, CommandAt
    <3> QED BY <3>1
  <2> HIDE DEF a, n, c
  <2>4. n <= Len(a) /\ c <= n
    BY <2>1, <2>2, <2>3
  <2>5. SubSeq(a, 1, n) \in Seq(Argument)
    <3>1. \A k \in 1 .. n : a[k] \in Argument
      BY <2>1, <2>2, <2>4
    <3>2. 1 \in Int /\ n \in Int
      BY <2>1
    <3> QED BY ONLY <3>1, <3>2, SubSeqProperties
  <2> QED BY <2>1, <2>2, <2>3, <2>4, <2>5 DEF a, n, c
<1> QED BY <1>1, <1>2

(* What is written into an array comes after the command. *)
LEMMA Append1Intact ==
  ASSUME IntactInv, NEW w \in Workers, Append1(w)
  PROVE  IntactInv'
<1> DEFINE o == builder[w]
           k == o.slice
           i == Current(o)
           arg == Head(o.left)
           room == k.of # None /\ k.len < Len(array[k.of])
           slice == IF room THEN Shared(k.of, k.len + 1) ELSE Private(Append(Contents(k), arg))
           left == Tail(o.left)
           b == [o EXCEPT !.left = left, !.slice = slice]
<1>1. /\ o \in Building /\ Working(o) /\ o.pc = "append" /\ o.left # <<>>
      /\ UNCHANGED <<draft, parsed>>
      /\ array' = IF room THEN [array EXCEPT ![k.of][k.len + 1] = arg] ELSE array
      /\ builder' = [builder EXCEPT ![w] = b]
  BY DEF IntactInv, Typed, Append1
<1>2. /\ parsed # None /\ o.target \in Targets /\ i \in 1 .. Count /\ SliceOf(k, i)
      /\ k \in Slice /\ arg \in Argument /\ left \in Seq(Argument)
  BY <1>1 DEF Working, Building
<1>3. Contents(k) \in Seq(Argument) /\ Append(Contents(k), arg) \in Seq(Argument)
  BY <1>2, SliceContents
<1>4. CASE room
  <2>1. /\ array[i] \in Seq(Argument) /\ Len(array[i]) \in Nat /\ k.of = i
        /\ k.len \in Nat /\ Len(CommandAt(i)) \in Nat /\ Len(CommandAt(i)) <= k.len
    BY <1>2, <1>4, SliceContents
  <2> DEFINE n == k.len + 1
             a == [array[i] EXCEPT ![n] = arg]
  <2>2. n \in 1 .. Len(array[i]) /\ n \in Nat /\ Len(CommandAt(i)) < n
    BY <1>4, <2>1
  <2>3. array' = [array EXCEPT ![i] = a]
    BY <1>1, <1>4, <2>1
  <2>4. slice \in Slice /\ slice.of = i /\ slice.len = n
    BY <1>2, <1>4, <2>1, <2>2, SliceTyped
  <2> HIDE DEF n, slice, left, arg
  <2>5. a \in Seq(Argument) /\ Len(a) = Len(array[i])
        /\ \A j \in 1 .. Len(array[i]) : a[j] = IF j = n THEN arg ELSE array[i][j]
    BY <1>2, <2>1, <2>2, ExceptSeq
  <2> HIDE DEF a
  <2>6. b \in Building /\ b.pc = "append" /\ b.target = o.target /\ b.slice = slice
        /\ Current(b) = i
    BY <1>1, <1>2, <2>4 DEF Building, Current
  <2> HIDE DEF b
  <2>7. Typed'
    BY <1>1, <2>6 DEF IntactInv, Typed
  <2>8. array \in [1 .. Count -> Seq(Argument)] /\ parsed = FencingConfig(Written(draft))
        /\ \A j \in 1 .. Count : BeginsWith(array[j], CommandAt(j))
    BY <1>2 DEF IntactInv, Loaded
  <2>9. BeginsWith(a, CommandAt(i))
    <3>1. BeginsWith(array[i], CommandAt(i))
      BY <1>2, <2>8
    <3>2. \A j \in 1 .. Len(CommandAt(i)) : j \in 1 .. Len(array[i]) /\ j # n
      BY <2>1, <2>2
    <3> QED BY <2>5, <3>1, <3>2 DEF BeginsWith
  <2>10. /\ array' \in [1 .. Count -> Seq(Argument)]
         /\ \A j \in 1 .. Count : BeginsWith(array'[j], CommandAt(j))
         /\ \A j \in 1 .. Count : Len(array'[j]) = Len(array[j])
    BY <1>2, <2>3, <2>5, <2>8, <2>9
  <2>11. Loaded'
    BY <1>1, <2>8, <2>10 DEF Loaded, Count, CommandAt
  <2>12. ASSUME NEW v \in Workers PROVE Working(builder[v])'
    <3>1. builder'[v] = IF v = w THEN b ELSE builder[v]
      BY <1>1 DEF IntactInv, Typed
    <3>2. CASE v = w
      <4>1. n \in Len(CommandAt(i)) .. Len(array[i])
        BY <2>1, <2>2
      <4> QED BY <1>1, <1>2, <2>4, <2>6, <2>10, <3>1, <3>2, <4>1
              DEF Working, SliceOf, Count, CommandAt, Current
    <3>3. CASE v # w
      <4>1. Working(builder[v])
        BY DEF IntactInv
      <4> QED BY <1>1, <2>10, <3>1, <3>3, <4>1 DEF Working, SliceOf, Count, CommandAt, Current
    <3> QED BY <3>2, <3>3
  <2> QED BY <2>7, <2>11, <2>12 DEF IntactInv
<1>5. CASE ~room
  <2>1. slice \in Slice /\ slice.of = None
    BY <1>3, <1>5, SliceTyped
  <2>2. array' = array
    BY <1>1, <1>5
  <2> HIDE DEF slice, left
  <2>3. b \in Building /\ b.pc = "append" /\ b.target = o.target /\ b.slice = slice
        /\ Current(b) = i
    BY <1>1, <1>2, <2>1 DEF Building, Current
  <2> HIDE DEF b
  <2>4. Working(b)
    BY <1>2, <2>1, <2>3 DEF Working, SliceOf
  <2>5. UNCHANGED <<draft, parsed, array>>
    BY <1>1, <2>2
  <2> QED BY <1>1, <2>3, <2>4, <2>5, OneWorks
<1> QED BY <1>4, <1>5

LEMMA EndMechanismIntact ==
  ASSUME IntactInv, NEW w \in Workers, EndMechanism(w)
  PROVE  IntactInv'
<1> DEFINE o == builder[w]
           i == Current(o)
           m == Mechanisms[i]
           c == [command |-> o.slice, env |-> Environment(m, o.target), mounts |-> MountsOf(m)]
           slice == Private(<<>>)
           containers == Append(o.containers, c)
           volumes == o.volumes \cup Volumes(m)
           b == [o EXCEPT !.pc = "mechanism", !.slice = slice, !.containers = containers,
                          !.volumes = volumes]
<1>1. /\ o \in Building /\ Working(o) /\ o.pc = "append"
      /\ UNCHANGED <<draft, parsed, array>>
      /\ builder' = [builder EXCEPT ![w] = Resting] \/ builder' = [builder EXCEPT ![w] = b]
  BY DEF IntactInv, Typed, EndMechanism, Current, MountsOf
<1>2. /\ parsed # None /\ o.target \in Targets /\ i \in 1 .. Count
      /\ Mechanisms = draft.Mechanisms /\ draft \in Drafts
  BY <1>1, MechanismsAre DEF Working, IntactInv, Typed
<1>3. m \in Possible
  <2>1. m = draft.Mechanisms[i]
    BY <1>2
  <2> HIDE DEF i, m
  <2> QED BY <1>2, <2>1, DraftTyped DEF Count
<1>4. /\ o.slice \in Slice /\ o.containers \in Seq(Built)
      /\ o.volumes \in SUBSET UNION {Volumes(x) : x \in Possible}
  BY <1>1 DEF Building
<1>5. c \in Built
  BY <1>2, <1>3, <1>4 DEF Built
<1> HIDE DEF c, m
<1>6. containers \in Seq(Built)
  BY <1>4, <1>5
<1>7. volumes \in SUBSET UNION {Volumes(x) : x \in Possible}
  BY <1>3, <1>4
<1>8. slice \in Slice
  BY RestingTyped DEF Resting, Building
<1> HIDE DEF slice, containers, volumes
<1>9. b \in Building /\ b.pc = "mechanism" /\ b.target = o.target
  BY <1>1, <1>6, <1>7, <1>8 DEF Building
<1> HIDE DEF b
<1>10. Working(b) /\ Working(Resting)
  BY <1>2, <1>9, RestingTyped DEF Working
<1> QED BY <1>1, <1>9, <1>10, RestingTyped, OneWorks

LEMMA SendIntact ==
  ASSUME IntactInv, NEW w \in Workers, Send(w)
  PROVE  IntactInv'
<1>1. builder' = [builder EXCEPT ![w] = Resting] /\ UNCHANGED <<draft, parsed, array>>
  BY DEF Send
<1>2. Working(Resting)
  BY RestingTyped DEF Working
<1> QED BY <1>1, <1>2, RestingTyped, OneWorks

LEMMA NextIntact == ASSUME IntactInv, [Next]_vars PROVE IntactInv'
<1>1. CASE UNCHANGED vars
  BY <1>1 DEF vars, IntactInv, Typed, Loaded, Working, SliceOf, Current, Count, CommandAt
<1>2. CASE Next
  BY <1>2, LoadIntact, StartIntact, NextMechanismIntact, Append1Intact, EndMechanismIntact,
     SendIntact DEF Next
<1> QED BY <1>1, <1>2

(* However the workers take turns: each array still begins with the         *)
(* command that was written down (getContainerCommand).                     *)
THEOREM CommandsStay == Spec => []ConfigurationIsIntact
<1>1. Init => IntactInv
  BY InitIntact
<1>2. IntactInv /\ [Next]_vars => IntactInv'
  BY NextIntact
<1>3. IntactInv => ConfigurationIsIntact
  <2> SUFFICES ASSUME IntactInv, parsed # None, NEW i \in DOMAIN array
               PROVE  SubSeq(array[i], 1, Len(CommandAt(i)))
                        = [k \in DOMAIN CommandAt(i) |-> Word(CommandAt(i)[k])]
    BY DEF ConfigurationIsIntact, CommandAt
  <2>1. i \in 1 .. Count /\ array[i] \in Seq(Argument) /\ BeginsWith(array[i], CommandAt(i))
    BY DEF IntactInv, Loaded
  <2>2. CommandAt(i) \in Seq(STRING)
    BY <2>1, DraftTyped DEF IntactInv, Typed, Count, CommandAt
  <2> QED BY <2>1, <2>2, Beginning DEF Words
<1> QED BY <1>1, <1>2, <1>3, PTL DEF Spec

-----------------------------------------------------------------------------
(* Each Job fences its target.                                             *)

(* A container that is complete, for a target that is not aborted. *)
LEMMA ContainerFences ==
  ASSUME NEW m, FencingMechanism(m), NEW target \in Targets, NEW s,
         ~Aborted(m, target), Complete(s, m, target)
  PROVE  /\ \A d \in Range(m.DynamicConfig) : target \in DOMAIN d.Values \/ d.Default # ""
         /\ IF m.ArgumentFormat = "cli" THEN CarriesArguments(s, m, target)
            ELSE s = Words(m.Container.Command)
                 /\ CarriesVariables(Environment(m, target), m, target)
<1>1. PICK order \in SetToSeqs(DOMAIN m.Config) :
        s = Words(m.Container.Command) \o Appended(m, target, order)
  BY DEF Complete
<1>2. ASSUME NEW d \in Range(m.DynamicConfig)
      PROVE  /\ FencingDynamicConfig(d) /\ Lookup(d, target).value = ValueFor(d, target)
             /\ target \in DOMAIN d.Values \/ d.Default # ""
  <2>1. FencingDynamicConfig(d) /\ m.DynamicConfig \in Seq(Range(m.DynamicConfig))
    BY DEF FencingMechanism
  <2>2. PICK i \in 1 .. Len(m.DynamicConfig) : m.DynamicConfig[i] = d
    BY <2>1 DEF Range
  <2>3. Known(m, target) = Len(m.DynamicConfig)
    BY KnownIs DEF Aborted
  <2>4. Lookup(d, target).ok
    BY <2>2, <2>3, KnownIs
  <2> QED BY <2>1, <2>4, LookupTyped
<1>3. CASE m.ArgumentFormat = "cli"
  BY <1>1, <1>2, <1>3, CommandCarries
<1>4. CASE m.ArgumentFormat # "cli"
  <2>1. s = Words(m.Container.Command)
    <3>1. Appended(m, target, order) = <<>>
      BY <1>4 DEF Appended
    <3>2. Words(m.Container.Command) \in Seq(Argument)
      BY WordsTyped DEF FencingMechanism, Container
    <3> DEFINE w == Words(m.Container.Command)
    <3> HIDE DEF w
    <3>3. w \o <<>> = w
      BY <3>2, ConcatEmptySeq DEF w
    <3> QED BY <1>1, <3>1, <3>3 DEF w
  <2>2. m.ArgumentFormat = "env"
    BY <1>4 DEF Aborted
  <2>3. \A k \in DOMAIN m.Config : Variable(k, m.Config[k]) \in Environment(m, target)
    BY <2>2 DEF Environment
  <2>4. \A d \in Range(m.DynamicConfig) :
          Variable(d.Field, ValueFor(d, target)) \in Environment(m, target)
    <3> TAKE d \in Range(m.DynamicConfig)
    <3>1. Variable(d.Field, Lookup(d, target).value) \in Environment(m, target)
      BY <2>2 DEF Environment
    <3> QED BY <1>2, <3>1
  <2>5. m.PassTargetAs # "" => Variable(m.PassTargetAs, target) \in Environment(m, target)
    BY <2>2 DEF Environment
  <2> QED BY <1>2, <1>4, <2>1, <2>3, <2>4, <2>5 DEF CarriesVariables
<1> QED BY <1>3, <1>4

(* What JobFencesItsTarget says of one Job of a method. *)
Fences(j, method) ==
  /\ Len(j.containers) = Len(method.Mechanisms)
  /\ \A i \in DOMAIN j.containers :
       LET c == j.containers[i]
           m == method.Mechanisms[i]
       IN /\ \A d \in Range(m.DynamicConfig) :
               j.target \in DOMAIN d.Values \/ d.Default # ""
          /\ IF m.ArgumentFormat = "cli"
             THEN CarriesArguments(c.command, m, j.target)
             ELSE /\ c.command = [k \in DOMAIN m.Container.Command |->
                                    Word(m.Container.Command[k])]
                  /\ CarriesVariables(c.env, m, j.target)
          /\ \A k \in c.mounts : \E v \in j.volumes : v.name = k

LEMMA AllFence ==
  /\ JobFencesItsTarget <=> \A j \in sent : Fences(j, draft)
  /\ JobFencesItsTarget' <=> \A j \in sent' : Fences(j, draft')
BY DEF JobFencesItsTarget, Fences

LEMMA SentStay ==
  ASSUME JobFencesItsTarget, UNCHANGED <<draft, sent>>
  PROVE  JobFencesItsTarget'
BY AllFence

(* A step of one worker that leaves arrays and Jobs alone. *)
LEMMA OneFaithful ==
  ASSUME JobInv, UNCHANGED <<draft, parsed, array, sent>>, NEW w \in Workers,
         \E b \in Building : builder' = [builder EXCEPT ![w] = b] /\ Working(b) /\ Faithful(b)
  PROVE  JobInv'
<1>1. PICK b \in Building :
        builder' = [builder EXCEPT ![w] = b] /\ Working(b) /\ Faithful(b)
  OBVIOUS
<1>2. IntactInv'
  BY <1>1, OneWorks DEF JobInv
<1>3. Pristine' /\ JobFencesItsTarget'
  BY SentStay DEF JobInv, Pristine, Count, CommandAt
<1>4. ASSUME NEW v \in Workers PROVE Faithful(builder[v])'
  <2>1. builder'[v] = IF v = w THEN b ELSE builder[v]
    BY <1>1 DEF JobInv, IntactInv, Typed
  <2>2. Faithful(builder[v])
    BY DEF JobInv
  <2>3. Faithful(b)'
    BY <1>1 DEF Faithful, Ready, UnderWay, Contents, Current, Count
  <2>4. CASE v = w
    BY <2>1, <2>3, <2>4 DEF Faithful, Ready, UnderWay, Contents, Current, Count
  <2>5. CASE v # w
    BY <2>1, <2>2, <2>5 DEF Faithful, Ready, UnderWay, Contents, Current, Count
  <2> QED BY <2>4, <2>5
<1> QED BY <1>2, <1>3, <1>4 DEF JobInv

LEMMA InitJobs == ASSUME Init PROVE JobInv
<1>1. \A w \in Workers : builder[w].pc = "idle"
  BY RestingTyped DEF Init
<1>2. Pristine /\ JobFencesItsTarget
  BY DEF Init, Pristine, JobFencesItsTarget
<1> QED BY <1>1, <1>2, InitIntact DEF JobInv, Faithful

LEMMA LoadJobs == ASSUME JobInv, Load PROVE JobInv'
<1>1. /\ array' = [i \in 1 .. Count |-> NewArray(CommandAt(i))]
      /\ UNCHANGED <<draft, builder, sent>> /\ parsed = None
  BY LoadArrays DEF Load, JobInv, IntactInv
<1>2. IntactInv'
  BY LoadIntact DEF JobInv
<1>3. \A w \in Workers : builder[w].pc = "idle"
  BY <1>1 DEF JobInv, IntactInv, Working
<1>4. \A w \in Workers : Faithful(builder[w])'
  BY <1>1, <1>3 DEF Faithful
<1>5. Pristine' /\ JobFencesItsTarget'
  BY <1>1, SentStay DEF JobInv, Pristine, Count, CommandAt
<1> QED BY <1>2, <1>4, <1>5 DEF JobInv

LEMMA StartJobs ==
  ASSUME JobInv, NEW w \in Workers, NEW target \in Targets, Start(w, target)
  PROVE  JobInv'
<1> DEFINE b == [Resting EXCEPT !.pc = "mechanism", !.target = target]
<1>1. b \in Building /\ b.pc = "mechanism" /\ b.target = target /\ b.containers = <<>>
  BY RestingTyped DEF Building, Resting
<1>2. /\ builder' = [builder EXCEPT ![w] = b] /\ parsed # None
      /\ UNCHANGED <<draft, parsed, array, sent>>
  BY DEF Start
<1> HIDE DEF b
<1>3. Working(b)
  BY <1>1, <1>2 DEF Working
<1>4. Faithful(b)
  <2>1. Count \in Nat
    BY DraftTyped DEF JobInv, IntactInv, Typed, Count
  <2>2. Len(b.containers) = 0
    BY <1>1
  <2> QED BY <1>1, <2>1, <2>2 DEF Faithful, Ready
<1> QED BY <1>1, <1>2, <1>3, <1>4, OneFaithful

(* What is known of the mechanism that a worker is at. *)
LEMMA CurrentIs ==
  ASSUME IntactInv, parsed # None, NEW i \in 1 .. Count
  PROVE  /\ Mechanisms = draft.Mechanisms /\ draft \in Drafts
         /\ FencingMechanism(draft.Mechanisms[i]) /\ draft.Mechanisms[i] \in Possible
         /\ draft.Mechanisms[i] \in Range(draft.Mechanisms)
         /\ CommandAt(i) \in Seq(STRING) /\ Len(CommandAt(i)) \in Nat
         /\ array[i] \in Seq(Argument) /\ Len(array[i]) \in Nat
         /\ BeginsWith(array[i], CommandAt(i))
<1>1. Mechanisms = draft.Mechanisms /\ draft \in Drafts
  BY MechanismsAre DEF IntactInv, Typed
<1>2. /\ FencingMechanism(draft.Mechanisms[i]) /\ draft.Mechanisms[i] \in Possible
      /\ draft.Mechanisms[i] \in Range(draft.Mechanisms) /\ CommandAt(i) \in Seq(STRING)
  BY <1>1, DraftTyped DEF Count, CommandAt, Range
<1>3. Len(CommandAt(i)) \in Nat
  BY <1>2
<1>4. array[i] \in Seq(Argument) /\ BeginsWith(array[i], CommandAt(i))
  BY DEF IntactInv, Loaded
<1>5. Len(array[i]) \in Nat
  BY <1>4
<1> QED BY <1>1, <1>2, <1>3, <1>4, <1>5

LEMMA NextMechanismJobs ==
  ASSUME JobInv, NEW w \in Workers, NextMechanism(w)
  PROVE  JobInv'
<1> DEFINE o == builder[w]
           i == Current(o)
           m == draft.Mechanisms[i]
           n == Len(m.Container.Command)
<1>1. /\ o \in Building /\ Working(o) /\ Faithful(o) /\ o.pc = "mechanism" /\ IntactInv
      /\ UNCHANGED <<draft, parsed, array, sent>> /\ i <= Len(Mechanisms)
  BY DEF JobInv, IntactInv, Typed, NextMechanism, Current
<1>2. parsed # None /\ o.target \in Targets /\ Ready(o)
  BY <1>1 DEF Working, Faithful
<1>3. Mechanisms = draft.Mechanisms /\ draft \in Drafts
  BY <1>1, <1>2, MechanismsAre DEF IntactInv, Typed
<1>4. i \in 1 .. Count /\ i \in Nat
  BY <1>1, <1>3, DraftTyped DEF Building, Current, Count
<1>5. PICK order \in SetToSeqs(DOMAIN m.Config) :
        builder' = [builder EXCEPT ![w].pc = "append", ![w].slice = CommandOf(i),
                                   ![w].left = Appended(m, builder[w].target, order)]
  BY <1>3 DEF NextMechanism, Current
<1> DEFINE left == Appended(m, o.target, order)
           slice == Shared(i, n)
           b == [o EXCEPT !.pc = "append", !.slice = slice, !.left = left]
<1>6. builder' = [builder EXCEPT ![w] = b]
  BY <1>3, <1>5 DEF CommandOf
<1> HIDE DEF i
<1>7. /\ FencingMechanism(m) /\ n \in Nat /\ CommandAt(i) = m.Container.Command
      /\ array[i] \in Seq(Argument) /\ Len(array[i]) \in Nat
      /\ BeginsWith(array[i], CommandAt(i)) /\ CommandAt(i) \in Seq(STRING)
      /\ n <= Len(array[i])
  BY <1>1, <1>2, <1>4, CurrentIs DEF CommandAt, BeginsWith
<1>8. left \in Seq(Argument) /\ (left # <<>> => m.ArgumentFormat = "cli")
  BY <1>2, <1>5, <1>7, AppendedTyped DEF Appended
<1>9. slice \in Slice /\ slice.of = i /\ slice.len = n /\ slice.of # None
  BY <1>4, <1>7, SliceTyped
<1>10. Contents(slice) = Words(m.Container.Command)
  BY <1>7, <1>9, Beginning DEF Contents
<1>11. n \in n .. Len(array[i])
  <2> HIDE DEF n
  <2> QED BY <1>7
<1> HIDE DEF left, slice
<1>12. /\ b \in Building /\ b.pc = "append" /\ b.target = o.target /\ b.slice = slice
       /\ b.left = left /\ b.containers = o.containers /\ b.volumes = o.volumes
       /\ Current(b) = i
  BY <1>1, <1>8, <1>9 DEF Building, Current, i
<1> HIDE DEF b
<1>13. Working(b)
  BY <1>2, <1>4, <1>7, <1>9, <1>11, <1>12 DEF Working, SliceOf
<1>14. Complete(Contents(slice) \o left, m, o.target)
  BY <1>5, <1>10 DEF Complete, left
<1>15. UnderWay(b)
  BY <1>8, <1>12, <1>14 DEF UnderWay
<1>16. Ready(b)
  BY <1>2, <1>12 DEF Ready
<1> QED BY <1>1, <1>6, <1>12, <1>13, <1>15, <1>16, OneFaithful DEF Faithful

(* The head of what is left, moved to the end of what is there. *)
LEMMA MoveOver ==
  ASSUME NEW S, NEW s \in Seq(S), NEW t \in Seq(S), t # <<>>
  PROVE  Append(s, Head(t)) \o Tail(t) = s \o t
<1> DEFINE u == Append(s, Head(t))
           v == Tail(t)
           n == Len(s)
           k == Len(t)
<1>1. /\ n \in Nat /\ k \in Nat /\ k > 0 /\ Head(t) = t[1] /\ Head(t) \in S
  BY HeadTailProperties, EmptySeq
<1>2. /\ u \in Seq(S) /\ Len(u) = n + 1 /\ u[n + 1] = t[1]
      /\ \A i \in 1 .. n : u[i] = s[i]
  BY <1>1
<1>3. v \in Seq(S) /\ Len(v) = k - 1 /\ \A i \in 1 .. k - 1 : v[i] = t[i + 1]
  BY HeadTailProperties
<1> HIDE DEF u, v, n, k
<1>4. /\ u \o v \in Seq(S) /\ Len(u \o v) = n + k
      /\ \A i \in 1 .. n + k : (u \o v)[i] = IF i <= n + 1 THEN u[i] ELSE v[i - (n + 1)]
  <2>1. /\ u \o v \in Seq(S) /\ Len(u \o v) = Len(u) + Len(v)
        /\ \A i \in 1 .. Len(u) + Len(v) :
             (u \o v)[i] = IF i <= Len(u) THEN u[i] ELSE v[i - Len(u)]
    BY <1>2, <1>3, ConcatProperties
  <2>2. Len(u) + Len(v) = n + k
    BY <1>1, <1>2, <1>3
  <2> QED BY <1>2, <2>1, <2>2
<1>5. /\ s \o t \in Seq(S) /\ Len(s \o t) = n + k
      /\ \A i \in 1 .. n + k : (s \o t)[i] = IF i <= n THEN s[i] ELSE t[i - n]
  BY ConcatProperties DEF n, k
<1>6. ASSUME NEW i \in 1 .. n + k PROVE (u \o v)[i] = (s \o t)[i]
  <2>1. CASE i <= n
    <3>1. i \in 1 .. n /\ i <= n + 1
      BY <1>1, <2>1
    <3> QED BY <1>2, <1>4, <1>5, <2>1, <3>1
  <2>2. CASE i = n + 1
    <3>1. ~ (i <= n) /\ i - n = 1 /\ i <= n + 1
      BY <1>1, <2>2
    <3> QED BY <1>2, <1>4, <1>5, <2>2, <3>1
  <2>3. CASE i > n + 1
    <3> DEFINE j == i - (n + 1)
    <3>1. ~ (i <= n) /\ ~ (i <= n + 1) /\ j \in 1 .. k - 1 /\ j + 1 = i - n
      BY <1>1, <2>3
    <3>2. (u \o v)[i] = v[j]
      BY <1>4, <3>1
    <3> HIDE DEF j
    <3> QED BY <1>3, <1>5, <3>1, <3>2
  <2>4. i <= n \/ i = n + 1 \/ i > n + 1
    BY <1>1
  <2> QED BY <2>1, <2>2, <2>3, <2>4
<1>7. u \o v = s \o t
  BY <1>4, <1>5, <1>6, SeqEqual
<1> QED BY <1>7 DEF u, v

(* A command that fills its array leaves no room for an append. *)
LEMMA FilledHasNoRoom ==
  ASSUME FillTheirArrays(Drafts), JobInv, NEW w \in Workers, Append1(w)
  PROVE  LET k == builder[w].slice IN ~ (k.of # None /\ k.len < Len(array[k.of]))
<1> DEFINE o == builder[w]
           k == o.slice
           i == Current(o)
           m == draft.Mechanisms[i]
<1>1. /\ o \in Building /\ Working(o) /\ Faithful(o) /\ o.pc = "append" /\ o.left # <<>>
      /\ IntactInv /\ UNCHANGED <<draft, parsed, sent>>
  BY DEF JobInv, IntactInv, Typed, Append1
<1>2. /\ parsed # None /\ o.target \in Targets /\ i \in 1 .. Count /\ SliceOf(k, i)
      /\ k \in Slice
      /\ Ready(o) /\ UnderWay(o)
  BY <1>1 DEF Working, Faithful, Building
<1>3. /\ Complete(Contents(k) \o o.left, m, o.target) /\ m.ArgumentFormat = "cli"
  BY <1>1, <1>2 DEF UnderWay
<1>4. SUFFICES ASSUME k.of # None PROVE ~ (k.len < Len(array[i])) /\ k.of = i
  OBVIOUS
<1> HIDE DEF i
<1>5. /\ draft \in Drafts /\ m \in Range(draft.Mechanisms) /\ CommandAt(i) \in Seq(STRING)
      /\ Len(CommandAt(i)) \in Nat
  BY <1>1, <1>2, CurrentIs
<1>6. Capacity(Len(CommandAt(i))) = Len(CommandAt(i))
  BY <1>3, <1>5 DEF FillTheirArrays, CommandAt
<1>7. array[i] = NewArray(CommandAt(i))
  BY <1>2 DEF JobInv, Pristine
<1>8. Len(CommandAt(i)) \in 0 .. MaxWords
  BY <1>2, <1>5, DraftTyped DEF Count, CommandAt
<1>9. Len(array[i]) = Len(CommandAt(i))
  BY <1>5, <1>6, <1>7, <1>8, NewArrayIs
<1>10. k.of = i /\ k.len \in Nat /\ Len(CommandAt(i)) <= k.len
  BY <1>1, <1>2, <1>4, SliceContents
<1> DEFINE c == Len(CommandAt(i))
           n == k.len
<1>11. Len(array[i]) = c /\ c \in Nat /\ n \in Nat /\ c <= n
  BY <1>5, <1>9, <1>10
<1> HIDE DEF c, n
<1>12. ~ (n < c)
  BY <1>11
<1> QED BY <1>10, <1>11, <1>12 DEF n

(* Without room, the command moves to an array of its own.                  *)
LEMMA MovedJobs ==
  ASSUME JobInv, NEW w \in Workers, Append1(w),
         ~ (builder[w].slice.of # None
              /\ builder[w].slice.len < Len(array[builder[w].slice.of]))
  PROVE  JobInv'
<1> DEFINE o == builder[w]
           k == o.slice
           i == Current(o)
           m == draft.Mechanisms[i]
           arg == Head(o.left)
           slice == Private(Append(Contents(k), arg))
           left == Tail(o.left)
           b == [o EXCEPT !.left = left, !.slice = slice]
<1>1. /\ o \in Building /\ Working(o) /\ Faithful(o) /\ o.pc = "append" /\ o.left # <<>>
      /\ IntactInv /\ UNCHANGED <<draft, parsed, sent>>
  BY DEF JobInv, IntactInv, Typed, Append1
<1>2. /\ parsed # None /\ o.target \in Targets /\ i \in 1 .. Count /\ SliceOf(k, i)
      /\ k \in Slice /\ arg \in Argument /\ left \in Seq(Argument) /\ o.left \in Seq(Argument)
      /\ Ready(o) /\ UnderWay(o)
  BY <1>1 DEF Working, Faithful, Building
<1>3. /\ Complete(Contents(k) \o o.left, m, o.target) /\ m.ArgumentFormat = "cli"
  BY <1>1, <1>2 DEF UnderWay
<1>4. array' = array /\ builder' = [builder EXCEPT ![w] = b]
  BY DEF Append1
<1>5. Contents(k) \in Seq(Argument) /\ Append(Contents(k), arg) \in Seq(Argument)
  BY <1>1, <1>2, SliceContents
<1>6. slice \in Slice /\ slice.of = None /\ slice.copy = Append(Contents(k), arg)
  BY <1>5, SliceTyped
<1>7. Contents(slice) = Append(Contents(k), arg)
  BY <1>6 DEF Contents
<1>8. Append(Contents(k), arg) \o left = Contents(k) \o o.left
  BY <1>1, <1>2, <1>5, MoveOver
<1> HIDE DEF slice, left
<1>9. /\ b \in Building /\ b.pc = "append" /\ b.target = o.target /\ b.slice = slice
       /\ b.left = left /\ b.containers = o.containers /\ b.volumes = o.volumes
       /\ Current(b) = i
  BY <1>1, <1>2, <1>6 DEF Building, Current
<1> HIDE DEF b
<1>10. Working(b)
  BY <1>2, <1>6, <1>9 DEF Working, SliceOf
<1>11. Complete(Contents(slice) \o left, m, o.target)
  BY <1>3, <1>7, <1>8
<1>12. UnderWay(b) /\ Ready(b)
  BY <1>2, <1>3, <1>9, <1>11 DEF UnderWay, Ready
<1> QED BY <1>1, <1>4, <1>9, <1>10, <1>12, OneFaithful DEF Faithful

(* A string written into a sequence behind its beginning is appended to it. *)
LEMMA WrittenBehind ==
  ASSUME NEW S, NEW s \in Seq(S), NEW n \in Nat, n < Len(s), NEW e \in S
  PROVE  SubSeq([s EXCEPT ![n + 1] = e], 1, n + 1) = Append(SubSeq(s, 1, n), e)
<1> DEFINE a == [s EXCEPT ![n + 1] = e]
           t == SubSeq(a, 1, n + 1)
           u == SubSeq(s, 1, n)
<1>1. /\ Len(s) \in Nat /\ n + 1 \in 1 .. Len(s)
      /\ \A k \in 1 .. n + 1 : k \in 1 .. Len(s) /\ (k = n + 1 \/ k \in 1 .. n)
  OBVIOUS
<1>2. /\ a \in Seq(S) /\ Len(a) = Len(s)
      /\ \A k \in 1 .. Len(s) : a[k] = IF k = n + 1 THEN e ELSE s[k]
  BY <1>1, ExceptSeq
<1> HIDE DEF a
<1>3. t \in Seq(S) /\ Len(t) = n + 1 /\ \A k \in 1 .. n + 1 : t[k] = a[k]
  BY <1>1, <1>2
<1>4. u \in Seq(S) /\ Len(u) = n /\ \A k \in 1 .. n : u[k] = s[k]
  BY <1>1
<1> HIDE DEF t, u
<1>5. /\ Append(u, e) \in Seq(S) /\ Len(Append(u, e)) = n + 1
      /\ Append(u, e)[n + 1] = e /\ \A k \in 1 .. n : Append(u, e)[k] = u[k]
  BY <1>4
<1>6. ASSUME NEW k \in 1 .. n + 1 PROVE t[k] = Append(u, e)[k]
  <2>1. CASE k = n + 1
    BY <1>1, <1>2, <1>3, <1>5, <2>1
  <2>2. CASE k \in 1 .. n
    <3>1. k # n + 1
      BY <2>2
    <3> QED BY <1>1, <1>2, <1>3, <1>4, <1>5, <2>2, <3>1
  <2> QED BY <1>1, <2>1, <2>2
<1>7. t = Append(u, e)
  BY <1>3, <1>5, <1>6, SeqEqual
<1> QED BY <1>7 DEF t, u, a

(* With room, it is written into the mechanism's array, which no other      *)
(* container of the Job is in; the one builder has no other Job.            *)
LEMMA InPlaceJobs ==
  ASSUME OneBuilder, ~FillTheirArrays(Drafts), JobInv, NEW w \in Workers, Append1(w),
         builder[w].slice.of # None,
         builder[w].slice.len < Len(array[builder[w].slice.of])
  PROVE  JobInv'
<1> DEFINE o == builder[w]
           k == o.slice
           i == Current(o)
           m == draft.Mechanisms[i]
           n == k.len
           arg == Head(o.left)
           a == [array[i] EXCEPT ![n + 1] = arg]
           slice == Shared(k.of, n + 1)
           left == Tail(o.left)
           made == [o EXCEPT !.left = left, !.slice = slice]
<1>1. /\ o \in Building /\ Working(o) /\ Faithful(o) /\ o.pc = "append" /\ o.left # <<>>
      /\ IntactInv /\ UNCHANGED <<draft, parsed, sent>>
  BY DEF JobInv, IntactInv, Typed, Append1
<1>2. /\ parsed # None /\ o.target \in Targets /\ i \in 1 .. Count /\ SliceOf(k, i)
      /\ k \in Slice /\ arg \in Argument /\ left \in Seq(Argument) /\ o.left \in Seq(Argument)
      /\ Ready(o) /\ UnderWay(o)
  BY <1>1 DEF Working, Faithful, Building
<1>3. /\ Complete(Contents(k) \o o.left, m, o.target) /\ m.ArgumentFormat = "cli"
  BY <1>1, <1>2 DEF UnderWay
<1>4. /\ array[i] \in Seq(Argument) /\ k.of = i /\ n \in Nat /\ n < Len(array[i])
      /\ Contents(k) \in Seq(Argument) /\ Contents(k) = SubSeq(array[i], 1, n)
  BY <1>1, <1>2, SliceContents
<1>5. array' = [array EXCEPT ![i] = a] /\ builder' = [builder EXCEPT ![w] = made]
  BY <1>4 DEF Append1
<1>6. array \in [1 .. Count -> Seq(Argument)]
  BY <1>1, <1>2 DEF Loaded, IntactInv
<1>7. array'[i] = a /\ \A j \in 1 .. Count : j # i => array'[j] = array[j]
  BY <1>2, <1>5, <1>6
<1>8. SubSeq(a, 1, n + 1) = Append(Contents(k), arg)
  BY <1>2, <1>4, WrittenBehind, ZenonT(30)
<1>9. slice \in Slice /\ slice.of = i /\ slice.len = n + 1 /\ i # None
  <2>1. i \in Nat /\ n + 1 \in Nat
    BY <1>2, <1>4
  <2> QED BY <1>4, <2>1, SliceTyped
<1>10. Append(Contents(k), arg) \o left = Contents(k) \o o.left
  BY <1>1, <1>2, <1>4, MoveOver
<1>11. Len(o.containers) \in Nat /\ i = Len(o.containers) + 1
  BY <1>1 DEF Building, Current
<1> HIDE DEF slice, left, a
<1>12. PICK b \in Building :
         /\ builder' = [builder EXCEPT ![w] = b]
         /\ b.pc = "append" /\ b.target = o.target /\ b.slice = slice /\ b.left = left
         /\ b.containers = o.containers /\ b.volumes = o.volumes
  <2>1. /\ made \in Building /\ made.pc = "append" /\ made.target = o.target
        /\ made.slice = slice /\ made.left = left
        /\ made.containers = o.containers /\ made.volumes = o.volumes
    BY <1>1, <1>2, <1>9 DEF Building
  <2> HIDE DEF made
  <2> QED BY <1>5, <2>1
<1> HIDE DEF made
<1>13. Contents(b.slice)' = Append(Contents(k), arg)
  BY <1>7, <1>8, <1>9, <1>12 DEF Contents
<1>14. UnderWay(b)'
  <2>1. Current(b) = i
    BY <1>12 DEF Current
  <2>2. Complete(Contents(b.slice)' \o b.left, m, b.target)
    BY <1>3, <1>10, <1>12, <1>13
  <2> QED BY <1>1, <1>3, <2>1, <2>2 DEF UnderWay, Current
<1>15. Ready(b)'
  <2>1. ASSUME NEW j \in 1 .. Len(b.containers)
        PROVE  Contents(b.containers[j].command)' = Contents(b.containers[j].command)
    <3>1. j \in 1 .. Len(o.containers)
      BY <1>12
    <3>2. /\ Len(o.containers) <= Count
          /\ o.containers[j].command.of # None => o.containers[j].command.of = j
      BY <1>2, <3>1 DEF Ready
    <3> DEFINE l == Len(o.containers)
    <3>3. /\ l \in Nat /\ i = l + 1 /\ j \in 1 .. l /\ l <= Count
          /\ Count \in Nat
      BY <1>1, <1>11, <3>1, <3>2, DraftTyped DEF Count, IntactInv, Typed
    <3> HIDE DEF i, l
    <3>4. j \in 1 .. Count /\ j # i
      BY <3>3
    <3> QED BY <1>7, <1>12, <3>2, <3>4 DEF Contents
  <2> QED BY <1>1, <1>2, <1>12, <2>1 DEF Ready, Count
<1>16. ASSUME NEW v \in Workers PROVE Faithful(builder[v])'
  <2>1. builder'[v] = b
    BY <1>1, <1>12 DEF OneBuilder, IntactInv, Typed
  <2> QED BY <1>14, <1>15, <2>1 DEF Faithful, Ready, UnderWay, Contents, Current, Count
<1>17. IntactInv' /\ JobFencesItsTarget' /\ Pristine'
  BY <1>1, Append1Intact, SentStay DEF JobInv, Pristine
<1> QED BY <1>16, <1>17 DEF JobInv

LEMMA Append1Jobs ==
  ASSUME FillTheirArrays(Drafts) \/ OneBuilder, JobInv, NEW w \in Workers, Append1(w)
  PROVE  JobInv'
BY FilledHasNoRoom, MovedJobs, InPlaceJobs

LEMMA EndMechanismJobs ==
  ASSUME JobInv, NEW w \in Workers, EndMechanism(w)
  PROVE  JobInv'
<1> DEFINE o == builder[w]
           i == Current(o)
           m == draft.Mechanisms[i]
           c == [command |-> o.slice, env |-> Environment(m, o.target), mounts |-> MountsOf(m)]
           slice == Private(<<>>)
           containers == Append(o.containers, c)
           volumes == o.volumes \cup Volumes(m)
           b == [o EXCEPT !.pc = "mechanism", !.slice = slice, !.containers = containers,
                          !.volumes = volumes]
<1>1. /\ o \in Building /\ Working(o) /\ Faithful(o) /\ o.pc = "append" /\ o.left = <<>>
      /\ IntactInv /\ UNCHANGED <<draft, parsed, array, sent>>
  BY DEF JobInv, IntactInv, Typed, EndMechanism
<1>2. /\ parsed # None /\ o.target \in Targets /\ i \in 1 .. Count /\ SliceOf(o.slice, i)
      /\ o.slice \in Slice /\ Ready(o) /\ UnderWay(o)
  BY <1>1 DEF Working, Faithful, Building
<1>3. Mechanisms = draft.Mechanisms
  BY <1>1, <1>2, MechanismsAre
<1>4. \/ builder' = [builder EXCEPT ![w] = Resting]
      \/ ~Aborted(m, o.target) /\ builder' = [builder EXCEPT ![w] = b]
  BY <1>3 DEF EndMechanism, Current, MountsOf
<1>5. CASE builder' = [builder EXCEPT ![w] = Resting]
  <2>1. Working(Resting) /\ Faithful(Resting)
    BY RestingTyped DEF Working, Faithful
  <2> QED BY <1>1, <1>5, <2>1, RestingTyped, OneFaithful
<1>6. CASE ~Aborted(m, o.target) /\ builder' = [builder EXCEPT ![w] = b]
  <2>1. m \in Possible
    <3> HIDE DEF i
    <3> QED BY <1>1, <1>2, CurrentIs
  <2>2. /\ o.containers \in Seq(Built)
        /\ o.volumes \in SUBSET UNION {Volumes(x) : x \in Possible}
    BY <1>1 DEF Building
  <2>3. Complete(Contents(o.slice), m, o.target)
    <3>1. Contents(o.slice) \in Seq(Argument)
      BY <1>1, <1>2, SliceContents
    <3>2. Contents(o.slice) \o <<>> = Contents(o.slice)
      BY <3>1, ConcatEmptySeq
    <3>3. Complete(Contents(o.slice) \o o.left, m, o.target)
      BY <1>2 DEF UnderWay
    <3> QED BY <1>1, <3>2, <3>3
  <2>4. /\ c.command = o.slice /\ c.env = Environment(m, o.target) /\ c.mounts = MountsOf(m)
        /\ c \in Built
    BY <1>2, <2>1 DEF Built
  <2> HIDE DEF c, m
  <2> DEFINE n == Len(o.containers)
  <2>5. /\ containers \in Seq(Built) /\ Len(containers) = n + 1 /\ containers[n + 1] = c
        /\ n \in Nat /\ i = n + 1
        /\ \A j \in 1 .. n : containers[j] = o.containers[j]
    BY <2>2, <2>4 DEF Current
  <2>6. /\ volumes \in SUBSET UNION {Volumes(x) : x \in Possible}
        /\ Volumes(m) \subseteq volumes /\ o.volumes \subseteq volumes
    BY <2>1, <2>2
  <2>7. slice \in Slice
    BY RestingTyped DEF Resting, Building
  <2> HIDE DEF slice, containers, volumes
  <2>8. /\ b \in Building /\ b.pc = "mechanism" /\ b.target = o.target
        /\ b.containers = containers /\ b.volumes = volumes
    BY <1>1, <2>5, <2>6, <2>7 DEF Building
  <2> HIDE DEF b, i
  <2>9. Working(b)
    BY <1>2, <2>8 DEF Working
  <2>10. Ready(b)
    <3>1. Len(b.containers) <= Count
      BY <1>2, <2>5, <2>8
    <3>2. ASSUME NEW j \in 1 .. Len(b.containers)
          PROVE  LET x == b.containers[j]
                     y == draft.Mechanisms[j]
                 IN /\ ~Aborted(y, b.target) /\ Complete(Contents(x.command), y, b.target)
                    /\ x.command.of # None => x.command.of = j
                    /\ x.env = Environment(y, b.target)
                    /\ x.mounts = MountsOf(y) /\ Volumes(y) \subseteq b.volumes
      <4>1. CASE j = n + 1
        <5>1. b.containers[j] = c /\ draft.Mechanisms[j] = m
          BY <2>5, <2>8, <4>1 DEF m
        <5>2. c.command.of # None => c.command.of = j
          BY <1>2, <2>4, <2>5, <4>1 DEF SliceOf
        <5> QED BY <1>6, <2>3, <2>4, <2>6, <2>8, <5>1, <5>2
      <4>2. CASE j \in 1 .. n
        <5>1. b.containers[j] = o.containers[j]
          BY <2>5, <2>8, <4>2
        <5> QED BY <1>2, <2>6, <2>8, <4>2, <5>1 DEF Ready
      <4>3. j = n + 1 \/ j \in 1 .. n
        <5>1. Len(b.containers) = n + 1 /\ n \in Nat
          BY <2>5, <2>8
        <5> HIDE DEF n
        <5> QED BY <5>1
      <4> QED BY <4>1, <4>2, <4>3
    <3> QED BY <3>1, <3>2 DEF Ready
  <2> QED BY <1>1, <1>6, <2>8, <2>9, <2>10, OneFaithful DEF Faithful
<1> QED BY <1>4, <1>5, <1>6

(* What is sent is as it was built. *)
LEMMA SendJobs ==
  ASSUME JobInv, NEW w \in Workers, Send(w)
  PROVE  JobInv'
<1> DEFINE o == builder[w]
           encoded == [i \in DOMAIN o.containers |->
                         [o.containers[i] EXCEPT !.command = Contents(@)]]
           j == [target |-> o.target, containers |-> encoded, volumes |-> o.volumes]
<1>1. /\ o \in Building /\ Working(o) /\ Faithful(o) /\ o.pc = "mechanism" /\ IntactInv
      /\ UNCHANGED <<draft, parsed, array>> /\ Len(o.containers) = Len(Mechanisms)
      /\ sent' = sent \cup {j} /\ builder' = [builder EXCEPT ![w] = Resting]
  BY DEF JobInv, IntactInv, Typed, Send
<1>2. parsed # None /\ o.target \in Targets /\ Ready(o)
  BY <1>1 DEF Working, Faithful
<1>3. Mechanisms = draft.Mechanisms /\ draft \in Drafts
  BY <1>1, <1>2, MechanismsAre DEF IntactInv, Typed
<1> DEFINE n == Len(o.containers)
<1>4. /\ o.containers \in Seq(Built) /\ n \in Nat /\ DOMAIN o.containers = 1 .. n
      /\ n = Count
  BY <1>1, <1>3 DEF Building, Count
<1>5. /\ DOMAIN encoded = 1 .. n /\ Len(encoded) = n
  BY <1>4
<1>6. ASSUME NEW i \in 1 .. n
      PROVE  LET c == encoded[i]
                 m == draft.Mechanisms[i]
             IN /\ \A d \in Range(m.DynamicConfig) :
                     o.target \in DOMAIN d.Values \/ d.Default # ""
                /\ IF m.ArgumentFormat = "cli" THEN CarriesArguments(c.command, m, o.target)
                   ELSE /\ c.command = Words(m.Container.Command)
                        /\ CarriesVariables(c.env, m, o.target)
                /\ \A k \in c.mounts : \E v \in o.volumes : v.name = k
  <2> DEFINE x == o.containers[i]
             c == encoded[i]
             m == draft.Mechanisms[i]
  <2>1. x \in Built
    BY <1>4
  <2>2. c.command = Contents(x.command) /\ c.env = x.env /\ c.mounts = x.mounts
    BY <1>4, <2>1 DEF Built
  <2>3. /\ ~Aborted(m, o.target) /\ Complete(Contents(x.command), m, o.target)
        /\ x.env = Environment(m, o.target)
        /\ x.mounts = MountsOf(m) /\ Volumes(m) \subseteq o.volumes
    BY <1>2 DEF Ready
  <2>4. FencingMechanism(m)
    BY <1>1, <1>2, <1>4, CurrentIs
  <2> HIDE DEF c, m, x, encoded, n
  <2>5. \A k \in c.mounts : \E v \in o.volumes : v.name = k
    BY <2>2, <2>3 DEF MountsOf
  <2>6. /\ \A d \in Range(m.DynamicConfig) : o.target \in DOMAIN d.Values \/ d.Default # ""
        /\ IF m.ArgumentFormat = "cli" THEN CarriesArguments(c.command, m, o.target)
           ELSE /\ c.command = Words(m.Container.Command)
                /\ CarriesVariables(c.env, m, o.target)
    BY <1>2, <2>2, <2>3, <2>4, ContainerFences
  <2> QED BY <2>5, <2>6 DEF c, m
<1>7. /\ j.target = o.target /\ j.containers = encoded /\ j.volumes = o.volumes
  OBVIOUS
<1> HIDE DEF encoded, j
<1>8. Fences(j, draft)
  BY <1>1, <1>3, <1>5, <1>6, <1>7 DEF Fences, Words
<1>9. JobFencesItsTarget'
  BY <1>1, <1>8, AllFence DEF JobInv
<1>10. IntactInv'
  BY <1>1, SendIntact
<1>11. Pristine'
  BY <1>1 DEF JobInv, Pristine, Count, CommandAt
<1>12. ASSUME NEW v \in Workers PROVE Faithful(builder[v])'
  <2>1. builder'[v] = IF v = w THEN Resting ELSE builder[v]
    BY <1>1 DEF IntactInv, Typed
  <2>2. Faithful(builder[v])
    BY DEF JobInv
  <2> QED BY <1>1, <2>1, <2>2, RestingTyped
          DEF Faithful, Ready, UnderWay, Contents, Current, Count
<1> QED BY <1>9, <1>10, <1>11, <1>12 DEF JobInv

LEMMA NextJobs ==
  ASSUME FillTheirArrays(Drafts) \/ OneBuilder, JobInv, [Next]_vars
  PROVE  JobInv'
<1>1. CASE UNCHANGED vars
  <2>1. IntactInv' /\ JobFencesItsTarget'
    BY <1>1, NextIntact, SentStay DEF vars, JobInv
  <2>2. Pristine'
    BY <1>1 DEF vars, JobInv, Pristine, Count, CommandAt
  <2>3. \A w \in Workers : Faithful(builder[w])'
    BY <1>1 DEF vars, JobInv, Faithful, Ready, UnderWay, Contents, Current, Count
  <2> QED BY <2>1, <2>2, <2>3 DEF JobInv
<1>2. CASE Next
  BY <1>2, LoadJobs, StartJobs, NextMechanismJobs, Append1Jobs, EndMechanismJobs, SendJobs
     DEF Next
<1> QED BY <1>1, <1>2

(* Whatever the configuration, a Job that is sent runs what was written     *)
(* down, with the arguments and variables for its own target: always, as    *)
(* long as one worker builds Jobs, though their commands share the array of *)
(* the configuration's; and with several workers as long as each command    *)
(* that is given arguments fills its array (createFencingJob).              *)
THEOREM JobsFenceTheirTargets ==
  ASSUME FillTheirArrays(Drafts) \/ OneBuilder
  PROVE  Spec => []JobFencesItsTarget
<1>1. Init => JobInv
  BY InitJobs
<1>2. JobInv /\ [Next]_vars => JobInv'
  BY NextJobs
<1>3. JobInv => JobFencesItsTarget
  BY DEF JobInv
<1> QED BY <1>1, <1>2, <1>3, PTL DEF Spec

=============================================================================
