---------------------------- MODULE ConfigParser ----------------------------
(***************************************************************************)
(* How a ConfigMap's text becomes a fencing configuration: the typed       *)
(* access to YAML of pkg/config, and the constructors that use it          *)
(* (NewFencingMethodFromConfig and those it calls, HandleConfigMap).       *)
(* Nothing here fails: what has not the expected shape is left out.        *)
(***************************************************************************)
EXTENDS Integers, Sequences, SequencesExt

(* YAML values.  A mapping is clean if all its keys are strings; numbers,   *)
(* booleans and what is absent are told apart by no one here.               *)
Text(s)         == [kind |-> "string", text |-> s]
List(items)     == [kind |-> "list", items |-> items]
Mapping(fields) == [kind |-> "map", fields |-> fields, clean |-> TRUE]
Nothing         == [kind |-> "other"]

NoFields == [key \in {} |-> Nothing]

createStringMap(v) == v.kind = "map" /\ v.clean

-----------------------------------------------------------------------------
(* Slip: the last item is left out. *)
LeadingButLast(items) == SubSeq(items, 1, Len(items) - 1)

(* The items before the first that is not a clean mapping. *)
Leading(items) ==
  SubSeq(items, 1, Max({k \in 0 .. Len(items) :
                          \A i \in 1 .. k : createStringMap(items[i])}))

(* A list is descended into by its items' names, or else types; the last    *)
(* of a name counts.                                                        *)
NameOf(item) ==
  LET f == item.fields
  IN IF "name" \in DOMAIN f THEN f["name"]
     ELSE IF "type" \in DOMAIN f THEN f["type"] ELSE Nothing

createSubMapFromArray(items) ==
  LET entries == Leading(items)
      named(i) == NameOf(entries[i]).kind = "string"
      keys == {NameOf(entries[i]).text : i \in {j \in DOMAIN entries : named(j)}}
      last(key) == Max({i \in DOMAIN entries : NameOf(entries[i]) = Text(key)})
  IN [key \in keys |-> entries[last(key)]]

FieldsOf(v) ==
  IF createStringMap(v) THEN v.fields
  ELSE IF v.kind = "list" THEN createSubMapFromArray(v.items) ELSE NoFields

(* keys is the dotted key, split. *)
retrieveValueFromKeys(keys, subMap) ==
  LET descend(v, key) ==
        LET f == FieldsOf(v) IN IF key \in DOMAIN f THEN f[key] ELSE Nothing
  IN FoldLeft(descend, Mapping(subMap), keys)

GetString(cfg, key) ==
  LET v == retrieveValueFromKeys(<<key>>, cfg)
  IN IF v.kind = "string" THEN v.text ELSE ""

GetSliceOfStrings(cfg, key) ==
  LET v == retrieveValueFromKeys(<<key>>, cfg)
      texts == v.kind = "list" /\ \A i \in DOMAIN v.items : v.items[i].kind = "string"
  IN IF texts THEN [i \in DOMAIN v.items |-> v.items[i].text] ELSE <<>>

GetSubConfig(cfg, key) ==
  LET v == retrieveValueFromKeys(<<key>>, cfg)
  IN IF createStringMap(v) THEN v.fields ELSE NoFields

GetSubConfigArray(cfg, key) ==
  LET v == retrieveValueFromKeys(<<key>>, cfg)
  IN IF v.kind = "list"
     THEN [i \in DOMAIN Leading(v.items) |-> v.items[i].fields] ELSE <<>>

(* The string pairs of the first item; those of any other are not looked at,*)
(* and a mapping that is not in a list gives nothing.                       *)
GetMapOfStrings(cfg, key) ==
  LET items == GetSubConfigArray(cfg, key)
      first == IF items = <<>> THEN NoFields ELSE items[1]
  IN [k \in {k \in DOMAIN first : first[k].kind = "string"} |-> first[k].text]

-----------------------------------------------------------------------------
(* The constructors.                                                       *)

newDynamicAttributeFromConfig(cfg) ==
  [Field |-> GetString(cfg, "field"), Default |-> GetString(cfg, "default"),
   Values |-> GetMapOfStrings(cfg, "values")]

newContainerFromConfig(cfg) ==
  LET env == GetSubConfigArray(cfg, "env")
  IN [Name |-> GetString(cfg, "name"), Image |-> GetString(cfg, "image"),
      Command |-> GetSliceOfStrings(cfg, "command"),
      Env |-> [i \in DOMAIN env |-> [name |-> GetString(env[i], "name"),
                                     value |-> GetString(env[i], "value")]]]

newFencingMechanismFromConfig(cfg) ==
  LET dcs == GetSubConfigArray(cfg, "dynamicConfig")
  IN [Container |-> newContainerFromConfig(GetSubConfig(cfg, "container")),
      PassTargetAs |-> GetString(cfg, "passTargetAs"),
      ArgumentFormat |-> GetString(cfg, "argumentFormat"),
      Config |-> GetMapOfStrings(cfg, "config"),
      DynamicConfig |-> [i \in DOMAIN dcs |-> newDynamicAttributeFromConfig(dcs[i])],
      Secrets |-> GetMapOfStrings(cfg, "secrets")]

NewFencingMethodFromConfig(cfg) ==
  LET mechanisms == GetSubConfigArray(cfg, "mechanisms")
  IN [Name |-> GetString(cfg, "name"),
      Mechanisms |-> [i \in DOMAIN mechanisms |->
                        newFencingMechanismFromConfig(mechanisms[i])]]

(* What HandleConfigMap puts in the map for a text that is YAML. *)
FencingConfig(cfg) ==
  LET methods == GetSubConfigArray(cfg, "methods")
  IN [NodeSelector |-> GetMapOfStrings(cfg, "nodeSelector"),
      Methods |-> [i \in DOMAIN methods |-> NewFencingMethodFromConfig(methods[i])]]
=============================================================================
