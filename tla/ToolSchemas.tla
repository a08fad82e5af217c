----------------------------- MODULE ToolSchemas -----------------------------
(***************************************************************************)
(* Tool parameters as a hosted NIM accepts them                            *)
(* (providers/nvidia_nim/tool_schema.py): boolean subschemas are removed,  *)
(* a property named "type" is offered under a private alias, and the       *)
(* arguments of the answer get their names back                            *)
(* (providers/openai_chat/tool_calls.py).                                  *)
(*                                                                         *)
(* One tool whose parameters are an object of properties; a property is a  *)
(* plain value, a boolean schema, or an object of plain properties.  A     *)
(* boolean schema does not carry the name of an alias.                     *)
(***************************************************************************)
EXTENDS Naturals, FiniteSets

CONSTANTS MaxProperties    \* properties of one tool, on both levels

Unsafe == <<"type", 0>>
Ordinary == <<"mode", 0>>
Alias(k) == <<"alias", k>>
PropertyNames == {Unsafe, Ordinary, Alias(1), Alias(2)}
AllNames == PropertyNames \union {Alias(3)}

VARIABLES schema,      \* what the client declares
          sanitized,   \* without boolean subschemas
          offeredAs,   \* with aliases, as the provider gets it
          aliases,     \* the private map of the request: alias to name
          arguments,   \* of a call in the answer
          restored,    \* the same after the way back
          schemaStage

schemaVars == <<schema, sanitized, offeredAs, aliases, arguments, restored, schemaStage>>

Property(kind, inner, needs) == [kind |-> kind, inner |-> inner, needs |-> needs]
LeafProperty == Property("leaf", {}, {})
Nothing == [n \in {} |-> LeafProperty]
NoSchema == [properties |-> Nothing, required |-> {}]

ToolSchemasInit ==
    /\ schema = NoSchema /\ sanitized = NoSchema /\ offeredAs = NoSchema
    /\ aliases = [a \in {} |-> Unsafe] /\ arguments = [n \in {} |-> {}]
    /\ restored = [n \in {} |-> {}] /\ schemaStage = "declaring"

With(f, n, p) == [m \in DOMAIN f \union {n} |-> IF m = n THEN p ELSE f[m]]

(* The names of all properties, on both levels                             *)
(* (_collect_nim_tool_property_names).                                     *)
InnerNames(s) == UNION {s.properties[n].inner : n \in DOMAIN s.properties}
CollectedNames(s) == DOMAIN s.properties \union InnerNames(s)

PropertyCount ==
    Cardinality(DOMAIN schema.properties)
    + Cardinality({<<n, m>> \in (DOMAIN schema.properties) \X PropertyNames :
                      m \in schema.properties[n].inner})

Needed(set, n, required) == IF required THEN set \union {n} ELSE set

DeclareProperty ==
    /\ schemaStage = "declaring" /\ PropertyCount < MaxProperties
    /\ \E required \in BOOLEAN, n \in PropertyNames \ DOMAIN schema.properties,
          kind \in {"leaf", "boolean", "object"} :
         /\ kind = "boolean" => n \in {Unsafe, Ordinary}
         /\ schema' = [properties |-> With(schema.properties, n, Property(kind, {}, {})),
                       required |-> Needed(schema.required, n, required)]
    /\ UNCHANGED <<sanitized, offeredAs, aliases, arguments, restored, schemaStage>>

DeclareInner ==
    /\ schemaStage = "declaring" /\ PropertyCount < MaxProperties
    /\ \E required \in BOOLEAN, o \in DOMAIN schema.properties, n \in PropertyNames :
         /\ schema.properties[o].kind = "object" /\ n \notin schema.properties[o].inner
         /\ schema' = [schema EXCEPT !.properties[o] = [@ EXCEPT
                !.inner = @ \union {n}, !.needs = Needed(@, n, required)]]
    /\ UNCHANGED <<sanitized, offeredAs, aliases, arguments, restored, schemaStage>>

(* _sanitize_nim_schema_node: what is required stays required.             *)
Sanitize ==
    /\ schemaStage = "declaring" /\ schemaStage' = "sanitized"
    /\ LET kept == {n \in DOMAIN schema.properties : schema.properties[n].kind # "boolean"}
       IN sanitized' = [schema EXCEPT !.properties = [n \in kept |-> schema.properties[n]]]
    /\ UNCHANGED <<schema, offeredAs, aliases, arguments, restored>>

(* A fault, for the checks only: the alias may be a name in use.           *)
FirstAlias(s) == Alias(1)
(* ... or only the outer names are reserved.                               *)
OuterFresh(s) ==
    CHOOSE a \in {Alias(k) : k \in 1..3} \ DOMAIN s.properties :
        \A k \in 1..3 : Alias(k) \notin DOMAIN s.properties => a[2] <= k

(* _make_nim_tool_parameter_alias: the first suffix that is not reserved.  *)
FreshAlias(s) ==
    CHOOSE a \in {Alias(k) : k \in 1..3} \ CollectedNames(s) :
        \A k \in 1..3 : Alias(k) \notin CollectedNames(s) => a[2] <= k

(* A fault, for the checks only: what is required keeps its name.          *)
KeptNames(names, local, s) == names

(* The names of one level; a required name is renamed where it is one of   *)
(* its level's properties.                                                 *)
Renamed(names, local, s) ==
    {IF n = Unsafe /\ n \in local THEN FreshAlias(s) ELSE n : n \in names}

AliasedProperty(p, s) ==
    Property(p.kind, Renamed(p.inner, p.inner, s), Renamed(p.needs, p.inner, s))

(* _alias_nim_tool_parameters                                              *)
AliasParameters ==
    /\ schemaStage = "sanitized" /\ schemaStage' = "offered"
    /\ LET outer == DOMAIN sanitized.properties
           Back(n) == IF n = FreshAlias(sanitized) THEN Unsafe ELSE n
       IN IF Unsafe \in CollectedNames(sanitized)
          THEN /\ offeredAs' =
                     [properties |-> [n \in Renamed(outer, outer, sanitized) |->
                          AliasedProperty(sanitized.properties[Back(n)], sanitized)],
                      required |-> Renamed(sanitized.required, outer, sanitized)]
               /\ aliases' = [a \in {FreshAlias(sanitized)} |-> Unsafe]
          ELSE offeredAs' = sanitized /\ UNCHANGED aliases
    /\ UNCHANGED <<schema, sanitized, arguments, restored>>

(* An answer that fits what the provider was given: the outer names K, the *)
(* optional inner ones I.                                                  *)
AnswerCall ==
    /\ schemaStage = "offered" /\ schemaStage' = "answered"
    /\ \E K \in SUBSET (DOMAIN offeredAs.properties \union offeredAs.required),
          I \in SUBSET InnerNames(offeredAs) :
         /\ offeredAs.required \subseteq K
         /\ arguments' = [n \in K |->
               IF n \notin DOMAIN offeredAs.properties THEN {}
               ELSE LET p == offeredAs.properties[n] IN (I \intersect p.inner) \union p.needs]
    /\ UNCHANGED <<schema, sanitized, offeredAs, aliases, restored>>

NameBack(n) == IF n \in DOMAIN aliases THEN aliases[n] ELSE n

(* A fault, for the checks only: the names inside an object stay private.  *)
InnerStays(names) == names

InnerBack(names) == {NameBack(n) : n \in names}

(* restore_tool_argument_aliases: of two keys that get one name, one is    *)
(* lost.                                                                   *)
RestoreArguments ==
    /\ schemaStage = "answered" /\ schemaStage' = "restored"
    /\ restored' = [m \in {NameBack(n) : n \in DOMAIN arguments} |->
                      InnerBack(arguments[CHOOSE n \in DOMAIN arguments : NameBack(n) = m])]
    /\ UNCHANGED <<schema, sanitized, offeredAs, aliases, arguments>>

ToolSchemasNext ==
    \/ DeclareProperty \/ DeclareInner \/ Sanitize \/ AliasParameters \/ AnswerCall
    \/ RestoreArguments

ToolSchemasSpec == ToolSchemasInit /\ [][ToolSchemasNext]_schemaVars

-----------------------------------------------------------------------------
ToolSchemasTypeOK ==
    /\ DOMAIN schema.properties \subseteq PropertyNames
    /\ \A s \in {schema, sanitized, offeredAs} :
         /\ s.required \subseteq AllNames /\ CollectedNames(s) \subseteq AllNames
         /\ \A n \in DOMAIN s.properties : s.properties[n].needs \subseteq AllNames
    /\ DOMAIN aliases \subseteq {Alias(k) : k \in 1..3}
    /\ DOMAIN arguments \subseteq AllNames /\ DOMAIN restored \subseteq AllNames
    /\ schemaStage \in {"declaring", "sanitized", "offered", "answered", "restored"}

(* The provider never sees a property it cannot take, and an alias is the  *)
(* name of nothing else in the tool.                                       *)
AliasesArePrivate ==
    schemaStage \in {"offered", "answered", "restored"} =>
        /\ Unsafe \notin CollectedNames(offeredAs)
        /\ DOMAIN aliases \intersect CollectedNames(sanitized) = {}

(* An answer that fits the offered schema fits the client's own when its   *)
(* names are back, and none of its values is lost on the way.              *)
ArgumentsComeBack ==
    schemaStage = "restored" =>
        /\ DOMAIN restored \subseteq DOMAIN schema.properties
        /\ schema.required \subseteq DOMAIN restored
        /\ Cardinality(DOMAIN restored) = Cardinality(DOMAIN arguments)
        /\ \A n \in DOMAIN restored : schema.properties[n].kind = "object" =>
             /\ restored[n] \subseteq schema.properties[n].inner
             /\ schema.properties[n].needs \subseteq restored[n]
        /\ \A n \in DOMAIN arguments :
             Cardinality(restored[NameBack(n)]) = Cardinality(arguments[n])

ToolSchemasKept == AliasesArePrivate /\ ArgumentsComeBack
=============================================================================
