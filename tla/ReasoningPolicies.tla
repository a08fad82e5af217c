--------------------------- MODULE ReasoningPolicies ---------------------------
(***************************************************************************)
(* How much a model reasons (application/routing.py and reasoning.py,      *)
(* core/reasoning.py, and the encoders of the providers): the name of the  *)
(* model decides whose preference counts, the preference and the client's  *)
(* request give one policy, and the provider's encoder says it in the      *)
(* words of its API.                                                       *)
(*                                                                         *)
(* The six efforts are 1 (minimal) to 6 (max); 0 is none.  What an encoder *)
(* writes is a Wire: whether it asks for reasoning, with which word, and   *)
(* whether it names a number of tokens.                                    *)
(***************************************************************************)
EXTENDS Naturals, Sequences

CONSTANTS Preferences      \* configured preferences, "inherit" for routes only

VARIABLES routedBy,        \* the resolved model: the form of its name and the preference
          policy,          \* the ReasoningPolicy
          asked,           \* what the client asked for
          upstream,        \* the provider that encodes
          wire,            \* what its request says
          stage            \* "named", "routed", "resolved", "encoded" or "rejected"

reasoningVars == <<routedBy, policy, asked, upstream, wire, stage>>

Efforts == 0..6
Control == {"default", "off", "on"}
Policies == [control : Control, effort : Efforts, budget : BOOLEAN]
Policy(control, effort, budget) == [control |-> control, effort |-> effort, budget |-> budget]

DefaultPolicy == Policy("default", 0, FALSE)
OffPolicy == Policy("off", 0, FALSE)

Wire(asks, word, budget) == [asks |-> asks, word |-> word, budget |-> budget]
Unsaid == Wire("unsaid", "none", FALSE)
Off == Wire("off", "none", FALSE)
On(word) == Wire("on", word, FALSE)
Budget == Wire("on", "none", TRUE)

(* The thinking object of a request, its budget, the effort of its output   *)
(* ("none" is 7) and whether it brings a thinking_config of its own.        *)
Requests == [thinking : {"absent", "untyped", "disabled", "enabled", "adaptive"},
             budget : BOOLEAN, effort : 0..7, classifier : BOOLEAN, own : BOOLEAN]

-----------------------------------------------------------------------------
(* Routing.                                                                 *)
Families == <<"fable", "opus", "haiku", "sonnet">>

(* _matched_route: the first family the name contains; 0 for none.          *)
MatchedRoute(words) ==
    IF words = {} THEN 0
    ELSE CHOOSE k \in 1..4 : Families[k] \in words /\ \A j \in 1..(k - 1) : Families[j] \notin words

(* _resolve_reasoning_preference                                            *)
RoutePreference(words, root, route) ==
    IF MatchedRoute(words) # 0 /\ route # "inherit" THEN route ELSE root

(* resolve: a name that spells its provider takes the root preference, and  *)
(* off for the ids that say so; an id of a provider that does not exist     *)
(* counts as an ordinary name.                                              *)
Forms == {"direct", "gateway", "gateway_off", "unknown_provider", "plain"}
DirectForms == {"direct", "gateway", "gateway_off"}

ResolvedPreference(form, words, root, route) ==
    CASE form = "gateway_off"            -> "off"
      [] form \in {"direct", "gateway"}  -> root
      [] form \notin DirectForms         -> RoutePreference(words, root, route)

-----------------------------------------------------------------------------
(* client_reasoning_policy                                                  *)
ThinkingControl(r) ==
    CASE r.thinking = "absent" -> "default"
      [] r.thinking = "disabled" -> "off"
      [] r.thinking \in {"enabled", "adaptive"} -> "on"
      [] r.thinking = "untyped" -> IF r.budget THEN "on" ELSE "default"

ClientEffort(r) == IF r.effort = 7 THEN 0 ELSE r.effort

ClientPolicy(r) ==
    LET control == ThinkingControl(r)
    IN  CASE r.effort = 7 -> OffPolicy
          [] r.effort # 7 /\ control = "on" ->
               Policy("on", ClientEffort(r), r.thinking # "absent" /\ r.budget)
          [] r.effort # 7 /\ control # "on" -> Policy(control, ClientEffort(r), FALSE)

EffortOf == [low |-> 2, medium |-> 3, high |-> 4, xhigh |-> 5, max |-> 6]

(* The members of ReasoningPreference.                                      *)
ASSUME PreferencesAssumption ==
    /\ {"off", "client"} \subseteq Preferences
    /\ Preferences \subseteq {"inherit", "off", "client"} \union DOMAIN EffortOf

(* A fault, for the checks only: the client's word counts more.             *)
ClientFirst(preference, r) ==
    IF ClientPolicy(r) # DefaultPolicy THEN ClientPolicy(r) ELSE OffPolicy

(* resolve_reasoning_policy                                                 *)
Resolve(preference, r) ==
    CASE preference = "off"    -> OffPolicy
      [] preference = "client" -> ClientPolicy(r)
      [] preference \in DOMAIN EffortOf -> Policy("on", EffortOf[preference], FALSE)

(* requests_reasoning                                                       *)
RequestsReasoning(p) == p.control # "off" /\ (p.control = "on" \/ p.effort # 0 \/ p.budget)

-----------------------------------------------------------------------------
(* The encoders.                                                            *)
AllEfforts    == <<"minimal", "low", "medium", "high", "xhigh", "max">>
LowMediumHigh == <<"low", "low", "medium", "high", "high", "high">>
LowToMax      == <<"low", "low", "medium", "high", "max", "max">>
KimiEfforts   == <<"low", "low", "high", "high", "max", "max">>
FireEfforts   == <<"low", "low", "medium", "high", "xhigh", "max">>
GeminiEfforts == <<"minimal", "low", "medium", "high", "high", "high">>
AlwaysHigh    == [k \in 1..6 |-> "high"]

Encoder(kind, table, off, on, budget) ==
    [kind |-> kind, table |-> table, off |-> off, on |-> on, budget |-> budget]

Named(table, off, on, budget) == Encoder("named", table, off, on, budget)
Silent   == Encoder("silent", <<>>, FALSE, "none", FALSE)
Object   == Encoder("object", AllEfforts, TRUE, "none", TRUE)
Thinking == Encoder("thinking", <<>>, TRUE, "none", FALSE)

(* OPENAI_CHAT_PROFILES                                                     *)
ProfileEncoders ==
    [mistral_codestral |-> Silent, opencode |-> Silent, opencode_go |-> Silent,
     vercel |-> Object, bedrock |-> Silent, siliconflow |-> Silent, huggingface |-> Silent,
     cohere |-> Named(AlwaysHigh, TRUE, "high", FALSE),
     wafer |-> Named(LowToMax, TRUE, "high", FALSE),
     kimi |-> Thinking,
     kimi_code |-> Named(KimiEfforts, TRUE, "max", FALSE),
     minimax |-> Silent,
     cerebras |-> Named(LowMediumHigh, TRUE, "medium", FALSE),
     groq |-> Named(LowMediumHigh, TRUE, "medium", FALSE),
     sambanova |-> Named(LowMediumHigh, FALSE, "medium", FALSE),
     fireworks |-> Named(FireEfforts, TRUE, "high", TRUE),
     zai |-> Thinking,
     ollama_cloud |-> Named(LowToMax, TRUE, "high", FALSE),
     ollama |-> Named(LowToMax, TRUE, "high", FALSE),
     llamacpp |-> Named(LowToMax, TRUE, "high", FALSE)]

LmStudio   == Named(LowMediumHigh, TRUE, "high", TRUE)
OpenRouter == Object
Cloudflare == Thinking

Google == {"gemini", "vertex"}
Special == {"lmstudio", "open_router", "cloudflare", "deepseek", "mistral", "nvidia_nim"}
Upstreams == DOMAIN ProfileEncoders \union Special \union Google

(* A fault, for the checks only: a profile without a word for "off".        *)
NamedWithoutOff(e, p) ==
    CASE p.budget /\ e.budget -> Budget
      [] ~(p.budget /\ e.budget) /\ p.effort # 0 -> On(e.table[p.effort])
      [] OTHER -> IF p.control = "on" THEN On(e.on) ELSE Unsaid

(* NamedEffortReasoning                                                     *)
NamedEncoded(e, p) ==
    CASE p.control = "off" -> IF e.off THEN Off ELSE Unsaid
      [] p.control # "off" /\ p.budget /\ e.budget -> Budget
      [] p.control # "off" /\ ~(p.budget /\ e.budget) /\ p.effort # 0 -> On(e.table[p.effort])
      [] OTHER -> IF p.control = "on" THEN On(e.on) ELSE Unsaid

(* ReasoningObject                                                          *)
ObjectEncoded(e, p) ==
    CASE p.control = "off" -> Off
      [] p.control # "off" /\ p.budget -> Budget
      [] p.control # "off" /\ ~p.budget /\ p.effort # 0 -> On(e.table[p.effort])
      [] OTHER -> IF p.control = "on" THEN On("none") ELSE Unsaid

(* ThinkingObjectReasoning, ChatTemplateReasoning                           *)
SwitchEncoded(p) ==
    CASE p.control = "off"    -> Off
      [] RequestsReasoning(p) -> On("none")
      [] OTHER                -> Unsaid

ByEncoder(e, p) ==
    CASE e.kind = "silent"   -> Unsaid
      [] e.kind = "named"    -> NamedEncoded(e, p)
      [] e.kind = "object"   -> ObjectEncoded(e, p)
      [] e.kind = "thinking" -> SwitchEncoded(p)

(* _apply_deepseek_chat_extras                                              *)
DeepSeekEncoded(p) ==
    CASE p.control = "off"                      -> Off
      [] p.control # "off" /\ p.effort \in 5..6 -> On("max")
      [] p.control # "off" /\ p.effort \in 1..4 -> On("high")
      [] OTHER                                  -> SwitchEncoded(p)

(* apply_mistral_reasoning_request_shape                                    *)
MistralEncoded(p) == IF SwitchEncoded(p).asks = "on" THEN On("high") ELSE SwitchEncoded(p)

(* apply_nim_request_options: a budget is named for an effort too.          *)
NimEncoded(p) ==
    IF RequestsReasoning(p) /\ (p.budget \/ p.effort # 0) THEN Budget ELSE SwitchEncoded(p)

(* GeminiReasoningEncoder                                                   *)
GeminiEncoded(p) ==
    CASE p.control = "off"                                     -> Off
      [] p.control # "off" /\ p.budget                         -> Budget
      [] p.control # "off" /\ ~p.budget /\ p.effort # 0        -> On(GeminiEfforts[p.effort])
      [] OTHER -> IF p.control = "on" THEN On("none") ELSE Unsaid

(* VertexReasoningEncoder                                                   *)
VertexEncoded(p) ==
    CASE p.control = "off"                                 -> Off
      [] p.control # "off" /\ (p.budget \/ p.effort # 0)   -> Budget
      [] OTHER -> IF p.control = "on" THEN On("none") ELSE Unsaid

Encoded(who, p) ==
    CASE who \in DOMAIN ProfileEncoders -> ByEncoder(ProfileEncoders[who], p)
      [] who = "lmstudio"    -> ByEncoder(LmStudio, p)
      [] who = "open_router" -> ByEncoder(OpenRouter, p)
      [] who = "cloudflare"  -> ByEncoder(Cloudflare, p)
      [] who = "deepseek"    -> DeepSeekEncoded(p)
      [] who = "mistral"     -> MistralEncoded(p)
      [] who = "nvidia_nim"  -> NimEncoded(p)
      [] who = "gemini"      -> GeminiEncoded(p)
      [] who = "vertex"      -> VertexEncoded(p)

-----------------------------------------------------------------------------
NoRoute == [form |-> "plain", preference |-> "client"]
NoRequest == [thinking |-> "absent", budget |-> FALSE, effort |-> 0, classifier |-> FALSE,
              own |-> FALSE]

ReasoningInit ==
    /\ routedBy = NoRoute /\ policy = DefaultPolicy /\ asked = NoRequest
    /\ upstream = "opencode" /\ wire = Unsaid /\ stage = "named"

ReasoningTypeOK ==
    /\ routedBy.form \in Forms /\ routedBy.preference \in Preferences \ {"inherit"}
    /\ policy \in Policies /\ asked \in Requests /\ upstream \in Upstreams
    /\ wire.asks \in {"unsaid", "off", "on"}
    /\ stage \in {"named", "routed", "resolved", "encoded", "rejected"}

(* ModelRouter.resolve, under any settings                                  *)
Route ==
    /\ stage = "named" /\ stage' = "routed"
    /\ \E form \in Forms, words \in SUBSET {"fable", "opus", "haiku", "sonnet"},
          root \in Preferences \ {"inherit"}, route \in Preferences :
         routedBy' = [form |-> form,
                      preference |-> ResolvedPreference(form, words, root, route)]
    /\ UNCHANGED <<policy, asked, upstream, wire>>

(* resolve_messages_request, then the policy of the safety classifier       *)
ResolvePolicy ==
    /\ stage = "routed" /\ stage' = "resolved"
    /\ \E r \in Requests :
         /\ asked' = r
         /\ policy' = IF r.classifier THEN OffPolicy ELSE Resolve(routedBy.preference, r)
    /\ UNCHANGED <<routedBy, upstream, wire>>

(* The provider's body is built.  Google keeps a thinking_config of the     *)
(* caller, and refuses it next to any other control.                        *)
EncodeReasoning ==
    /\ stage = "resolved"
    /\ \E who \in Upstreams :
         /\ upstream' = who
         /\ IF who \in Google /\ asked.own
            THEN /\ stage' = IF policy = DefaultPolicy THEN "encoded" ELSE "rejected"
                 /\ wire' = IF policy = DefaultPolicy THEN On("none") ELSE Unsaid
            ELSE stage' = "encoded" /\ wire' = Encoded(who, policy)
    /\ UNCHANGED <<routedBy, policy, asked>>

ReasoningNext == Route \/ ResolvePolicy \/ EncodeReasoning

ReasoningSpec == ReasoningInit /\ [][ReasoningNext]_reasoningVars

-----------------------------------------------------------------------------
(* Off is off: an id without thinking, a configured "off", a client that    *)
(* disables it where its word counts, and a safety classifier each keep     *)
(* every provider from being asked to reason.                               *)
MustBeOff ==
    \/ routedBy.form = "gateway_off" \/ routedBy.preference = "off" \/ asked.classifier
    \/ routedBy.preference = "client" /\ (asked.thinking = "disabled" \/ asked.effort = 7)

OffIsOff == stage = "encoded" /\ MustBeOff => wire.asks # "on"

(* A configured effort is asked for of every provider that has words for    *)
(* it, whatever the client says; and nothing is said when nobody asked.     *)
Mute(who) == who \in DOMAIN ProfileEncoders /\ ProfileEncoders[who] = Silent

SaidAsMeant ==
    stage = "encoded" =>
       /\ routedBy.preference \in DOMAIN EffortOf /\ ~asked.classifier /\ ~Mute(upstream)
          /\ routedBy.form # "gateway_off" => wire.asks = "on"
       /\ policy = DefaultPolicy /\ ~(asked.own /\ upstream \in Google) => wire = Unsaid

(* More effort is never said with a weaker word.                            *)
Rank == [none |-> 0, minimal |-> 1, low |-> 2, medium |-> 3, high |-> 4, xhigh |-> 5, max |-> 6]

EffortsKeepOrder ==
    stage = "encoded" /\ policy.effort \in 1..5 /\ ~(asked.own /\ upstream \in Google) =>
       Rank[wire.word] <= Rank[Encoded(upstream, [policy EXCEPT !.effort = @ + 1]).word]

ReasoningHonoured == OffIsOff /\ SaidAsMeant /\ EffortsKeepOrder
=============================================================================
