--------------------------- MODULE ProviderChoices ---------------------------
(***************************************************************************)
(* What decides which provider, model, key and setting a request meets and *)
(* how much it reasons, side by side: the configuration, the models on     *)
(* offer, the key pool of a provider, the policy for its failures and the  *)
(* reasoning policy.  A behaviour is a behaviour of the one that part      *)
(* names; the others stay as they began.                                   *)
(***************************************************************************)
EXTENDS AdminConfig, ModelCatalog, CredentialPool, FailurePolicy, ReasoningPolicies

VARIABLE part   \* what this behaviour is about

choiceVars == <<part, configVars, catalogVars, poolVars, failureVars, reasoningVars>>

ChoicesInit == ConfigInit /\ CatalogInit /\ PoolInit /\ FailureInit /\ ReasoningInit

ChoicesNext ==
    /\ UNCHANGED part
    /\ IF part = "config" THEN ConfigNext ELSE UNCHANGED configVars
    /\ IF part = "catalog" THEN CatalogNext ELSE UNCHANGED catalogVars
    /\ IF part = "pool" THEN PoolNext ELSE UNCHANGED poolVars
    /\ IF part = "failure" THEN FailureNext ELSE UNCHANGED failureVars
    /\ IF part = "reasoning" THEN ReasoningNext ELSE UNCHANGED reasoningVars

ChoicesSpec == ChoicesInit /\ [][ChoicesNext]_choiceVars

-----------------------------------------------------------------------------
(* What was stored is what runs, and what was not submitted stays; only    *)
(* what is configured and was listed last is on offer; keys are given up   *)
(* when they fail and no other way; a failure says what it was; and the    *)
(* preference that counts is the one a provider is told                    *)
(* (config/admin/, runtime/provider_manager.py, key_rotation.py,           *)
(* failure_policy.py, application/reasoning.py and the encoders).          *)
ChoicesSound ==
    /\ part = "config" => ConfigSound
    /\ part = "catalog" => CacheInScope /\ RefreshCurrent /\ ReportExact
    /\ part = "pool" => KeysServed
    /\ part = "failure" => FailuresHonest
    /\ part = "reasoning" => ReasoningHonoured
=============================================================================
