---------------------------- MODULE ModelCatalog ----------------------------
(***************************************************************************)
(* The models a client may choose: what providers list is discovered when  *)
(* the server starts, in the background, on demand and by a test of one    *)
(* provider, cached, and offered next to the configured models             *)
(* (providers/runtime/discovery.py, model_cache.py,                        *)
(* runtime/provider_manager.py, api/model_catalog.py).                     *)
(*                                                                         *)
(* A list of models says of each whether it can think: "can", "cannot" or  *)
(* "unknown".  Answers are gathered before any is stored, so the requests  *)
(* of one refresh end in one step; what a provider lists may change from   *)
(* one request to the next.                                                *)
(***************************************************************************)
EXTENDS Naturals, Sequences, SequencesExt, FiniteSets

CONSTANTS
    ProviderOrder,   \* the provider catalog
    LocalProviders,  \* those that run on the user's machine
    SettingsSeen,    \* settings: what is configured, and the models referred to
    Lists,           \* what a provider may list: functions from models
    MaxReplacements, MaxRefreshes, MaxTests   \* bounds

ASSUME ModelCatalogAssumption ==
    /\ \A s \in SettingsSeen : s.usable \subseteq ToSet(ProviderOrder)
    /\ \A list \in Lists : \A m \in DOMAIN list : list[m] \in {"can", "cannot", "unknown"}
    /\ MaxReplacements \in Nat /\ MaxRefreshes \in Nat /\ MaxTests \in Nat

VARIABLES
    inForce,      \* the settings of the current generation
    currentId,    \* its number
    managerPhase, \* of the manager, with its start
    modelCache,   \* provider -> its list
    background,   \* the refresh of _refresh_task
    requested,    \* the refresh an administrator waits for
    tested,       \* the provider test under way
    publishing,   \* the settings a replacement is about to publish
    report,       \* what the last such refresh returned
    refreshes, tests   \* counters of the bounds

catalogVars == <<inForce, currentId, managerPhase, modelCache, background, requested,
                 tested, publishing, report, refreshes, tests>>

CatalogProviders == ToSet(ProviderOrder)

NoRefresh == [at |-> "none", generation |-> 0, onlyMissing |-> FALSE, asked |-> {}]
NoTest == [at |-> "none", generation |-> 0, provider |-> "", list |-> <<>>]
NoReport == [generation |-> 0, asked |-> {}, refreshed |-> {}, failed |-> {}]
NoSettings == [usable |-> {}, refs |-> <<>>]

CatalogInit ==
    /\ inForce \in SettingsSeen /\ currentId = 1 /\ managerPhase = "starting"
    /\ modelCache = [p \in {} |-> <<>>]
    /\ background = NoRefresh /\ requested = NoRefresh /\ tested = NoTest
    /\ publishing = NoSettings /\ report = NoReport /\ refreshes = 0 /\ tests = 0

-----------------------------------------------------------------------------
(* model_cache_provider_ids_for_settings: the scope of the cache, which is *)
(* replaced together with the settings in force.                           *)
Scope == inForce.usable

ReferencedProviders(s) == {s.refs[i][1] : i \in DOMAIN s.refs}

(* model_list_provider_ids_for_settings: a local provider is asked only if *)
(* a configured model refers to it.                                        *)
WorthAsking(s) ==
    {p \in s.usable : p \notin LocalProviders \/ p \in ReferencedProviders(s)}

(* A fault, for the checks only: what a retired generation lists is kept.  *)
AnyProvider(p) == TRUE

InScope(p) == p \in Scope

Place(p) == CHOOSE i \in DOMAIN ProviderOrder : ProviderOrder[i] = p

(* cache_model_infos                                                       *)
CacheLists(lists) ==
    LET kept == {p \in DOMAIN lists : InScope(p)}
    IN  modelCache' = [p \in DOMAIN modelCache \union kept |->
                          IF p \in kept THEN lists[p] ELSE modelCache[p]]

(* The answers to a refresh.  One that was cancelled ends it: the lists    *)
(* before it in the catalog are stored, and the refresh raises.            *)
FailedAnswer == [failed |-> "failed"]
CancelledAnswer == [cancelled |-> "cancelled"]
Answers(providers) == [providers -> Lists \union {FailedAnswer, CancelledAnswer}]

Raises(answers) == \E p \in DOMAIN answers : answers[p] = CancelledAnswer

StoredOf(answers) ==
    {p \in DOMAIN answers : answers[p] \in Lists
        /\ \A q \in DOMAIN answers : answers[q] = CancelledAnswer => Place(p) < Place(q)}

FailedOf(answers) == {p \in DOMAIN answers : answers[p] = FailedAnswer}

StoreAnswers(answers) == CacheLists([p \in StoredOf(answers) |-> answers[p]])

-----------------------------------------------------------------------------
(* The server starts when the providers that models refer to have been     *)
(* asked; the others are asked in the background.                          *)
StartServing(answers) ==
    IF Raises(answers) THEN managerPhase' = "closing" /\ UNCHANGED background
    ELSE /\ managerPhase' = "serving"
         /\ background' = [NoRefresh EXCEPT !.at = "created", !.generation = currentId,
                                            !.onlyMissing = TRUE]

WarmReferenced ==
    /\ managerPhase = "starting"
    /\ \E answers \in Answers(ReferencedProviders(inForce)) :
          StoreAnswers(answers) /\ StartServing(answers)
    /\ UNCHANGED <<inForce, currentId, requested, tested, publishing, report, refreshes,
                   tests>>

Asking(refresh) ==
    [refresh EXCEPT !.at = "asking",
        !.asked = {p \in WorthAsking(inForce) :
                      refresh.onlyMissing => p \notin DOMAIN modelCache}]

BackgroundAsks ==
    /\ background.at = "created"
    /\ background' = Asking(background)
    /\ UNCHANGED <<inForce, currentId, managerPhase, modelCache, requested, tested,
                   publishing, report, refreshes, tests>>

BackgroundEnds ==
    /\ background.at = "asking"
    /\ \E answers \in Answers(background.asked) : StoreAnswers(answers)
    /\ background' = NoRefresh
    /\ UNCHANGED <<inForce, currentId, managerPhase, requested, tested, publishing,
                   report, refreshes, tests>>

(* _replace_lock                                                           *)
LockFree == requested = NoRefresh /\ publishing = NoSettings

(* A fault, for the checks only: the background refresh goes on.           *)
GoesOn == background

(* _cancel_refresh: what is cancelled stores nothing any more.             *)
CancelledRefresh == NoRefresh

RefreshNow ==
    /\ managerPhase = "serving" /\ LockFree /\ refreshes < MaxRefreshes
    /\ refreshes' = refreshes + 1
    /\ background' = CancelledRefresh
    /\ requested' = Asking([NoRefresh EXCEPT !.generation = currentId])
    /\ UNCHANGED <<inForce, currentId, managerPhase, modelCache, tested, publishing,
                   report, tests>>

(* A fault, for the checks only: only what could be listed is reported.    *)
NobodyFailed(answers) == {}

ReportedFailed(answers) == FailedOf(answers)

RefreshReturns ==
    /\ requested.at = "asking" /\ requested' = NoRefresh
    /\ \E answers \in Answers(requested.asked) :
          /\ StoreAnswers(answers)
          /\ report' = IF Raises(answers) THEN report
                       ELSE [generation |-> currentId, asked |-> requested.asked,
                             refreshed |-> StoredOf(answers),
                             failed |-> ReportedFailed(answers)]
    /\ UNCHANGED <<inForce, currentId, managerPhase, background, tested, publishing,
                   refreshes, tests>>

-----------------------------------------------------------------------------
(* replace: the new generation is published with its scope in one step; a  *)
(* commit that fails publishes nothing, and leaves the refresh cancelled.  *)
BeginReplacement ==
    /\ managerPhase = "serving" /\ LockFree /\ currentId <= MaxReplacements
    /\ publishing' \in SettingsSeen
    /\ background' = CancelledRefresh
    /\ UNCHANGED <<inForce, currentId, managerPhase, modelCache, requested, tested,
                   report, refreshes, tests>>

Publish ==
    /\ publishing # NoSettings /\ publishing' = NoSettings
    /\ inForce' = publishing /\ currentId' = currentId + 1
    /\ modelCache' = [p \in DOMAIN modelCache \intersect publishing.usable |-> modelCache[p]]
    /\ background' = [NoRefresh EXCEPT !.at = "created", !.generation = currentId + 1]
    /\ UNCHANGED <<managerPhase, requested, tested, report, refreshes, tests>>

ReplacementFails ==
    /\ publishing # NoSettings /\ publishing' = NoSettings
    /\ UNCHANGED <<inForce, currentId, managerPhase, modelCache, background, requested,
                   tested, report, refreshes, tests>>

-----------------------------------------------------------------------------
(* test_provider holds a lease on the generation it began with.            *)
TestProvider ==
    /\ managerPhase = "serving" /\ tested = NoTest /\ tests < MaxTests /\ tests' = tests + 1
    /\ \E p \in CatalogProviders :
          tested' = [NoTest EXCEPT !.at = "listing", !.generation = currentId,
                                   !.provider = p]
    /\ UNCHANGED <<inForce, currentId, managerPhase, modelCache, background, requested,
                   publishing, report, refreshes>>

(* The lease is given back before the list is stored: the last lease of a  *)
(* retired generation waits for its cleanup, unless the manager closes.    *)
TestListed ==
    /\ tested.at = "listing"
    /\ \/ tested' = NoTest /\ UNCHANGED modelCache
       \/ \E list \in Lists :
            IF tested.generation # currentId /\ managerPhase = "serving"
            THEN /\ tested' = [tested EXCEPT !.at = "releasing", !.list = list]
                 /\ UNCHANGED modelCache
            ELSE CacheLists([p \in {tested.provider} |-> list]) /\ tested' = NoTest
    /\ UNCHANGED <<inForce, currentId, managerPhase, background, requested, publishing,
                   report, refreshes, tests>>

TestStored ==
    /\ tested.at = "releasing"
    /\ CacheLists([p \in {tested.provider} |-> tested.list])
    /\ tested' = NoTest
    /\ UNCHANGED <<inForce, currentId, managerPhase, background, requested, publishing,
                   report, refreshes, tests>>

(* close: waits for the lock, then for every lease and cleanup; a test is  *)
(* resumed before it is.                                                   *)
BeginClose ==
    /\ managerPhase = "serving" /\ LockFree
    /\ managerPhase' = "closing" /\ background' = CancelledRefresh
    /\ UNCHANGED <<inForce, currentId, modelCache, requested, tested, publishing,
                   report, refreshes, tests>>

EndClose ==
    /\ managerPhase = "closing" /\ tested = NoTest /\ background = NoRefresh
    /\ managerPhase' = "closed" /\ modelCache' = [p \in {} |-> <<>>]
    /\ UNCHANGED <<inForce, currentId, background, requested, tested, publishing,
                   report, refreshes, tests>>

CatalogNext ==
    \/ WarmReferenced \/ BackgroundAsks \/ BackgroundEnds \/ RefreshNow \/ RefreshReturns
    \/ BeginReplacement \/ Publish \/ ReplacementFails
    \/ TestProvider \/ TestListed \/ TestStored \/ BeginClose \/ EndClose

CatalogSpec == CatalogInit /\ [][CatalogNext]_catalogVars

-----------------------------------------------------------------------------
(* build_models_list_response.  A model is offered under two ids, one of   *)
(* which keeps it from thinking; one that cannot think has that one only.  *)
KnownSupport(ref) ==
    IF ref[1] \in DOMAIN modelCache /\ ref[2] \in DOMAIN modelCache[ref[1]]
    THEN modelCache[ref[1]][ref[2]] ELSE "unknown"

Variants(ref) ==
    (IF KnownSupport(ref) # "cannot" THEN <<<<"thinking", ref>>>> ELSE <<>>)
        \o <<<<"no thinking", ref>>>>

DiscoveredRefs ==
    UNION {{p} \X DOMAIN modelCache[p] : p \in DOMAIN modelCache}

AppendUnique(ids, id) == IF Contains(ids, id) THEN ids ELSE Append(ids, id)

OfferedModels ==
    FoldLeft(AppendUnique, <<>>,
        FlattenSeq([i \in DOMAIN inForce.refs |-> Variants(inForce.refs[i])])
        \o FlattenSeq(LET found == SetToSeq(DiscoveredRefs)
                      IN  [i \in DOMAIN found |-> Variants(found[i])])
        \o <<<<"claude", <<>>>>>>)

-----------------------------------------------------------------------------
RefreshType(refresh) ==
    /\ refresh.at \in {"none", "created", "asking"}
    /\ refresh.generation \in 0 .. currentId /\ refresh.asked \subseteq CatalogProviders

CatalogTypeOK ==
    /\ inForce \in SettingsSeen /\ publishing \in SettingsSeen \union {NoSettings}
    /\ currentId \in 1 .. MaxReplacements + 1
    /\ managerPhase \in {"starting", "serving", "closing", "closed"}
    /\ \A p \in DOMAIN modelCache : p \in CatalogProviders /\ modelCache[p] \in Lists
    /\ RefreshType(background) /\ RefreshType(requested)
    /\ tested.at \in {"none", "listing", "releasing"}
    /\ report.refreshed \subseteq CatalogProviders

(* Only configured providers are offered, whatever is stored late by a     *)
(* test of a generation that was replaced; nothing outlives the manager.   *)
CacheInScope ==
    /\ DOMAIN modelCache \subseteq Scope
    /\ managerPhase = "closed" => modelCache = [p \in {} |-> <<>>]

(* At most one refresh runs, for the settings in force: it cannot store    *)
(* lists over those of a later one (_cancel_refresh, _replace_lock).       *)
RefreshCurrent ==
    /\ background # NoRefresh => requested = NoRefresh /\ publishing = NoSettings
    /\ \A refresh \in {background, requested} \ {NoRefresh} :
          refresh.generation = currentId /\ managerPhase = "serving"
          /\ refresh.asked \subseteq Scope

(* An explicit refresh accounts for every provider it asked, and what it   *)
(* says it refreshed is on offer until the next generation.                *)
ReportExact ==
    /\ report.refreshed \union report.failed = report.asked
    /\ report.refreshed \intersect report.failed = {}
    /\ report.generation = currentId /\ managerPhase # "closed" =>
          report.refreshed \subseteq DOMAIN modelCache

(* What a client may choose: every configured model, listed or not, and    *)
(* every model discovered, each once; a model is withheld in its thinking  *)
(* variant only if its provider says that it cannot think.                 *)
OffersExact ==
    LET refs == ToSet(inForce.refs) \union DiscoveredRefs
    IN  /\ IsInjective(OfferedModels)
        /\ {id[2] : id \in {i \in ToSet(OfferedModels) : i[1] = "no thinking"}} = refs
        /\ refs \ {id[2] : id \in {i \in ToSet(OfferedModels) : i[1] = "thinking"}}
             = {ref \in refs : /\ ref[1] \in DOMAIN modelCache
                               /\ ref[2] \in DOMAIN modelCache[ref[1]]
                               /\ modelCache[ref[1]][ref[2]] = "cannot"}
=============================================================================
