---------------------------- MODULE CredentialPool ----------------------------
(***************************************************************************)
(* The key pool of an OpenAI-compatible provider with several API keys     *)
(* (providers/openai_chat/key_rotation.py) and the facade that repeats a   *)
(* call with another key: concurrent calls share the cooldowns, the round  *)
(* robin cursor and the SDK client of each key.  Selecting a key, looking  *)
(* up its client and starting the call is one step, because nothing        *)
(* awaits in between; so is recording a failure and selecting again.       *)
(* A cooldown is what is left of it: the code compares only its end with   *)
(* the time, and time jumps to the end of the next cooldown.               *)
(***************************************************************************)
EXTENDS Naturals, FiniteSets, FiniteSetsExt

CONSTANTS Keys,          \* the keys, 0 .. n - 1 in configuration order
          Strategies,    \* the credential strategies considered
          PoolCallers,   \* calls of the facade, chat completions or model lists
          RetryAfters,   \* the retry-after headers considered, in seconds
          MaxKeyFailures \* bound on the failures of one key

ASSUME PoolAssumption ==
    /\ IsFiniteSet(Keys) /\ Keys # {} /\ Keys = 0 .. Cardinality(Keys) - 1
    /\ RetryAfters \subseteq Nat /\ MaxKeyFailures \in Nat

VARIABLES strategy, cooling, failed, cursor,  \* the pool
          keyClients,    \* keys with a cached SDK client
          retired,       \* close has been called
          unclosed,      \* clients taken out of the cache and not closed yet
          dropped,       \* clients that nothing will close any more
          call,          \* call[c]: where call c is, its key and its attempts
          passedOver,    \* history: selections of other keys since a key could be had
          tried, cooled, disturbed  \* history of each call

poolVars == <<strategy, cooling, failed, cursor, keyClients, retired, unclosed,
              dropped, call, passedOver, tried, cooled, disturbed>>

CallStates == {"new", "calling", "done", "raised", "exhausted"}

PoolTypeOK ==
    /\ strategy \in Strategies
    /\ cooling \in [Keys -> Nat] /\ failed \in [Keys -> 0 .. MaxKeyFailures]
    /\ cursor \in Keys /\ retired \in BOOLEAN
    /\ keyClients \subseteq Keys /\ unclosed \subseteq Keys /\ dropped \subseteq Keys
    /\ call \in [PoolCallers -> [at : CallStates, key : Keys, attempts : 0 .. Cardinality(Keys)]]
    /\ passedOver \in [Keys -> Nat]
    /\ tried \in [PoolCallers -> SUBSET Keys] /\ cooled \in [PoolCallers -> SUBSET Keys]
    /\ disturbed \in [PoolCallers -> BOOLEAN]

PoolInit ==
    /\ strategy \in Strategies
    /\ cooling = [k \in Keys |-> 0] /\ failed = [k \in Keys |-> 0]
    /\ cursor = 0
    /\ keyClients = {} /\ retired = FALSE /\ unclosed = {} /\ dropped = {}
    /\ call = [c \in PoolCallers |-> [at |-> "new", key |-> 0, attempts |-> 0]]
    /\ passedOver = [k \in Keys |-> 0]
    /\ tried = [c \in PoolCallers |-> {}] /\ cooled = [c \in PoolCallers |-> {}]
    /\ disturbed = [c \in PoolCallers |-> FALSE]

-----------------------------------------------------------------------------
(* The cooldown after a failure, which depends on its kind: a rejected key, *)
(* a retryable failure of the provider, which backs off, or either with a   *)
(* retry-after header.                                                      *)
\* 2 ^ (failures - 1), at most a minute
Backoff(failures) == IF failures <= 6 THEN <<1, 2, 4, 8, 16, 32>>[failures] ELSE 60

Cooldowns(failures) == {300, Backoff(failures)} \union {Max({1, r}) : r \in RetryAfters}

Healthy(cool) == {k \in Keys : cool[k] = 0}

(* A fault, for the checks only: the cursor is not looked at.               *)
LowestKey(healthy) == {Min(healthy)}

(* The healthy key first reached from the cursor, going round.              *)
Distance(k) == IF k >= cursor THEN k - cursor ELSE k + Cardinality(Keys) - cursor

(* Where the cursor goes when a key is taken.                              *)
After(k) == IF k + 1 < Cardinality(Keys) THEN k + 1 ELSE 0

RoundRobin(healthy) ==
    {k \in healthy : \A other \in healthy : Distance(k) <= Distance(other)}

(* With no healthy key the one that comes back first, cooling or not.       *)
NextBack(cool) ==
    {Min({k \in Keys : \A other \in Keys : cool[k] <= cool[other]})}

Selectable(cool) ==
    LET healthy == Healthy(cool)
    IN  IF healthy = {} THEN NextBack(cool)
        ELSE CASE strategy = "sequential"  -> {Min(healthy)}
               [] strategy = "round_robin" -> RoundRobin(healthy)
               [] OTHER                    -> healthy

(* Call c takes a key of the pool as it is with the cooldowns cool.         *)
Select(c, cool) ==
    \E k \in Selectable(cool) :
       /\ call' = [call EXCEPT ![c] = [at |-> "calling", key |-> k,
                                       attempts |-> call[c].attempts + 1]]
       /\ cursor' = IF strategy = "round_robin" /\ Healthy(cool) # {}
                    THEN After(k) ELSE cursor
       /\ keyClients' = keyClients \union {k}
       /\ passedOver' = [j \in Keys |-> IF \/ strategy # "round_robin"
                                           \/ j = k \/ j \notin Healthy(cool)
                                        THEN 0 ELSE passedOver[j] + 1]
       /\ tried' = [tried EXCEPT ![c] = @ \union {k}]
       /\ cooled' = [cooled EXCEPT ![c] = @ \union (Keys \ Healthy(cool))]

StartCall(c) ==
    /\ call[c].at = "new" /\ ~retired
    /\ Select(c, cooling)
    /\ UNCHANGED <<strategy, cooling, failed, retired, unclosed, dropped, disturbed>>

EndCall(c, how) ==
    /\ call' = [call EXCEPT ![c] = [at |-> how, key |-> 0, attempts |-> 0]]
    /\ IF how = "exhausted"
       THEN UNCHANGED <<tried, cooled>>
       ELSE /\ tried' = [tried EXCEPT ![c] = {}]
            /\ cooled' = [cooled EXCEPT ![c] = {}]
    /\ UNCHANGED <<cursor, keyClients, passedOver>>

(* A success makes its key healthy for everybody, whoever failed with it.   *)
RecordSuccess(k) ==
    /\ cooling' = [cooling EXCEPT ![k] = 0]
    /\ failed' = [failed EXCEPT ![k] = 0]

CallSucceeds(c) ==
    /\ call[c].at = "calling"
    /\ RecordSuccess(call[c].key)
    /\ EndCall(c, "done")
    /\ disturbed' = [d \in PoolCallers |->
          /\ d # c
          /\ disturbed[d] \/ (call[c].key \in tried[d] /\ cooling[call[c].key] > 0)]
    /\ UNCHANGED <<strategy, retired, unclosed, dropped>>

CooledBy(k, cooldown) == [cooling EXCEPT ![k] = Max({@, cooldown})]

(* A fault, for the checks only: one attempt more than there are keys.      *)
OneTooManyKeys(c) == call[c].attempts <= Cardinality(Keys)
(* ... or one less.                                                         *)
OneKeyLess(c) == call[c].attempts < Cardinality(Keys) - 1

MayTryAgain(c) == call[c].attempts < Cardinality(Keys)

(* A failure that another key may not have: the next key is tried at once,  *)
(* as many times as there are keys.                                         *)
CallFallsBack(c) ==
    /\ call[c].at = "calling" /\ failed[call[c].key] < MaxKeyFailures
    /\ \E cooldown \in Cooldowns(failed[call[c].key] + 1) :
          /\ cooling' = CooledBy(call[c].key, cooldown)
          /\ failed' = [failed EXCEPT ![call[c].key] = @ + 1]
          /\ IF MayTryAgain(c)
             THEN Select(c, CooledBy(call[c].key, cooldown)) ELSE EndCall(c, "exhausted")
    /\ UNCHANGED <<strategy, retired, unclosed, dropped, disturbed>>

(* A failure every key would have, or a cancellation, is raised as it is.   *)
CallRaises(c) ==
    /\ call[c].at = "calling"
    /\ EndCall(c, "raised")
    /\ UNCHANGED <<strategy, cooling, failed, retired, unclosed, dropped, disturbed>>

(* close: called when no call is left (a generation is drained first).  The *)
(* clients leave the cache before the first is closed, and one that fails   *)
(* to close ends the loop.                                                  *)
CloseClients ==
    /\ ~retired /\ \A c \in PoolCallers : call[c].at # "calling"
    /\ retired' = TRUE /\ unclosed' = keyClients /\ keyClients' = {}
    /\ UNCHANGED <<strategy, cooling, failed, cursor, dropped, call,
                   passedOver, tried, cooled, disturbed>>

CloseClient(k) ==
    /\ k \in unclosed
    /\ \/ unclosed' = unclosed \ {k} /\ UNCHANGED dropped
       \/ unclosed' = {} /\ dropped' = unclosed
    /\ UNCHANGED <<strategy, cooling, failed, cursor, keyClients, retired, call,
                   passedOver, tried, cooled, disturbed>>

(* The time passes until the next cooldown is over.                         *)
CooldownEnds ==
    LET left == {cooling[k] : k \in Keys \ Healthy(cooling)}
        over == {k \in Keys : left # {} /\ cooling[k] = Min(left)}
    IN  /\ left # {}
        /\ cooling' = [k \in Keys |-> IF cooling[k] = 0 THEN 0 ELSE cooling[k] - Min(left)]
        /\ disturbed' = [d \in PoolCallers |->
              disturbed[d] \/ (call[d].at = "calling" /\ tried[d] \intersect over # {})]
        /\ UNCHANGED <<strategy, failed, cursor, keyClients, retired, unclosed,
                       dropped, call, passedOver, tried, cooled>>

PoolNext ==
    \/ \E c \in PoolCallers : \/ StartCall(c) \/ CallSucceeds(c)
                          \/ CallFallsBack(c) \/ CallRaises(c)
    \/ CloseClients \/ CooldownEnds
    \/ \E k \in Keys : CloseClient(k)

PoolSpec == PoolInit /\ [][PoolNext]_poolVars

-----------------------------------------------------------------------------
(* A call that gives up after as many attempts as there are keys has tried  *)
(* every key that was not cooling when it selected, unless a key it had     *)
(* failed with came back meanwhile, by the success of another call or by    *)
(* the end of its cooldown, and was tried a second time in its place        *)
(* (_call_with_fallback).                                                   *)
ExhaustionIsHonest ==
    \A c \in PoolCallers : call[c].at = "exhausted" /\ ~disturbed[c]
                          => Keys \ tried[c] \subseteq cooled[c]

(* Under round robin a key that stays healthy is taken within one round,    *)
(* whatever the other keys fail with and however many calls share the       *)
(* cursor (_select_round_robin).                                            *)
NoStarvedKey == \A k \in Keys : passedOver[k] < Cardinality(Keys)

(* The pool serves its keys: both of the above.                             *)
KeysServed == ExhaustionIsHonest /\ NoStarvedKey
=============================================================================
