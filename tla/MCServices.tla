----------------------------- MODULE MCServices -----------------------------
(* The services of one process that do not act on each other, side by side: *)
(* a behaviour is a behaviour of one of them, the others stay as they began. *)
(* What is checked here is checked for every service; sharing a run costs   *)
(* the sum of their states, not the product.                                *)
EXTENDS StreamOpening, SlidingWindow, ResponseStream,
        ServerLifecycle, SessionPersistence, StoredConversation, ManagedSessions,
        ManagedMessages, VoiceNotes, ProviderGenerations, PlatformRuntime,
        PlatformDelivery, TLC

CONSTANTS c1, c2, c3, c4, a1, a2, x1, x2, r1, r2, s0, f1, f2, f3, m1, m2, m3

VARIABLE part   \* the service this behaviour is about

MCConversations == {[r \in Runs |-> s0], r1 :> Fresh @@ r2 :> s0}
MCAdmins == {a1, a2}
MCClosers == {x1, x2}

(* One admin operation and one shutdown may be cancelled.                   *)
OneOfEach == {a1, x1}

MCDoomed == <<m1, m2, m3>>

MCMessageOf == f1 :> m1 @@ f2 :> m2 @@ f3 :> m1

Parts == {"opening", "window", "response", "server", "file", "stored",
          "sessions", "managed", "voice", "generations", "platform", "delivery"}

servicesVars ==
    <<part, openingVars, vars, responseVars, serverVars, fileVars,
      storedVars, sessionVars, managedVars, voiceVars, generationsVars,
      platformVars, deliveryVars>>

ServicesInit ==
    /\ part \in Parts
    /\ OpeningInit /\ (part # "opening" => adapter = "plain")
    /\ Init
    /\ ResponseInit /\ (part # "response" => wire = "responses")
    /\ ServerInit /\ (part # "server" => desktop)
    /\ FileInit /\ StoredInit
    /\ SessionsInit /\ (part # "sessions" => \A r \in Runs : resumed[r] = s0)
    /\ ManagedInit /\ VoiceInit /\ GenerationsInit
    /\ PlatformInit /\ (part # "platform" => platform = "discord")
    /\ DeliveryInit /\ (part # "delivery" => messenger = "discord" /\ job = "send")

ServicesNext ==
    /\ UNCHANGED part
    /\ IF part = "opening" THEN OpeningNext ELSE UNCHANGED openingVars
    /\ IF part = "window" THEN Next ELSE UNCHANGED vars
    /\ IF part = "response" THEN ResponseNext ELSE UNCHANGED responseVars
    /\ IF part = "server" THEN ServerNext ELSE UNCHANGED serverVars
    /\ IF part = "file" THEN FileNext ELSE UNCHANGED fileVars
    /\ IF part = "stored" THEN StoredNext ELSE UNCHANGED storedVars
    /\ IF part = "sessions" THEN SessionsNext ELSE UNCHANGED sessionVars
    /\ IF part = "managed" THEN ManagedNext ELSE UNCHANGED managedVars
    /\ IF part = "voice" THEN VoiceNext ELSE UNCHANGED voiceVars
    /\ IF part = "generations" THEN GenerationsNext ELSE UNCHANGED generationsVars
    /\ IF part = "platform" THEN PlatformNext ELSE UNCHANGED platformVars
    /\ IF part = "delivery" THEN DeliveryNext ELSE UNCHANGED deliveryVars

OwnVars ==
    CASE part = "opening"  -> openingVars
      [] part = "window"   -> vars
      [] part = "response" -> responseVars
      [] part = "server"   -> serverVars
      [] part = "file"     -> fileVars
      [] part = "stored"   -> storedVars
      [] part = "sessions" -> sessionVars
      [] part = "managed"  -> managedVars
      [] part = "voice"    -> voiceVars
      [] part = "generations" -> generationsVars
      [] part = "platform" -> platformVars
      [] part = "delivery" -> deliveryVars

OwnProgress ==
    /\ UNCHANGED part
    /\ \/ part = "opening"  /\ \E o \in Openings : OpeningSteps(o)
       \/ part = "window"   /\ (Tick \/ \E c \in Callers : Round(c) \/ Wake(c))
       \/ part = "response" /\ ResponseProgress
       \/ part = "server"   /\ ServerProgress
       \/ part = "file"     /\ SavesGoOn
       \/ part = "stored"   /\ StoredProgress
       \/ part = "sessions" /\ Progress
       \/ part = "managed"  /\ ManagedProgress
       \/ part = "voice"    /\ VoiceProgress
       \/ part = "generations" /\ GenerationsProgress
       \/ part = "platform" /\ PlatformProgress
       \/ part = "delivery" /\ DeliveryProgress

(* The service of a behaviour is as fair as its own specification says.     *)
ServicesFairness == WF_OwnVars(OwnProgress)

ServicesSpec == ServicesInit /\ [][ServicesNext]_servicesVars /\ ServicesFairness

StoredOnly == part = "stored" /\ ServicesSpec

-----------------------------------------------------------------------------
(* Each service keeps its types; the others have not moved.                 *)
ServicesTypeOK ==
    CASE part = "opening"  -> OpeningTypeOK
      [] part = "window"   -> TypeOK
      [] part = "response" -> ResponseTypeOK
      [] part = "server"   -> ServerTypeOK
      [] part = "file"     -> FileTypeOK
      [] part = "stored"   -> StoredTypeOK
      [] part = "sessions" -> SessionsTypeOK
      [] part = "managed"  -> ManagedTypeOK
      [] part = "voice"    -> VoiceTypeOK
      [] part = "generations" -> GenerationsTypeOK
      [] part = "platform" -> PlatformTypeOK
      [] part = "delivery" -> DeliveryTypeOK

(* What was stored or cleared is so after a restart.                        *)
StorageSound == []ClearIsDurable /\ FileNeverRegresses /\ StoredSafe

(* Stopping and clearing reach every session, voice note and message, and   *)
(* what the platform was asked to do is done or reported.                   *)
ChatsSound ==
    /\ []SessionsOwned /\ []SessionsSettle /\ ManagedSafe /\ []VoicesExact
    /\ NoHandoffAfterCancel /\ []DeliverySound

(* Nothing waits for ever.                                                  *)
ServicesSettle ==
    []<>(/\ OpeningsEnded /\ CallsAnswered /\ HasQuit /\ Saved /\ ScreensSettled
         /\ RunsLeft /\ ClearReached /\ VoicesSettled /\ GenerationsSettled
         /\ PlatformSettled /\ (part = "delivery" => DeliveryEnded)
         /\ (part = "response" => LeaseReturned))
=============================================================================
