---------------------------- MODULE ServicesProofs ----------------------------
(***************************************************************************)
(* Theorems about the services of one process side by side: in a behaviour *)
(* of their composition every service makes its own steps or none, so the  *)
(* invariants and action properties proved for each hold in it.  Only      *)
(* safety carries over: the composition is fair to the service that moves. *)
(***************************************************************************)
EXTENDS MCServices, ServingProofs, MessagingProofs, ProviderGenerationsProofs, TLAPS

(* Each service alone, without its fairness.                               *)
EachBegins ==
  /\ OpeningInit
  /\ Init
  /\ ResponseInit
  /\ ServerInit
  /\ FileInit
  /\ StoredInit
  /\ SessionsInit
  /\ ManagedInit
  /\ VoiceInit
  /\ GenerationsInit
  /\ PlatformInit
  /\ DeliveryInit

EachMoves ==
  /\ [OpeningNext]_openingVars
  /\ [Next]_vars
  /\ [ResponseNext]_responseVars
  /\ [ServerNext]_serverVars
  /\ [FileNext]_fileVars
  /\ [StoredNext]_storedVars
  /\ [SessionsNext]_sessionVars
  /\ [ManagedNext]_managedVars
  /\ [VoiceNext]_voiceVars
  /\ [GenerationsNext]_generationsVars
  /\ [PlatformNext]_platformVars
  /\ [DeliveryNext]_deliveryVars

LEMMA ServicesBegin == ServicesInit => EachBegins /\ part \in Parts
BY DEF ServicesInit, EachBegins

LEMMA ServicesMove == [ServicesNext]_servicesVars => EachMoves /\ part' = part
<1> SUFFICES ASSUME [ServicesNext]_servicesVars PROVE EachMoves /\ part' = part
  OBVIOUS
<1>1. CASE ServicesNext
  <2>1. [OpeningNext]_openingVars
    BY <1>1 DEF ServicesNext
  <2>2. [Next]_vars
    BY <1>1 DEF ServicesNext
  <2>3. [ResponseNext]_responseVars
    BY <1>1 DEF ServicesNext
  <2>4. [ServerNext]_serverVars
    BY <1>1 DEF ServicesNext
  <2>5. [FileNext]_fileVars
    BY <1>1 DEF ServicesNext
  <2>6. [StoredNext]_storedVars
    BY <1>1 DEF ServicesNext
  <2>7. [SessionsNext]_sessionVars
    BY <1>1 DEF ServicesNext
  <2>8. [ManagedNext]_managedVars
    BY <1>1 DEF ServicesNext
  <2>9. [VoiceNext]_voiceVars
    BY <1>1 DEF ServicesNext
  <2>10. [GenerationsNext]_generationsVars
    BY <1>1 DEF ServicesNext
  <2>11. [PlatformNext]_platformVars
    BY <1>1 DEF ServicesNext
  <2>12. [DeliveryNext]_deliveryVars
    BY <1>1 DEF ServicesNext
  <2> QED
    BY <1>1, <2>1, <2>2, <2>3, <2>4, <2>5, <2>6, <2>7, <2>8, <2>9,
       <2>10, <2>11, <2>12 DEF ServicesNext, EachMoves
<1>2. CASE UNCHANGED servicesVars
  BY <1>2 DEF servicesVars, EachMoves
<1> QED
  BY <1>1, <1>2

(* A behaviour of the composition is one of every service.                 *)
LEMMA Apart ==
  ServicesSpec =>
    /\ OpeningInit /\ [][OpeningNext]_openingVars
    /\ Init /\ [][Next]_vars
    /\ ResponseInit /\ [][ResponseNext]_responseVars
    /\ ServerInit /\ [][ServerNext]_serverVars
    /\ FileInit /\ [][FileNext]_fileVars
    /\ StoredInit /\ [][StoredNext]_storedVars
    /\ SessionsInit /\ [][SessionsNext]_sessionVars
    /\ ManagedInit /\ [][ManagedNext]_managedVars
    /\ VoiceInit /\ [][VoiceNext]_voiceVars
    /\ GenerationsInit /\ [][GenerationsNext]_generationsVars
    /\ PlatformInit /\ [][PlatformNext]_platformVars
    /\ DeliveryInit /\ [][DeliveryNext]_deliveryVars
    /\ [](part \in Parts)
<1>1. ServicesSpec => OpeningInit /\ [][OpeningNext]_openingVars
  <2>1. /\ ServicesInit => OpeningInit
        /\ [ServicesNext]_servicesVars => [OpeningNext]_openingVars
    BY ServicesBegin, ServicesMove DEF EachBegins, EachMoves
  <2> QED
    BY <2>1, PTL DEF ServicesSpec
<1>2. ServicesSpec => Init /\ [][Next]_vars
  <2>1. /\ ServicesInit => Init
        /\ [ServicesNext]_servicesVars => [Next]_vars
    BY ServicesBegin, ServicesMove DEF EachBegins, EachMoves
  <2> QED
    BY <2>1, PTL DEF ServicesSpec
<1>3. ServicesSpec => ResponseInit /\ [][ResponseNext]_responseVars
  <2>1. /\ ServicesInit => ResponseInit
        /\ [ServicesNext]_servicesVars => [ResponseNext]_responseVars
    BY ServicesBegin, ServicesMove DEF EachBegins, EachMoves
  <2> QED
    BY <2>1, PTL DEF ServicesSpec
<1>4. ServicesSpec => ServerInit /\ [][ServerNext]_serverVars
  <2>1. /\ ServicesInit => ServerInit
        /\ [ServicesNext]_servicesVars => [ServerNext]_serverVars
    BY ServicesBegin, ServicesMove DEF EachBegins, EachMoves
  <2> QED
    BY <2>1, PTL DEF ServicesSpec
<1>5. ServicesSpec => FileInit /\ [][FileNext]_fileVars
  <2>1. /\ ServicesInit => FileInit
        /\ [ServicesNext]_servicesVars => [FileNext]_fileVars
    BY ServicesBegin, ServicesMove DEF EachBegins, EachMoves
  <2> QED
    BY <2>1, PTL DEF ServicesSpec
<1>6. ServicesSpec => StoredInit /\ [][StoredNext]_storedVars
  <2>1. /\ ServicesInit => StoredInit
        /\ [ServicesNext]_servicesVars => [StoredNext]_storedVars
    BY ServicesBegin, ServicesMove DEF EachBegins, EachMoves
  <2> QED
    BY <2>1, PTL DEF ServicesSpec
<1>7. ServicesSpec => SessionsInit /\ [][SessionsNext]_sessionVars
  <2>1. /\ ServicesInit => SessionsInit
        /\ [ServicesNext]_servicesVars => [SessionsNext]_sessionVars
    BY ServicesBegin, ServicesMove DEF EachBegins, EachMoves
  <2> QED
    BY <2>1, PTL DEF ServicesSpec
<1>8. ServicesSpec => ManagedInit /\ [][ManagedNext]_managedVars
  <2>1. /\ ServicesInit => ManagedInit
        /\ [ServicesNext]_servicesVars => [ManagedNext]_managedVars
    BY ServicesBegin, ServicesMove DEF EachBegins, EachMoves
  <2> QED
    BY <2>1, PTL DEF ServicesSpec
<1>9. ServicesSpec => VoiceInit /\ [][VoiceNext]_voiceVars
  <2>1. /\ ServicesInit => VoiceInit
        /\ [ServicesNext]_servicesVars => [VoiceNext]_voiceVars
    BY ServicesBegin, ServicesMove DEF EachBegins, EachMoves
  <2> QED
    BY <2>1, PTL DEF ServicesSpec
<1>10. ServicesSpec => GenerationsInit /\ [][GenerationsNext]_generationsVars
  <2>1. /\ ServicesInit => GenerationsInit
        /\ [ServicesNext]_servicesVars => [GenerationsNext]_generationsVars
    BY ServicesBegin, ServicesMove DEF EachBegins, EachMoves
  <2> QED
    BY <2>1, PTL DEF ServicesSpec
<1>11. ServicesSpec => PlatformInit /\ [][PlatformNext]_platformVars
  <2>1. /\ ServicesInit => PlatformInit
        /\ [ServicesNext]_servicesVars => [PlatformNext]_platformVars
    BY ServicesBegin, ServicesMove DEF EachBegins, EachMoves
  <2> QED
    BY <2>1, PTL DEF ServicesSpec
<1>12. ServicesSpec => DeliveryInit /\ [][DeliveryNext]_deliveryVars
  <2>1. /\ ServicesInit => DeliveryInit
        /\ [ServicesNext]_servicesVars => [DeliveryNext]_deliveryVars
    BY ServicesBegin, ServicesMove DEF EachBegins, EachMoves
  <2> QED
    BY <2>1, PTL DEF ServicesSpec
<1>13. ServicesSpec => [](part \in Parts)
  <2>1. /\ ServicesInit => part \in Parts
        /\ part \in Parts /\ [ServicesNext]_servicesVars => (part \in Parts)'
    BY ServicesBegin, ServicesMove
  <2> QED
    BY <2>1, PTL DEF ServicesSpec
<1> QED
  BY <1>1, <1>2, <1>3, <1>4, <1>5, <1>6, <1>7, <1>8, <1>9, <1>10, <1>11, <1>12, <1>13

(* The service a behaviour is about keeps its types whatever the limits,   *)
(* and so do all the others, for they do not move.                         *)
THEOREM ServicesTyped == ServicesSpec => []ServicesTypeOK
<1>1. ServicesSpec => []OpeningTypeOK
  BY Apart, OpeningKept, PTL
<1>2. ServicesSpec => []TypeOK
  <2>1. WInv => TypeOK
    BY DEF WInv
  <2> QED
    BY Apart, WindowInitInv, WindowStepInv, <2>1, PTL
<1>3. ServicesSpec => []ResponseTypeOK
  <2>1. RInv => ResponseTypeOK
    BY DEF RInv
  <2> QED
    BY Apart, ResponseInitInv, ResponseStepInv, <2>1, PTL
<1>4. ServicesSpec => []ServerTypeOK
  <2>1. SInv => ServerTypeOK
    BY DEF SInv
  <2> QED
    BY Apart, ServerInitInv, ServerStepInv, <2>1, PTL
<1>5. ServicesSpec => []FileTypeOK
  BY Apart, FileKept, PTL
<1>6. ServicesSpec => []StoredTypeOK
  BY Apart, StoredRight, PTL DEF StoredSpec
<1>7. ServicesSpec => []SessionsTypeOK
  BY Apart, SessionsStay, PTL
<1>8. ServicesSpec => []ManagedTypeOK
  BY Apart, ManagedKept, PTL
<1>9. ServicesSpec => []VoiceTypeOK
  BY Apart, VoiceKept, PTL
<1>10. ServicesSpec => []GenerationsTypeOK
  <2>1. GInv => GenerationsTypeOK
    BY DEF GInv
  <2> QED
    BY Apart, GenerationsInitInv, GenerationsStepInv, <2>1, PTL
<1>11. ServicesSpec => []PlatformTypeOK
  <2>1. PInv => PlatformTypeOK
    BY DEF PInv
  <2> QED
    BY Apart, PlatformInitInv, PlatformStep, <2>1, PTL
<1>12. ServicesSpec => []DeliveryTypeOK
  BY Apart, DeliveryKept, PTL
<1>13. ServicesSpec => [](part \in Parts)
  BY Apart, PTL
<1>14. /\ part \in Parts
       /\ OpeningTypeOK
       /\ TypeOK
       /\ ResponseTypeOK
       /\ ServerTypeOK
       /\ FileTypeOK
       /\ StoredTypeOK
       /\ SessionsTypeOK
       /\ ManagedTypeOK
       /\ VoiceTypeOK
       /\ GenerationsTypeOK
       /\ PlatformTypeOK
       /\ DeliveryTypeOK
       => ServicesTypeOK
  BY DEF Parts, ServicesTypeOK
<1> QED
  BY <1>1, <1>2, <1>3, <1>4, <1>5, <1>6, <1>7, <1>8, <1>9,
     <1>10, <1>11, <1>12, <1>13, <1>14, PTL

(* What was stored or cleared is so after a restart: a chat that was       *)
(* cleared stays so in every later file, the file never goes back, and a   *)
(* clean restart restores what the records say.                            *)
THEOREM StorageKept == ServicesSpec => StorageSound
BY Apart, FileKept, StoredRight, PTL DEF StoredSpec, StorageSound

(* Stopping and clearing reach every session, voice note and message for   *)
(* any number of them, and what the platform was asked to do is done or    *)
(* reported.                                                               *)
THEOREM ChatsKept == ServicesSpec => ChatsSound
BY Apart, SessionsStay, ManagedKept, VoiceKept, DeliveryKept, PTL DEF ChatsSound

(* The requests of a provider, the generations of its runtimes, the server *)
(* and the platforms keep what was proved of each when all run beside each *)
(* other: windows, leases and owners are exact.                            *)
THEOREM RequestsKept ==
  ServicesSpec => OpeningSound /\ []StrictWindow /\ []LeasesCounted /\ []NothingLeaked
<1>1. /\ WInv => StrictWindow
      /\ GInv => LeasesCounted /\ NothingLeaked
  BY DEF WInv, GInv
<1> QED
  BY <1>1, Apart, OpeningKept, WindowInitInv, WindowStepInv, GenerationsInitInv, GenerationsStepInv, PTL
===============================================================================
