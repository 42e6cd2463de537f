---------------------- MODULE CapabilityRegistryProofs ----------------------
(***************************************************************************)
(* Theorems about CapabilityRegistry, for any plugins, pairs and names.    *)
(***************************************************************************)
EXTENDS CapabilityRegistry, SequenceTheorems, TLAPS

Registering == main.pc \in {"register", "update", "create"}

\* What is left to register was offered by the plugin being loaded.
OffersAreThePlugins == Registering => main.offers \in Seq(OfferedBy(Plugin))

\* Between the look at the registry and the claim nobody else claims.
StillFree == main.pc \in {"update", "create"} => provider[Offer.pair] = Nobody

\* The list a purge works on is out of date only where somebody wrote.
ListIsAccurate ==
    At("purge") =>
        \A info \in main.listed :
            info.name \notin life.touched =>
                infos[info.name] = NoInfo \/ infos[info.name].pair = info.pair

DirectoryInv == TypeOK /\ OffersAreThePlugins /\ StillFree

AdvertisedInv == DirectoryInv /\ Advertised /\ ListIsAccurate

-----------------------------------------------------------------------------
LEMMA OffersType ==
    ASSUME NEW p \in Plugins
    PROVE  Offers[p] \in Seq(OfferedBy(p)) /\ OfferedBy(p) \subseteq TypeInfos
<1>1. Offers[p] \in Seq(TypeInfos)
  BY RegistryAssumption
<1>2. OfferedBy(p) \subseteq TypeInfos
  BY <1>1, ElementOfSeq DEF OfferedBy
<1>3. /\ Len(Offers[p]) \in Nat
      /\ Offers[p] = [i \in 1..Len(Offers[p]) |-> Offers[p][i]]
      /\ DOMAIN Offers[p] = 1..Len(Offers[p])
  BY <1>1, LenProperties
<1>4. \A i \in 1..Len(Offers[p]) : Offers[p][i] \in OfferedBy(p)
  BY <1>3 DEF OfferedBy
<1> QED BY <1>2, <1>3, <1>4, IsASeq

LEMMA PluginType ==
    ASSUME TypeOK, main.files # <<>>
    PROVE  Plugin \in Plugins /\ Tail(main.files) \in Seq(Plugins)
BY HeadTailProperties DEF TypeOK, Mains, Plugin

LEMMA OfferType ==
    ASSUME TypeOK, main.offers # <<>>
    PROVE  /\ Offer \in TypeInfos /\ Offer.pair \in Pairs /\ Name \in Names
           /\ Tail(main.offers) \in Seq(TypeInfos)
<1>1. Offer \in TypeInfos /\ Tail(main.offers) \in Seq(TypeInfos)
  BY HeadTailProperties DEF TypeOK, Mains, Offer
<1>2. Offer.pair \in Pairs
  BY <1>1 DEF TypeInfos
<1> QED BY <1>1, <1>2, RegistryAssumption DEF Name

LEMMA FaultTypes ==
    ASSUME TypeOK, Fault \/ NoFault \/ Disturb
    PROVE  left' \in [disturbances: 0..MaxDisturbances, faults: 0..MaxFaults]
BY RegistryAssumption DEF TypeOK, Fault, NoFault, Disturb

\* What register remembers of an offer is about that offer alone.
LEMMA HistoryTypes ==
    ASSUME TypeOK, main.files # <<>>,
           \/ RefuseAll(Plugin)
           \/ main.offers # <<>> /\ (Ignore \/ RegisterPlugin)
    PROVE  /\ life' \in Lives /\ life'.touched = life.touched
           /\ life'.directory = life.directory /\ life'.purged = life.purged
<1>1. Plugin \in Plugins /\ life \in Lives
  BY PluginType DEF TypeOK
<1>2. CASE RefuseAll(Plugin)
  <2> DEFINE R == {<<Plugin, info.pair>> :
                      info \in {i \in OfferedBy(Plugin) : provider[i.pair] = Nobody}}
  <2>1. R \subseteq Plugins \X Pairs
    BY <1>1, OffersType DEF TypeInfos
  <2>2. life' = [life EXCEPT !.refused = @ \cup R]
    BY <1>2 DEF RefuseAll
  <2> HIDE DEF R
  <2> QED BY <1>1, <2>1, <2>2 DEF Lives
<1>3. CASE main.offers # <<>> /\ Ignore
  BY <1>1, <1>3, OfferType DEF Ignore, Lives
<1>4. CASE main.offers # <<>> /\ RegisterPlugin
  BY <1>1, <1>4, OfferType DEF RegisterPlugin, Lives
<1> QED BY <1>2, <1>3, <1>4

-----------------------------------------------------------------------------
\* What the steps of register do to main, and to the registry and the infos.
LEMMA NextOfferTypes ==
    ASSUME TypeOK, main.files # <<>>, main.offers # <<>>, NextOffer
    PROVE  /\ main' \in Mains /\ main'.pc = "register" /\ main'.files = main.files
           /\ main'.offers = Tail(main.offers)
BY OfferType DEF NextOffer, TypeOK, Mains

LEMMA StoreStep ==
    ASSUME DirectoryInv, UpdateInfo \/ CreateInfo
    PROVE  /\ Registering /\ main.files # <<>> /\ main.offers # <<>>
           /\ NextOffer /\ (Fault \/ NoFault)
           /\ \/ Ignore /\ provider' = provider
              \/ RegisterPlugin /\ infos' = [infos EXCEPT ![Name] = Offer]
           /\ infos' = infos \/ infos' = [infos EXCEPT ![Name] = Offer]
<1>1. Registering /\ main.files # <<>> /\ main.offers # <<>>
  BY DEF UpdateInfo, CreateInfo, At, DirectoryInv, TypeOK, Registering
<1>2. Store \/ Refused
  BY DEF UpdateInfo, CreateInfo
<1>3. CASE Store
  BY <1>1, <1>3 DEF Store, WriteInfo, RegisterPlugin, Ignore
<1>4. CASE Refused
  BY <1>1, <1>4 DEF Refused, Ignore
<1> QED BY <1>2, <1>3, <1>4

LEMMA ClaimType ==
    ASSUME TypeOK, main.files # <<>>, main.offers # <<>>, RegisterPlugin
    PROVE  provider' \in [Pairs -> Plugins \cup {Nobody}]
BY PluginType, OfferType DEF RegisterPlugin, TypeOK

LEMMA MainTypes == DirectoryInv /\ Main => DirectoryInv'
<1> SUFFICES ASSUME DirectoryInv, Main PROVE DirectoryInv'
  OBVIOUS
<1> USE DEF DirectoryInv
<1>0. main \in Mains
  BY DEF TypeOK
<1>1. CASE LoadPlugin
  <2>1. Plugin \in Plugins /\ main.files # <<>>
    BY <1>1, PluginType DEF LoadPlugin
  <2>2. PICK offers \in {Offers[Plugin], <<>>} :
          main' = [main EXCEPT !.pc = "register", !.offers = offers]
    BY <1>1 DEF LoadPlugin
  <2>3. offers \in Seq(OfferedBy(Plugin)) /\ offers \in Seq(TypeInfos)
    BY <2>1, OffersType, EmptySeq, RegistryAssumption
  <2>4. main' \in Mains /\ main'.pc = "register" /\ main'.files = main.files /\ main'.offers = offers
    BY <1>0, <2>2, <2>3 DEF Mains
  <2>5. life' \in Lives
    BY <1>1, <2>1, HistoryTypes DEF LoadPlugin, TypeOK
  <2>6. TypeOK'
    BY <1>1, <2>1, <2>4, <2>5, FaultTypes DEF LoadPlugin, TypeOK
  <2> QED BY <2>3, <2>4, <2>6 DEF OffersAreThePlugins, StillFree, Plugin
<1>2. CASE PluginLoaded
  <2>1. main.files # <<>>
    BY <1>2 DEF PluginLoaded, At, TypeOK
  <2>2. main' \in Mains /\ main'.pc = "load"
    BY <1>0, <1>2, <2>1, PluginType DEF PluginLoaded, Mains
  <2>3. TypeOK'
    BY <1>2, <2>2 DEF PluginLoaded, TypeOK
  <2> QED BY <2>2, <2>3 DEF OffersAreThePlugins, StillFree, Registering
<1>3. ASSUME NextOffer, main.offers # <<>>, Registering,
             provider' \in [Pairs -> Plugins \cup {Nobody}],
             infos' \in [Names -> TypeInfos \cup {NoInfo}],
             Fault \/ NoFault, life' \in Lives
      PROVE  DirectoryInv'
  <2>1. main.files # <<>>
    BY <1>3 DEF Registering, TypeOK
  <2>2. /\ main' \in Mains /\ main'.pc = "register" /\ main'.files = main.files
        /\ main'.offers = Tail(main.offers)
    BY <1>3, <2>1, NextOfferTypes
  <2>3. TypeOK'
    BY <1>3, <2>1, <2>2, FaultTypes DEF TypeOK
  <2>4. main'.offers \in Seq(OfferedBy(Plugin))
    BY <1>3, <2>2, HeadTailProperties DEF OffersAreThePlugins
  <2> QED BY <2>2, <2>3, <2>4 DEF OffersAreThePlugins, StillFree, Plugin
<1>4. CASE SkipTaken
  BY <1>3, <1>4 DEF SkipTaken, TypeOK, NoFault, At, Registering
<1>5. CASE GetInfo
  <2>1. At("register") /\ main.files # <<>> /\ main.offers # <<>> /\ UNCHANGED <<provider, infos>>
    BY <1>5 DEF GetInfo, Ignore, TypeOK, At
  <2>2. CASE Ignore /\ Fault
    BY <1>3, <2>1, <2>2, HistoryTypes DEF Ignore, TypeOK, At, Registering
  <2>3. ASSUME NoFault, UNCHANGED life, main' \in Mains, main'.pc \in {"update", "create"},
               main'.files = main.files, main'.offers = main.offers
        PROVE  DirectoryInv'
    <3>1. TypeOK'
      BY <2>1, <2>3 DEF TypeOK, NoFault
    <3>2. OffersAreThePlugins'
      BY <2>1, <2>3 DEF OffersAreThePlugins, Registering, At, Plugin
    <3>3. StillFree'
      BY <1>5, <2>1, <2>3 DEF GetInfo, StillFree, Offer
    <3> QED BY <3>1, <3>2, <3>3
  <2>4. CASE main' = [main EXCEPT !.pc = "update", !.fresh = TRUE] /\ NoFault /\ UNCHANGED life
    BY <1>0, <2>3, <2>4 DEF Mains
  <2>5. CASE main' = [main EXCEPT !.pc = "create"] /\ NoFault /\ UNCHANGED life
    BY <1>0, <2>3, <2>5 DEF Mains
  <2> QED BY <1>5, <2>2, <2>4, <2>5 DEF GetInfo
<1>6. CASE UpdateInfo \/ CreateInfo
  <2>1. provider' \in [Pairs -> Plugins \cup {Nobody}]
    BY <1>6, StoreStep, ClaimType DEF TypeOK
  <2>2. infos' \in [Names -> TypeInfos \cup {NoInfo}]
    BY <1>6, StoreStep, OfferType DEF TypeOK
  <2>3. life' \in Lives
    BY <1>6, StoreStep, HistoryTypes
  <2> QED BY <1>3, <1>6, <2>1, <2>2, <2>3, StoreStep
<1>7. ASSUME main' \in Mains, main'.pc \in {"list", "purge", "serving"}, UNCHANGED provider,
             infos' \in [Names -> TypeInfos \cup {NoInfo}],
             left' \in [disturbances: 0..MaxDisturbances, faults: 0..MaxFaults],
             life' \in Lives
      PROVE  DirectoryInv'
  BY <1>7 DEF TypeOK, OffersAreThePlugins, StillFree, Registering
<1>8. CASE AllLoaded
  <2>1. main' \in Mains /\ main'.pc \in {"list", "serving"}
    BY <1>0, <1>8 DEF AllLoaded, Mains
  <2> QED BY <1>7, <1>8, <2>1 DEF AllLoaded, TypeOK
<1>9. CASE ListInfos
  <2> DEFINE all == {[name |-> n, pair |-> infos[n].pair] : n \in {m \in Names : infos[m] # NoInfo}}
  <2>1. all \in SUBSET [name: Names, pair: Pairs]
    BY DEF TypeOK, TypeInfos
  <2> HIDE DEF all
  <2>2. main' \in Mains /\ main'.pc \in {"purge", "serving"}
    BY <1>0, <1>9, <2>1 DEF ListInfos, Mains, all
  <2>3. life' \in Lives
    BY <1>9 DEF ListInfos, Lives, TypeOK
  <2> QED BY <1>7, <1>9, <2>2, <2>3, FaultTypes DEF ListInfos, TypeOK
<1>10. CASE PurgeInfo
  <2>0. \A info \in main.listed : {info.name} \in SUBSET Names
    BY <1>0 DEF Mains
  <2>1. PICK info \in main.listed, failed \in SUBSET Names :
          /\ Purged(info, failed)
          /\ Remove(info) \/ UNCHANGED infos
          /\ Fault \/ NoFault
    BY <1>10, <2>0 DEF PurgeInfo
  <2>2. main' \in Mains /\ main'.pc = "purge"
    <3> DEFINE l == main.listed \ {info}
               n == main.purgedCount + 1
               f == main.failed \cup failed
    <3>1. main.pc = "purge"
      BY <1>10 DEF PurgeInfo, At
    <3>2. l \in SUBSET [name: Names, pair: Pairs] /\ n \in Nat
      BY <1>0 DEF Mains
    <3>3. f \in SUBSET Names
      BY <1>0, <2>1 DEF Mains
    <3>4. main' = [main EXCEPT !.listed = l, !.purgedCount = n, !.failed = f]
      BY <2>1 DEF Purged
    <3> HIDE DEF l, n, f
    <3> QED BY <1>0, <3>1, <3>2, <3>3, <3>4 DEF Mains
  <2>3. infos' \in [Names -> TypeInfos \cup {NoInfo}]
    BY <2>1 DEF Remove, TypeOK
  <2> QED BY <1>7, <1>10, <2>1, <2>2, <2>3, FaultTypes DEF PurgeInfo, TypeOK
<1>11. CASE KeepInfo
  <2>1. main' \in Mains /\ main'.pc = "purge"
    BY <1>0, <1>11 DEF KeepInfo, Mains, At
  <2> QED BY <1>7, <1>11, <2>1 DEF KeepInfo, TypeOK
<1>12. CASE PurgeDone
  <2>1. main' \in Mains /\ main'.pc = "serving" /\ life' \in Lives
    BY <1>0, <1>12 DEF PurgeDone, Mains, Lives, TypeOK
  <2> QED BY <1>7, <1>12, <2>1 DEF PurgeDone, TypeOK
<1> QED BY <1>1, <1>2, <1>4, <1>5, <1>6, <1>8, <1>9, <1>10, <1>11, <1>12 DEF Main

LEMMA StartTypes ==
    ASSUME NEW files \in Directories
    PROVE  /\ Starting(files) \in Mains /\ Starting(files).pc = "load"
           /\ NewLife(files) \in Lives /\ NewLife(files).touched = {}
BY RegistryAssumption, EmptySeq DEF Starting, NewLife, Mains, Lives

LEMMA NobodyYet == NoProvider \in [Pairs -> Plugins \cup {Nobody}]
BY DEF NoProvider

LEMMA InitInv == Init => DirectoryInv
<1> SUFFICES ASSUME Init PROVE DirectoryInv
  OBVIOUS
<1>1. main \in Mains /\ main.pc = "load" /\ life \in Lives
  BY StartTypes DEF Init
<1>2. TypeOK
  BY <1>1, NobodyYet, RegistryAssumption DEF Init, TypeOK
<1> QED BY <1>1, <1>2 DEF DirectoryInv, OffersAreThePlugins, StillFree, Registering

LEMMA OthersTypes ==
    ASSUME DirectoryInv, NEW n \in Names, NEW info \in TypeInfos \cup {NoInfo},
           OthersWrite(n, info)
    PROVE  /\ DirectoryInv' /\ life'.touched = life.touched \cup {n}
           /\ main'.pc = main.pc /\ main'.listed = main.listed
<1>1. /\ main' \in Mains /\ main'.pc = main.pc /\ main'.files = main.files
      /\ main'.offers = main.offers /\ main'.listed = main.listed
  BY DEF OthersWrite, DirectoryInv, TypeOK, Mains
<1>2. life' \in Lives /\ life'.touched = life.touched \cup {n}
  BY DEF OthersWrite, DirectoryInv, TypeOK, Lives
<1>3. TypeOK'
  BY <1>1, <1>2, FaultTypes DEF OthersWrite, DirectoryInv, TypeOK
<1>4. OffersAreThePlugins' /\ StillFree'
  BY <1>1 DEF OthersWrite, DirectoryInv, OffersAreThePlugins, StillFree, Registering, Plugin, Offer
<1> QED BY <1>1, <1>2, <1>3, <1>4 DEF DirectoryInv

LEMMA RestartTypes ==
    ASSUME DirectoryInv, Restart
    PROVE  DirectoryInv' /\ main'.pc = "load"
<1>1. main' \in Mains /\ main'.pc = "load" /\ life' \in Lives
  BY StartTypes DEF Restart, Start
<1>2. TypeOK'
  BY <1>1, NobodyYet, FaultTypes DEF Restart, DirectoryInv, TypeOK
<1> QED BY <1>1, <1>2 DEF DirectoryInv, OffersAreThePlugins, StillFree, Registering

LEMMA StepInv == DirectoryInv /\ [Next]_vars => DirectoryInv'
<1> SUFFICES ASSUME DirectoryInv, [Next]_vars PROVE DirectoryInv'
  OBVIOUS
<1>1. CASE UNCHANGED vars
  BY <1>1 DEF vars, DirectoryInv, TypeOK, OffersAreThePlugins, StillFree, Registering, Plugin, Offer
<1> QED BY <1>1, MainTypes, OthersTypes, RestartTypes DEF Next

\* The types, whatever fails, whoever writes and however often it restarts.
THEOREM RegistryTypes == Spec => []TypeOK
<1>1. DirectoryInv => TypeOK
  BY DEF DirectoryInv
<1> QED BY <1>1, InitInv, StepInv, PTL DEF Spec

-----------------------------------------------------------------------------
\* What each step does to the registry.
LEMMA ProviderStep ==
    ASSUME DirectoryInv, [Next]_vars
    PROVE  \/ provider' = provider
           \/ provider' = NoProvider
           \/ /\ main.pc \in {"update", "create"} /\ main.files # <<>> /\ main.offers # <<>>
              /\ RegisterPlugin
<1>1. CASE UpdateInfo \/ CreateInfo
  <2>1. main.pc \in {"update", "create"}
    BY <1>1 DEF UpdateInfo, CreateInfo, At
  <2> QED BY <1>1, <2>1, StoreStep
<1>2. CASE LoadPlugin \/ PluginLoaded \/ SkipTaken \/ GetInfo
  BY <1>2 DEF LoadPlugin, PluginLoaded, SkipTaken, GetInfo, Ignore
<1>3. CASE AllLoaded \/ ListInfos \/ PurgeInfo \/ KeepInfo \/ PurgeDone
  BY <1>3 DEF AllLoaded, ListInfos, PurgeInfo, KeepInfo, PurgeDone
<1>4. CASE Restart
  BY <1>4 DEF Restart
<1>5. ASSUME NEW n \in Names, NEW info \in TypeInfos \cup {NoInfo}, OthersWrite(n, info)
      PROVE  provider' = provider
  BY <1>5 DEF OthersWrite
<1>6. CASE UNCHANGED vars
  BY <1>6 DEF vars
<1> QED BY <1>1, <1>2, <1>3, <1>4, <1>5, <1>6 DEF Next, Main

\* The registry of the code implements the write-once directory: a pair is
\* claimed once in a life of the operator, by a plugin that offers it.
THEOREM DirectoryImplemented == Spec => DirectorySpec
<1>1. Init => Directory!Init
  BY DEF Init, Directory!Init, NoProvider
<1>2. DirectoryInv /\ [Next]_vars => [Directory!Next]_provider
  <2> SUFFICES ASSUME DirectoryInv, [Next]_vars PROVE [Directory!Next]_provider
    OBVIOUS
  <2>1. CASE provider' = NoProvider
    BY <2>1 DEF NoProvider, Directory!Next, Directory!Restart
  <2>2. CASE /\ main.pc \in {"update", "create"} /\ main.files # <<>> /\ main.offers # <<>>
             /\ RegisterPlugin
    <3>1. Plugin \in Plugins /\ Offer.pair \in Pairs
      BY <2>2, PluginType, OfferType DEF DirectoryInv
    <3>2. Offer \in OfferedBy(Plugin)
      BY <2>2, HeadTailProperties DEF DirectoryInv, OffersAreThePlugins, Registering, Offer
    <3>3. provider[Offer.pair] = Nobody
      BY <2>2 DEF DirectoryInv, StillFree
    <3>4. Offer.pair \in {info.pair : info \in OfferedBy(Plugin)}
      BY <3>2
    <3>5. Directory!Claim(Plugin, Offer.pair)
      BY <2>2, <3>1, <3>3, <3>4 DEF RegisterPlugin, Directory!Claim
    <3> QED BY <3>1, <3>5 DEF Directory!Next
  <2> QED BY <2>1, <2>2, ProviderStep
<1> QED BY <1>1, <1>2, InitInv, StepInv, PTL DEF Spec, DirectorySpec, Directory!Spec

-----------------------------------------------------------------------------
LEMMA LoadingHistory ==
    ASSUME DirectoryInv,
           \/ LoadPlugin \/ PluginLoaded \/ SkipTaken \/ GetInfo \/ UpdateInfo \/ CreateInfo
           \/ AllLoaded
    PROVE  /\ life'.touched = life.touched /\ life'.directory = life.directory
           /\ life'.purged = life.purged
<1>0. TypeOK
  BY DEF DirectoryInv
<1>1. CASE LoadPlugin
  <2>1. main.files # <<>> /\ (UNCHANGED life \/ RefuseAll(Plugin))
    BY <1>1 DEF LoadPlugin
  <2> QED BY <1>0, <2>1, HistoryTypes
<1>2. CASE GetInfo
  <2>1. main.files # <<>> /\ main.offers # <<>> /\ (UNCHANGED life \/ Ignore)
    BY <1>0, <1>2 DEF GetInfo, At, TypeOK
  <2> QED BY <1>0, <2>1, HistoryTypes
<1>3. CASE UpdateInfo \/ CreateInfo
  BY <1>0, <1>3, StoreStep, HistoryTypes
<1>4. CASE PluginLoaded \/ SkipTaken \/ AllLoaded
  BY <1>4 DEF PluginLoaded, SkipTaken, AllLoaded
<1> QED BY <1>1, <1>2, <1>3, <1>4

-----------------------------------------------------------------------------
\* A step that leaves the registry, and all but one CapabilityInfo, alone.
LEMMA StillAdvertised ==
    ASSUME Advertised, UNCHANGED provider, NEW n, life.touched \subseteq life'.touched,
           \A m \in Names \ {n} : infos'[m] = infos[m],
           \A pair \in Pairs : InfoName[pair] = n =>
              \/ provider[pair] = Nobody \/ n \in life'.touched \/ SharesName(pair)
              \/ infos'[n] = infos[n]
    PROVE  Advertised'
<1>1. SUFFICES ASSUME NEW pair \in Pairs, provider[pair] # Nobody,
                      InfoName[pair] \notin life'.touched, ~SharesName(pair)
               PROVE  /\ infos'[InfoName[pair]] \in OfferedBy(provider[pair])
                      /\ infos'[InfoName[pair]].pair = pair
  BY DEF Advertised, SharesName, OfferedBy
<1>2. InfoName[pair] \in Names /\ InfoName[pair] \notin life.touched
  BY <1>1, RegistryAssumption
<1>3. infos'[InfoName[pair]] = infos[InfoName[pair]]
  BY <1>1, <1>2
<1> QED BY <1>1, <1>2, <1>3 DEF Advertised

LEMMA RegisterAdvertises ==
    ASSUME DirectoryInv, Advertised, main.files # <<>>, main.offers # <<>>, Registering,
           RegisterPlugin, infos' = [infos EXCEPT ![Name] = Offer],
           life'.touched = life.touched
    PROVE  Advertised'
<1>1. SUFFICES ASSUME NEW pair \in Pairs, provider'[pair] # Nobody,
                      InfoName[pair] \notin life.touched, ~SharesName(pair)
               PROVE  /\ infos'[InfoName[pair]] \in OfferedBy(provider'[pair])
                      /\ infos'[InfoName[pair]].pair = pair
  BY DEF Advertised, SharesName, OfferedBy
<1>2. /\ provider' = [provider EXCEPT ![Offer.pair] = Plugin]
      /\ Offer.pair \in Pairs /\ Name \in Names /\ InfoName[pair] \in Names
      /\ Offer \in OfferedBy(Plugin)
  BY OfferType, RegistryAssumption, HeadTailProperties
  DEF DirectoryInv, OffersAreThePlugins, Offer, RegisterPlugin
<1>3. CASE pair = Offer.pair
  BY <1>2, <1>3 DEF Name, DirectoryInv, TypeOK
<1>4. CASE pair # Offer.pair
  <2>1. InfoName[pair] # Name
    BY <1>1, <1>2, <1>4 DEF SharesName, Name
  <2>2. provider'[pair] = provider[pair] /\ infos'[InfoName[pair]] = infos[InfoName[pair]]
    BY <1>2, <1>4, <2>1 DEF DirectoryInv, TypeOK
  <2> QED BY <1>1, <2>2 DEF Advertised
<1> QED BY <1>3, <1>4

LEMMA AdvertisedStep == AdvertisedInv /\ [Next]_vars => Advertised' /\ ListIsAccurate'
<1> SUFFICES ASSUME AdvertisedInv, [Next]_vars PROVE Advertised' /\ ListIsAccurate'
  OBVIOUS
<1>0. DirectoryInv /\ TypeOK /\ Advertised /\ ListIsAccurate /\ main \in Mains
  BY DEF AdvertisedInv, DirectoryInv, TypeOK
<1>1. ASSUME UNCHANGED <<provider, infos>>, life'.touched = life.touched
      PROVE  Advertised'
  BY <1>0, <1>1 DEF Advertised, SharesName, OfferedBy
<1>2. ASSUME main'.pc # "purge"
      PROVE  ListIsAccurate'
  BY <1>2 DEF ListIsAccurate, At
<1>3. CASE LoadPlugin \/ PluginLoaded \/ SkipTaken \/ GetInfo \/ AllLoaded
  <2>1. UNCHANGED <<provider, infos>>
    BY <1>3 DEF LoadPlugin, PluginLoaded, SkipTaken, GetInfo, AllLoaded, Ignore
  <2>2. life'.touched = life.touched
    BY <1>0, <1>3, LoadingHistory
  <2>3. main'.pc # "purge"
    BY <1>0, <1>3
    DEF LoadPlugin, PluginLoaded, SkipTaken, GetInfo, AllLoaded, Ignore, NextOffer, Mains
  <2> QED BY <1>1, <1>2, <2>1, <2>2, <2>3
<1>4. CASE UpdateInfo \/ CreateInfo
  <2>1. life'.touched = life.touched /\ main'.pc # "purge"
    BY <1>0, <1>4, StoreStep, HistoryTypes, NextOfferTypes
  <2>2. CASE RegisterPlugin /\ infos' = [infos EXCEPT ![Name] = Offer]
    BY <1>0, <1>2, <1>4, <2>1, <2>2, StoreStep, RegisterAdvertises
  <2>3. CASE UNCHANGED <<provider, infos>>
    BY <1>1, <1>2, <2>1, <2>3
  <2>4. CASE provider' = provider /\ infos' = [infos EXCEPT ![Name] = Offer]
    <3>1. provider[Offer.pair] = Nobody /\ main.offers # <<>>
      BY <1>0, <1>4, StoreStep DEF DirectoryInv, StillFree, UpdateInfo, CreateInfo, At
    <3>2. Offer.pair \in Pairs /\ Name \in Names
      BY <1>0, <3>1, OfferType
    <3>3. \A m \in Names \ {Name} : infos'[m] = infos[m]
      BY <1>0, <2>4 DEF TypeOK
    <3>4. \A pair \in Pairs : InfoName[pair] = Name => pair = Offer.pair \/ SharesName(pair)
      BY <3>2 DEF SharesName, Name
    <3> QED BY <1>0, <1>2, <2>1, <2>4, <3>1, <3>3, <3>4, StillAdvertised
  <2>5. \/ provider' = provider
        \/ RegisterPlugin /\ infos' = [infos EXCEPT ![Name] = Offer]
    BY <1>0, <1>4, StoreStep
  <2>6. infos' = infos \/ infos' = [infos EXCEPT ![Name] = Offer]
    BY <1>0, <1>4, StoreStep
  <2> QED BY <2>2, <2>3, <2>4, <2>5, <2>6
<1>5. CASE ListInfos
  <2>1. UNCHANGED <<provider, infos>> /\ life'.touched = life.touched
    BY <1>0, <1>5 DEF ListInfos, TypeOK, Lives
  <2>2. CASE main'.pc = "purge"
    <3>1. main'.listed =
            {[name |-> n, pair |-> infos[n].pair] : n \in {m \in Names : infos[m] # NoInfo}}
      BY <1>0, <1>5, <2>2 DEF ListInfos, Mains
    <3> QED BY <1>1, <2>1, <3>1 DEF ListIsAccurate
  <2> QED BY <1>1, <1>2, <2>1, <2>2
<1>6. CASE PurgeInfo
  <2>0. \A info \in main.listed : {info.name} \in SUBSET Names
    BY <1>0 DEF Mains
  <2>1. PICK info \in main.listed, failed \in SUBSET Names :
          /\ provider[info.pair] = Nobody
          /\ Purged(info, failed)
          /\ Remove(info) \/ UNCHANGED infos
    BY <1>6, <2>0 DEF PurgeInfo, GetPluginFor
  <2>2. /\ life'.touched = life.touched /\ provider' = provider
        /\ main'.listed \subseteq main.listed /\ main.pc = "purge"
        /\ info \in [name: Names, pair: Pairs]
    BY <1>0, <1>6, <2>1 DEF PurgeInfo, Purged, Mains, At
  <2>3. \A m \in Names : infos'[m] = infos[m] \/ (m = info.name /\ infos'[m] = NoInfo)
    BY <1>0, <2>1, <2>2 DEF Remove, TypeOK
  <2>4. info.name \notin life.touched =>
           infos[info.name] = NoInfo \/ infos[info.name].pair = info.pair
    BY <1>0, <2>2 DEF ListIsAccurate, At
  <2>5. \A pair \in Pairs : InfoName[pair] = info.name =>
           \/ provider[pair] = Nobody \/ info.name \in life.touched \/ SharesName(pair)
           \/ infos'[info.name] = infos[info.name]
    BY <1>0, <2>1, <2>2, <2>3, <2>4 DEF Advertised
  <2>6. Advertised'
    BY <1>0, <2>2, <2>3, <2>5, StillAdvertised
  <2>7. ListIsAccurate'
    BY <1>0, <2>2, <2>3 DEF ListIsAccurate, At, Mains
  <2> QED BY <2>6, <2>7
<1>7. CASE KeepInfo \/ PurgeDone
  <2>1. UNCHANGED <<provider, infos>> /\ life'.touched = life.touched
    BY <1>0, <1>7 DEF KeepInfo, PurgeDone, TypeOK, Lives
  <2>2. main'.pc = "purge" => main.pc = "purge" /\ main'.listed \subseteq main.listed
    BY <1>0, <1>7 DEF KeepInfo, PurgeDone, Mains, At
  <2> QED BY <1>0, <1>1, <2>1, <2>2 DEF ListIsAccurate, At
<1>8. ASSUME NEW n \in Names, NEW info \in TypeInfos \cup {NoInfo}, OthersWrite(n, info)
      PROVE  Advertised' /\ ListIsAccurate'
  <2>1. /\ life'.touched = life.touched \cup {n} /\ provider' = provider
        /\ main'.pc = main.pc /\ main'.listed = main.listed
    BY <1>0, <1>8, OthersTypes DEF OthersWrite
  <2>2. \A m \in Names \ {n} : infos'[m] = infos[m]
    BY <1>0, <1>8 DEF OthersWrite, TypeOK
  <2>3. Advertised'
    BY <1>0, <2>1, <2>2, StillAdvertised
  <2>4. ListIsAccurate'
    BY <1>0, <2>1, <2>2 DEF ListIsAccurate, At, Mains
  <2> QED BY <2>3, <2>4
<1>9. CASE Restart
  <2>1. \A pair \in Pairs : provider'[pair] = Nobody
    BY <1>9 DEF Restart, NoProvider
  <2>2. main'.pc # "purge"
    BY <1>0, <1>9, RestartTypes
  <2> QED BY <1>2, <2>1, <2>2 DEF Advertised
<1>10. CASE UNCHANGED vars
  <2>1. UNCHANGED <<provider, infos, main, life>>
    BY <1>10 DEF vars
  <2> QED BY <1>0, <1>1, <2>1 DEF ListIsAccurate, At
<1> QED BY <1>3, <1>4, <1>5, <1>6, <1>7, <1>8, <1>9, <1>10 DEF Next, Main

LEMMA AdvertisedInit == Init => AdvertisedInv
<1> SUFFICES ASSUME Init PROVE AdvertisedInv
  OBVIOUS
<1>1. main.pc = "load"
  BY StartTypes DEF Init
<1>2. \A pair \in Pairs : provider[pair] = Nobody
  BY DEF Init, NoProvider
<1> QED BY <1>1, <1>2, InitInv DEF AdvertisedInv, Advertised, ListIsAccurate, At

\* No plugin serves a pair before the cluster advertises the pair as that
\* plugin offers it, whatever fails and however often the operator restarts.
THEOREM AdvertisedBeforeServed == Spec => []Advertised
<1>1. AdvertisedInv /\ [Next]_vars => AdvertisedInv'
  BY StepInv, AdvertisedStep DEF AdvertisedInv
<1>2. AdvertisedInv => Advertised
  BY DEF AdvertisedInv
<1> QED BY <1>1, <1>2, AdvertisedInit, PTL DEF Spec

-----------------------------------------------------------------------------
(***************************************************************************)
(* The purge.  What it still has to look at is on its list: a              *)
(* CapabilityInfo whose pair nothing serves leaves the list only by being  *)
(* deleted or by being named in the error the purge returns.               *)
(***************************************************************************)
PurgeKeepsUp ==
    At("purge") =>
        \A n \in Names \ (main.failed \cup life.rewritten) : infos[n] # NoInfo =>
            \/ provider[infos[n].pair] # Nobody
            \/ [name |-> n, pair |-> infos[n].pair] \in main.listed

PurgedIsServing == life.purged => At("serving")

PurgeInv == AdvertisedInv /\ PurgeKeepsUp /\ PurgedIsServing /\ PurgeIsThorough

\* What the steps of a purge come to.
LEMMA PurgeInfoStep ==
    ASSUME TypeOK, PurgeInfo
    PROVE  \E info \in main.listed, failed \in SUBSET Names :
              /\ provider[info.pair] = Nobody /\ provider' = provider /\ life' = life
              /\ main.pc = "purge" /\ main'.pc = "purge"
              /\ main'.listed = main.listed \ {info}
              /\ main'.failed = (main.failed \cup failed)
              /\ Remove(info) \/ (UNCHANGED infos /\ info.name \in failed)
<1>1. \A info \in main.listed : {info.name} \in SUBSET Names
  BY DEF TypeOK, Mains
<1>2. PICK info \in main.listed, failed \in SUBSET Names :
        /\ provider[info.pair] = Nobody
        /\ Purged(info, failed)
        /\ Remove(info) \/ (UNCHANGED infos /\ info.name \in failed)
  BY <1>1 DEF PurgeInfo, GetPluginFor
<1>3. /\ main'.pc = main.pc
      /\ main'.listed = main.listed \ {info}
      /\ main'.failed = (main.failed \cup failed)
  BY <1>2 DEF Purged, TypeOK, Mains
<1> QED BY <1>2, <1>3 DEF PurgeInfo, At

\* The steps that lead to no purge and leave no purge behind.
LEMMA LoadingPurgesNothing ==
    ASSUME DirectoryInv, PurgedIsServing,
           \/ LoadPlugin \/ PluginLoaded \/ SkipTaken \/ GetInfo \/ UpdateInfo \/ CreateInfo
           \/ AllLoaded \/ Restart
    PROVE  main'.pc # "purge" /\ ~life'.purged
<1>0. TypeOK /\ main \in Mains
  BY DEF DirectoryInv, TypeOK
<1>1. CASE Restart
  <2>1. ~life'.purged
    BY <1>1 DEF Restart, Start, NewLife
  <2> QED BY <1>1, <2>1, RestartTypes
<1>2. CASE \/ LoadPlugin \/ PluginLoaded \/ SkipTaken \/ GetInfo \/ UpdateInfo \/ CreateInfo
           \/ AllLoaded
  <2>1. ~life.purged
    BY <1>2
    DEF PurgedIsServing, LoadPlugin, PluginLoaded, SkipTaken, GetInfo, UpdateInfo, CreateInfo,
        AllLoaded, At
  <2>2. CASE UpdateInfo \/ CreateInfo
    BY <1>0, <1>2, <2>1, <2>2, LoadingHistory, StoreStep, NextOfferTypes
  <2>3. CASE LoadPlugin \/ PluginLoaded \/ SkipTaken \/ GetInfo \/ AllLoaded
    <3>1. main'.pc # "purge"
      BY <1>0, <2>3
      DEF LoadPlugin, PluginLoaded, SkipTaken, GetInfo, AllLoaded, Ignore, NextOffer, Mains
    <3> QED BY <1>2, <2>1, <3>1, LoadingHistory
  <2> QED BY <1>2, <2>2, <2>3
<1> QED BY <1>1, <1>2

LEMMA PurgeStep ==
    PurgeInv /\ [Next]_vars => PurgeKeepsUp' /\ PurgedIsServing' /\ PurgeIsThorough'
<1> SUFFICES ASSUME PurgeInv, [Next]_vars
             PROVE  PurgeKeepsUp' /\ PurgedIsServing' /\ PurgeIsThorough'
  OBVIOUS
<1>0. /\ DirectoryInv /\ PurgeKeepsUp /\ PurgedIsServing /\ PurgeIsThorough
      /\ TypeOK /\ main \in Mains /\ life \in Lives
      /\ infos \in [Names -> TypeInfos \cup {NoInfo}]
  BY DEF PurgeInv, AdvertisedInv, DirectoryInv, TypeOK
<1>1. CASE \/ LoadPlugin \/ PluginLoaded \/ SkipTaken \/ GetInfo \/ UpdateInfo \/ CreateInfo
           \/ AllLoaded \/ Restart
  BY <1>0, <1>1, LoadingPurgesNothing DEF PurgeKeepsUp, PurgedIsServing, PurgeIsThorough, At
<1>2. CASE ListInfos
  <2>1. ~life'.purged
    BY <1>0, <1>2 DEF ListInfos, PurgedIsServing, At, Lives
  <2>2. UNCHANGED <<provider, infos>>
    BY <1>2 DEF ListInfos
  <2>3. main'.pc = "purge" => main'.listed =
          {[name |-> n, pair |-> infos[n].pair] : n \in {m \in Names : infos[m] # NoInfo}}
    BY <1>0, <1>2 DEF ListInfos, Mains
  <2> QED BY <2>1, <2>2, <2>3 DEF PurgeKeepsUp, PurgedIsServing, PurgeIsThorough, At
<1>3. CASE PurgeInfo
  <2>1. PICK info \in main.listed, failed \in SUBSET Names :
              /\ provider[info.pair] = Nobody /\ provider' = provider /\ life' = life
              /\ main.pc = "purge" /\ main'.pc = "purge"
              /\ main'.listed = main.listed \ {info}
              /\ main'.failed = (main.failed \cup failed)
              /\ Remove(info) \/ (UNCHANGED infos /\ info.name \in failed)
    BY <1>0, <1>3, PurgeInfoStep
  <2>2. ~life'.purged
    BY <1>0, <2>1 DEF PurgedIsServing, At
  <2>3. PurgeKeepsUp'
    <3>1. SUFFICES ASSUME NEW n \in Names, n \notin main'.failed, n \notin life.rewritten,
                          infos'[n] # NoInfo
                   PROVE  \/ provider[infos'[n].pair] # Nobody
                          \/ [name |-> n, pair |-> infos'[n].pair] \in main'.listed
      BY <2>1 DEF PurgeKeepsUp
    <3>2. n # info.name /\ infos'[n] = infos[n] /\ n \notin main.failed
      BY <1>0, <2>1, <3>1 DEF Remove
    <3>3. \/ provider[infos[n].pair] # Nobody
          \/ [name |-> n, pair |-> infos[n].pair] \in main.listed
      BY <1>0, <2>1, <3>1, <3>2 DEF PurgeKeepsUp, At
    <3>4. [name |-> n, pair |-> infos[n].pair] # info
      BY <3>2
    <3> QED BY <2>1, <3>2, <3>3, <3>4
  <2> QED BY <2>2, <2>3 DEF PurgedIsServing, PurgeIsThorough
<1>4. CASE KeepInfo
  <2>1. PICK info \in main.listed :
          /\ provider[info.pair] # Nobody
          /\ main' = [main EXCEPT !.listed = @ \ {info}]
    BY <1>4 DEF KeepInfo, GetPluginFor
  <2>2. /\ main'.pc = "purge" /\ main.pc = "purge"
        /\ main'.listed = main.listed \ {info} /\ main'.failed = main.failed
        /\ UNCHANGED <<provider, infos, life>>
    BY <1>0, <1>4, <2>1 DEF KeepInfo, Mains, At
  <2>3. ~life'.purged
    BY <1>0, <2>2 DEF PurgedIsServing, At
  <2>4. \A n \in Names : [name |-> n, pair |-> infos[n].pair] = info =>
           provider[infos[n].pair] # Nobody
    BY <2>1
  <2>5. PurgeKeepsUp'
    BY <1>0, <2>2, <2>4 DEF PurgeKeepsUp, At
  <2> QED BY <2>3, <2>5 DEF PurgedIsServing, PurgeIsThorough
<1>5. CASE PurgeDone
  <2>1. /\ main.pc = "purge" /\ main.listed = {} /\ main'.pc = "serving"
        /\ UNCHANGED <<provider, infos>>
        /\ life'.rewritten = life.rewritten /\ main'.failed = main.failed
    BY <1>0, <1>5 DEF PurgeDone, At, Mains, Lives
  <2> QED BY <1>0, <2>1 DEF PurgeKeepsUp, PurgedIsServing, PurgeIsThorough, At
<1>6. ASSUME NEW n \in Names, NEW info \in TypeInfos \cup {NoInfo}, OthersWrite(n, info)
      PROVE  PurgeKeepsUp' /\ PurgedIsServing' /\ PurgeIsThorough'
  <2>1. /\ provider' = provider
        /\ main'.pc = main.pc /\ main'.listed = main.listed
    BY <1>0, <1>6, OthersTypes DEF OthersWrite
  <2>2. /\ main'.failed = main.failed /\ life'.purged = life.purged
        /\ life'.rewritten = life.rewritten \cup {n}
        /\ \A m \in Names \ {n} : infos'[m] = infos[m]
    BY <1>0, <1>6 DEF OthersWrite, Mains, Lives
  <2> QED BY <1>0, <2>1, <2>2 DEF PurgeKeepsUp, PurgedIsServing, PurgeIsThorough, At
<1>7. CASE UNCHANGED vars
  BY <1>0, <1>7 DEF vars, PurgeKeepsUp, PurgedIsServing, PurgeIsThorough, At
<1> QED BY <1>1, <1>2, <1>3, <1>4, <1>5, <1>6, <1>7 DEF Next, Main

LEMMA PurgeInit == Init => PurgeInv
<1> SUFFICES ASSUME Init PROVE PurgeInv
  OBVIOUS
<1>1. main.pc = "load" /\ ~life.purged
  BY StartTypes DEF Init, NewLife
<1> QED BY <1>1, AdvertisedInit
        DEF PurgeInv, PurgeKeepsUp, PurgedIsServing, PurgeIsThorough, At

\* After a purge every CapabilityInfo is of a pair some plugin serves,
\* whichever lives of the operator and whichever former plugins it dates
\* from, unless the error the purge returns names it or somebody wrote it
\* after the purge listed it.
THEOREM PurgeLeavesNothing == Spec => []PurgeIsThorough
<1>1. PurgeInv /\ [Next]_vars => PurgeInv'
  BY StepInv, AdvertisedStep, PurgeStep DEF PurgeInv, AdvertisedInv
<1>2. PurgeInv => PurgeIsThorough
  BY DEF PurgeInv
<1> QED BY <1>1, <1>2, PurgeInit, PTL DEF Spec

-----------------------------------------------------------------------------
(***************************************************************************)
(* The first plugin to offer a pair serves it.  The files left to load are *)
(* the rest of the directory.  A pair nobody serves is one whose offers so *)
(* far were refused; a pair somebody serves went to the first file whose   *)
(* offer was not.                                                          *)
(***************************************************************************)
OffersPair(p, pair) == \E info \in OfferedBy(p) : info.pair = pair

Loaded == Len(life.directory) - Len(main.files)

\* The plugin being loaded included.
Tried == IF Registering THEN Loaded + 1 ELSE Loaded

Takes(i, pair) ==
    /\ OffersPair(life.directory[i], pair)
    /\ <<life.directory[i], pair>> \notin life.refused

FilesAreTheRest ==
    /\ IsInjective(life.directory)
    /\ Len(main.files) <= Len(life.directory)
    /\ \A i \in 1..Len(main.files) : main.files[i] = life.directory[Loaded + i]
    /\ main.pc \in {"list", "purge", "serving"} => main.files = <<>>

\* No plugin that is done left a pair it could have had ...
FreeIsRefused ==
    \A pair \in Pairs : provider[pair] = Nobody => \A i \in 1..Loaded : ~Takes(i, pair)

\* ... nor does the one whose turn it is pass one over ...
FreeIsLeft ==
    Registering =>
        \A pair \in Pairs : provider[pair] = Nobody /\ OffersPair(Plugin, pair) =>
            \/ <<Plugin, pair>> \in life.refused
            \/ \E k \in 1..Len(main.offers) : main.offers[k].pair = pair

\* ... and whoever has a pair came first.
FirstTook ==
    \A pair \in Pairs : provider[pair] # Nobody =>
        \E i \in 1..Tried :
            /\ life.directory[i] = provider[pair]
            /\ Takes(i, pair)
            /\ \A j \in 1..(i - 1) : ~Takes(j, pair)

Turns == FilesAreTheRest /\ FreeIsRefused /\ FreeIsLeft /\ FirstTook

TurnsInv == DirectoryInv /\ Turns

LEMMA LoadedType ==
    ASSUME TypeOK, FilesAreTheRest
    PROVE  /\ Loaded \in Nat /\ Len(main.files) \in Nat /\ Len(life.directory) \in Nat
           /\ main.files # <<>> => /\ Loaded + 1 \in 1..Len(life.directory)
                                   /\ Plugin = life.directory[Loaded + 1]
           /\ main.files = <<>> => Loaded = Len(life.directory)
<1>1. /\ main.files \in Seq(Plugins) /\ life.directory \in Seq(Plugins)
      /\ Len(main.files) \in Nat /\ Len(life.directory) \in Nat
  BY LenProperties DEF TypeOK, Mains, Lives
<1>2. Loaded \in Nat
  BY <1>1 DEF FilesAreTheRest, Loaded
<1>3. ASSUME main.files # <<>>
      PROVE  /\ Loaded + 1 \in 1..Len(life.directory)
             /\ Plugin = life.directory[Loaded + 1]
  <2>1. 1 \in 1..Len(main.files) /\ Plugin = main.files[1]
    BY <1>1, <1>3, HeadTailProperties, EmptySeq DEF Plugin
  <2>2. Plugin = life.directory[Loaded + 1]
    BY <2>1 DEF FilesAreTheRest
  <2>3. Loaded + 1 \in 1..Len(life.directory)
    <3>1. \A f, l \in Nat : f <= l /\ 1 \in 1..f => l - f + 1 \in 1..l
      OBVIOUS
    <3>2. Len(main.files) <= Len(life.directory)
      BY DEF FilesAreTheRest
    <3> QED BY <1>1, <2>1, <3>1, <3>2, Zenon DEF Loaded
  <2> QED BY <2>2, <2>3
<1>4. ASSUME main.files = <<>>
      PROVE  Loaded = Len(life.directory)
  <2>1. Len(main.files) = 0
    BY <1>4, EmptySeq, Zenon
  <2> QED BY <1>1, <2>1 DEF Loaded
<1> QED BY <1>1, <1>2, <1>3, <1>4

LEMMA DroppedOffer ==
    ASSUME TypeOK, main.offers # <<>>
    PROVE  \A pair : /\ pair # Offer.pair
                     /\ \E i \in 1..Len(main.offers) : main.offers[i].pair = pair
              => \E i \in 1..Len(Tail(main.offers)) : Tail(main.offers)[i].pair = pair
<1> SUFFICES ASSUME NEW pair, pair # Offer.pair,
                    NEW i \in 1..Len(main.offers), main.offers[i].pair = pair
             PROVE  \E j \in 1..Len(Tail(main.offers)) : Tail(main.offers)[j].pair = pair
  OBVIOUS
<1>1. /\ Len(main.offers) \in Nat /\ Len(Tail(main.offers)) = Len(main.offers) - 1
      /\ \A j \in 1..Len(Tail(main.offers)) : Tail(main.offers)[j] = main.offers[j + 1]
      /\ Offer = main.offers[1]
  BY HeadTailProperties, LenProperties DEF TypeOK, Mains, Offer
<1>2. i # 1
  BY <1>1
<1>3. i - 1 \in 1..Len(Tail(main.offers)) /\ (i - 1) + 1 = i
  BY <1>1, <1>2
<1> QED BY <1>1, <1>3

\* Steps that keep the registry and the files that are left, and refuse at
\* most offers of pairs nobody serves.
LEMMA TurnsStay ==
    ASSUME TurnsInv, provider' = provider,
           main'.files = main.files, life'.directory = life.directory,
           life.refused \subseteq life'.refused,
           \A p, pair : <<p, pair>> \in life'.refused \ life.refused => provider[pair] = Nobody,
           main'.pc \in {"list", "purge", "serving"} => main.files = <<>>,
           Registering => Registering',
           FreeIsLeft'
    PROVE  Turns'
<1>0. TypeOK /\ FilesAreTheRest /\ FreeIsRefused /\ FirstTook /\ Loaded \in Nat
  BY LoadedType DEF TurnsInv, Turns, DirectoryInv
<1>1. Loaded' = Loaded
  BY DEF Loaded
<1>2. 1..Tried \subseteq 1..(Tried') /\ Tried' \in Nat
  BY <1>0, <1>1 DEF Tried
<1>3. \A i, pair : Takes(i, pair)' => Takes(i, pair)
  BY DEF Takes, OffersPair, OfferedBy
<1>4. \A i, pair : provider[pair] # Nobody /\ Takes(i, pair) => Takes(i, pair)'
  BY DEF Takes, OffersPair, OfferedBy
<1>5. FilesAreTheRest'
  BY <1>0, <1>1 DEF FilesAreTheRest, IsInjective
<1>6. FreeIsRefused'
  BY <1>0, <1>1, <1>3 DEF FreeIsRefused
<1>7. FirstTook'
  <2> SUFFICES ASSUME NEW pair \in Pairs, provider[pair] # Nobody
               PROVE  \E i \in 1..(Tried') :
                         /\ life.directory[i] = provider[pair]
                         /\ Takes(i, pair)'
                         /\ \A j \in 1..(i - 1) : ~Takes(j, pair)'
    BY DEF FirstTook
  <2>1. PICK i \in 1..Tried : /\ life.directory[i] = provider[pair]
                              /\ Takes(i, pair)
                              /\ \A j \in 1..(i - 1) : ~Takes(j, pair)
    BY <1>0 DEF FirstTook
  <2> QED BY <1>2, <1>3, <1>4, <2>1
<1> QED BY <1>5, <1>6, <1>7 DEF Turns

\* The pair goes to the plugin whose turn it is.
LEMMA TurnsOnClaim ==
    ASSUME TurnsInv, RegisterPlugin, main.pc \in {"update", "create"}
    PROVE  Turns'
<1>0. /\ TypeOK /\ DirectoryInv /\ FilesAreTheRest /\ FreeIsRefused /\ FreeIsLeft /\ FirstTook
      /\ main.files # <<>> /\ main.offers # <<>> /\ Registering /\ NextOffer
      /\ provider \in [Pairs -> Plugins \cup {Nobody}]
  BY DEF TurnsInv, Turns, DirectoryInv, TypeOK, Registering, RegisterPlugin
<1>1. /\ main'.pc = "register" /\ main'.files = main.files /\ main'.offers = Tail(main.offers)
      /\ Offer.pair \in Pairs /\ Plugin \in Plugins /\ provider[Offer.pair] = Nobody
  BY <1>0, NextOfferTypes, OfferType, PluginType DEF DirectoryInv, StillFree
<1>2. OffersPair(Plugin, Offer.pair)
  BY <1>0, HeadTailProperties DEF DirectoryInv, OffersAreThePlugins, Offer, OffersPair
<1>3. /\ provider'[Offer.pair] = Plugin
      /\ \A pair \in Pairs : pair # Offer.pair => provider'[pair] = provider[pair]
  BY <1>0, <1>1 DEF RegisterPlugin
<1>4. /\ life'.directory = life.directory
      /\ life'.refused = life.refused \ {<<Plugin, Offer.pair>>}
  BY <1>0 DEF RegisterPlugin, TypeOK, Lives
<1>5. /\ Loaded \in Nat /\ Loaded + 1 \in 1..Len(life.directory)
      /\ Len(life.directory) \in Nat /\ DOMAIN life.directory = 1..Len(life.directory)
      /\ Plugin = life.directory[Loaded + 1]
  BY <1>0, LoadedType, LenProperties DEF TypeOK, Lives
<1>6. /\ Loaded' = Loaded /\ Plugin' = Plugin /\ Registering'
      /\ Tried = Loaded + 1 /\ Tried' = Loaded + 1
  BY <1>0, <1>1, <1>4 DEF Loaded, Plugin, Registering, Tried
<1>7. \A i, pair : pair # Offer.pair => (Takes(i, pair)' <=> Takes(i, pair))
  BY <1>4 DEF Takes, OffersPair, OfferedBy
<1>8. FilesAreTheRest'
  BY <1>0, <1>1, <1>4, <1>6 DEF FilesAreTheRest, IsInjective
<1>9. FreeIsRefused'
  <2> SUFFICES ASSUME NEW pair \in Pairs, provider'[pair] = Nobody,
                      NEW i \in 1..Loaded
               PROVE  ~Takes(i, pair)'
    BY <1>6 DEF FreeIsRefused
  <2>1. pair # Offer.pair
    BY <1>1, <1>3, NobodyAssumption
  <2> QED BY <1>0, <1>3, <1>7, <2>1 DEF FreeIsRefused
<1>10. FreeIsLeft'
  <2> SUFFICES ASSUME NEW pair \in Pairs, provider'[pair] = Nobody, OffersPair(Plugin, pair)
               PROVE  \/ <<Plugin, pair>> \in life'.refused
                      \/ \E k \in 1..Len(main'.offers) : main'.offers[k].pair = pair
    BY <1>6 DEF FreeIsLeft, OffersPair, OfferedBy
  <2>1. pair # Offer.pair
    BY <1>1, <1>3, NobodyAssumption
  <2>2. \/ <<Plugin, pair>> \in life.refused
        \/ \E k \in 1..Len(main.offers) : main.offers[k].pair = pair
    BY <1>0, <1>3, <2>1 DEF FreeIsLeft
  <2>3. CASE \E k \in 1..Len(main.offers) : main.offers[k].pair = pair
    BY <1>0, <1>1, <2>1, <2>3, DroppedOffer
  <2> QED BY <1>4, <2>1, <2>2, <2>3
<1>11. FirstTook'
  <2> SUFFICES ASSUME NEW pair \in Pairs, provider'[pair] # Nobody
               PROVE  \E i \in 1..(Loaded + 1) :
                         /\ life.directory[i] = provider'[pair]
                         /\ Takes(i, pair)'
                         /\ \A j \in 1..(i - 1) : ~Takes(j, pair)'
    BY <1>4, <1>6 DEF FirstTook
  <2>1. CASE pair # Offer.pair
    <3>1. provider[pair] # Nobody
      BY <1>3, <2>1
    <3>2. PICK i \in 1..(Loaded + 1) : /\ life.directory[i] = provider[pair]
                                       /\ Takes(i, pair)
                                       /\ \A j \in 1..(i - 1) : ~Takes(j, pair)
      BY <1>0, <1>6, <3>1 DEF FirstTook
    <3> QED BY <1>3, <1>7, <2>1, <3>2
  <2>2. CASE pair = Offer.pair
    <3>1. \A i : i = Loaded + 1 => Takes(i, pair)'
      BY <1>2, <1>4, <1>5, <2>2 DEF Takes, OffersPair, OfferedBy
    <3>2. ASSUME NEW j \in 1..Loaded
          PROVE  ~Takes(j, pair)'
      <4>1. life.directory[j] # Plugin
        <5>1. j \in 1..Len(life.directory) /\ j # Loaded + 1
          BY <1>5
        <5> QED BY <1>0, <1>5, <5>1 DEF FilesAreTheRest, IsInjective
      <4>2. ~Takes(j, pair)
        BY <1>0, <1>1, <2>2 DEF FreeIsRefused
      <4> QED BY <1>4, <4>1, <4>2 DEF Takes, OffersPair, OfferedBy
    <3>3. Loaded + 1 \in 1..(Loaded + 1) /\ (Loaded + 1) - 1 = Loaded
      BY <1>5
    <3> QED BY <1>3, <1>5, <2>2, <3>1, <3>2, <3>3
  <2> QED BY <2>1, <2>2
<1> QED BY <1>8, <1>9, <1>10, <1>11 DEF Turns

\* The next plugin's turn.
LEMMA TurnsOnLoaded ==
    ASSUME TurnsInv, PluginLoaded
    PROVE  Turns'
<1>0. /\ TypeOK /\ FilesAreTheRest /\ FreeIsRefused /\ FreeIsLeft /\ FirstTook
      /\ main \in Mains /\ Registering /\ main.files # <<>> /\ main.offers = <<>>
      /\ UNCHANGED <<provider, life>>
  BY DEF TurnsInv, Turns, DirectoryInv, TypeOK, PluginLoaded, At, Registering
<1>1. /\ main'.pc = "load" /\ main'.files = Tail(main.files) /\ ~Registering'
  BY <1>0, PluginType DEF PluginLoaded, Mains, Registering
<1>2. /\ Len(main.files) \in Nat /\ Len(main.files) # 0
      /\ Len(main'.files) = Len(main.files) - 1
      /\ \A i \in 1..Len(main'.files) : main'.files[i] = main.files[i + 1]
  BY <1>0, <1>1, HeadTailProperties, LenProperties, EmptySeq DEF Mains
<1>3. /\ Loaded \in Nat /\ Len(life.directory) \in Nat
      /\ Loaded + 1 \in 1..Len(life.directory) /\ Plugin = life.directory[Loaded + 1]
  BY <1>0, LoadedType
<1>4. Loaded' = Loaded + 1 /\ Tried = Loaded + 1 /\ Tried' = Loaded + 1
  <2>1. Loaded' = Loaded + 1
    BY <1>0, <1>2, <1>3 DEF Loaded
  <2> QED BY <1>0, <1>1, <2>1 DEF Tried
<1>5. \A i, pair : Takes(i, pair)' <=> Takes(i, pair)
  BY <1>0 DEF Takes, OffersPair, OfferedBy
<1>6. FilesAreTheRest'
  <2>1. Len(main'.files) <= Len(life'.directory)
    BY <1>0, <1>2, <1>3 DEF FilesAreTheRest
  <2>2. ASSUME NEW i \in 1..Len(main'.files)
        PROVE  main'.files[i] = life'.directory[Loaded' + i]
    <3>1. i + 1 \in 1..Len(main.files) /\ Loaded + (i + 1) = Loaded + 1 + i
      BY <1>2, <1>3
    <3>2. main.files[i + 1] = life.directory[Loaded + (i + 1)]
      BY <1>0, <3>1 DEF FilesAreTheRest
    <3> QED BY <1>0, <1>2, <1>4, <3>1, <3>2
  <2>3. IsInjective(life.directory)'
    BY <1>0 DEF FilesAreTheRest, IsInjective
  <2> QED BY <1>1, <2>1, <2>2, <2>3 DEF FilesAreTheRest
<1>7. FreeIsRefused'
  <2> SUFFICES ASSUME NEW pair \in Pairs, provider[pair] = Nobody,
                      NEW i \in 1..(Loaded + 1)
               PROVE  ~Takes(i, pair)
    BY <1>0, <1>4, <1>5 DEF FreeIsRefused
  <2>1. CASE i \in 1..Loaded
    BY <1>0, <2>1 DEF FreeIsRefused
  <2>2. CASE i = Loaded + 1
    <3>1. Len(main.offers) = 0
      BY <1>0, EmptySeq, Zenon
    <3>2. ~(\E k \in 1..Len(main.offers) : main.offers[k].pair = pair)
      BY <3>1
    <3> QED BY <1>0, <1>3, <2>2, <3>2 DEF FreeIsLeft, Takes
  <2> QED BY <1>3, <2>1, <2>2
<1>8. FreeIsLeft'
  BY <1>1 DEF FreeIsLeft
<1>9. FirstTook'
  BY <1>0, <1>4, <1>5 DEF FirstTook
<1> QED BY <1>6, <1>7, <1>8, <1>9 DEF Turns

\* A life starts with the whole directory to load.
LEMMA TurnsAtStart ==
    ASSUME NEW files \in Directories
    PROVE  /\ main = Starting(files) /\ life = NewLife(files) /\ provider = NoProvider => Turns
           /\ Start(files) /\ provider' = NoProvider => Turns'
<1> DEFINE start == Starting(files)
           new == NewLife(files)
<1>1. /\ Len(files) \in Nat /\ IsInjective(files)
      /\ start.pc = "load" /\ start.files = files
      /\ new.directory = files
  BY RegistryAssumption, LenProperties DEF Starting, NewLife
<1>2. NoProvider \in [Pairs -> {Nobody}]
  BY DEF NoProvider
<1> HIDE DEF start, new
<1>3. ASSUME main = start, life = new, provider = NoProvider
      PROVE  Turns
  <2>1. Loaded = 0
    BY <1>1, <1>3 DEF Loaded
  <2> QED BY <1>1, <1>2, <1>3, <2>1
          DEF Turns, FilesAreTheRest, FreeIsRefused, FreeIsLeft, FirstTook, Registering
<1>4. ASSUME main' = start, life' = new, provider' = NoProvider
      PROVE  Turns'
  <2>1. Loaded' = 0 /\ IsInjective(life.directory)'
    BY <1>1, <1>4 DEF Loaded, IsInjective
  <2> QED BY <1>1, <1>2, <1>4, <2>1
          DEF Turns, FilesAreTheRest, FreeIsRefused, FreeIsLeft, FirstTook, Registering
<1> QED BY <1>3, <1>4 DEF Start, start, new

LEMMA TurnsStep == TurnsInv /\ [Next]_vars => Turns'
<1> SUFFICES ASSUME TurnsInv, [Next]_vars PROVE Turns'
  OBVIOUS
<1>0. /\ DirectoryInv /\ TypeOK /\ FilesAreTheRest /\ FreeIsLeft
      /\ main \in Mains /\ life \in Lives
  BY DEF TurnsInv, Turns, DirectoryInv, TypeOK
<1>1. CASE LoadPlugin
  <2>1. /\ main.pc = "load" /\ main.files # <<>> /\ provider' = provider
        /\ main'.pc = "register" /\ main'.files = main.files
        /\ \/ main'.offers = Offers[Plugin] /\ life' = life
           \/ RefuseAll(Plugin)
    BY <1>0, <1>1 DEF LoadPlugin, At, Mains
  <2>2. Plugin' = Plugin /\ life'.directory = life.directory
    BY <1>0, <1>1, <2>1, LoadingHistory DEF Plugin
  <2>3. CASE main'.offers = Offers[Plugin] /\ life' = life
    <3>1. Len(Offers[Plugin]) \in Nat /\ DOMAIN Offers[Plugin] = 1..Len(Offers[Plugin])
      BY <1>0, <2>1, PluginType, RegistryAssumption, LenProperties
    <3>2. \A pair : OffersPair(Plugin, pair) =>
             \E k \in 1..Len(Offers[Plugin]) : Offers[Plugin][k].pair = pair
      BY <3>1 DEF OffersPair, OfferedBy
    <3>3. FreeIsLeft'
      BY <2>1, <2>2, <2>3, <3>2 DEF FreeIsLeft, OffersPair, OfferedBy
    <3> QED BY <2>1, <2>3, <3>3, TurnsStay DEF Registering
  <2>4. CASE RefuseAll(Plugin)
    <3>1. life'.refused = life.refused \cup
            {<<Plugin, info.pair>> :
                info \in {i \in OfferedBy(Plugin) : provider[i.pair] = Nobody}}
      BY <1>0, <2>4 DEF RefuseAll, Lives
    <3>2. FreeIsLeft'
      BY <2>1, <2>2, <3>1 DEF FreeIsLeft, OffersPair, OfferedBy
    <3> QED BY <2>1, <2>2, <3>1, <3>2, TurnsStay DEF Registering
  <2> QED BY <2>1, <2>3, <2>4
\* The first offer is dropped: another plugin has the pair, or an error.
<1>2. ASSUME Registering, main.files # <<>>, main.offers # <<>>, NextOffer,
             provider' = provider,
             \/ Ignore /\ provider[Offer.pair] = Nobody
             \/ life' = life /\ provider[Offer.pair] # Nobody
      PROVE  Turns'
  <2>1. /\ main'.pc = "register" /\ main'.files = main.files
        /\ main'.offers = Tail(main.offers)
        /\ Plugin' = Plugin
    BY <1>0, <1>2, NextOfferTypes DEF Plugin
  <2>2. /\ life'.directory = life.directory
        /\ \/ life'.refused = life.refused \cup {<<Plugin, Offer.pair>>}
           \/ life'.refused = life.refused /\ provider[Offer.pair] # Nobody
    BY <1>0, <1>2 DEF Ignore, Lives
  <2>3. \A p, pair : <<p, pair>> \in life'.refused \ life.refused => provider[pair] = Nobody
    BY <1>2, <2>2
  <2>4. ASSUME NEW pair \in Pairs, provider[pair] = Nobody, OffersPair(Plugin, pair)
        PROVE  \/ <<Plugin, pair>> \in life'.refused
               \/ \E k \in 1..Len(main'.offers) : main'.offers[k].pair = pair
    <3>1. \/ <<Plugin, pair>> \in life.refused
          \/ \E k \in 1..Len(main.offers) : main.offers[k].pair = pair
      BY <1>0, <1>2, <2>4 DEF FreeIsLeft
    <3>2. CASE pair = Offer.pair
      BY <2>2, <2>4, <3>2
    <3>3. CASE /\ pair # Offer.pair
               /\ \E k \in 1..Len(main.offers) : main.offers[k].pair = pair
      <4>1. \E k \in 1..Len(Tail(main.offers)) : Tail(main.offers)[k].pair = pair
        BY <1>0, <1>2, <3>3, DroppedOffer, Zenon
      <4> QED BY <2>1, <4>1
    <3> QED BY <2>2, <3>1, <3>2, <3>3
  <2>5. FreeIsLeft'
    BY <1>2, <2>1, <2>4 DEF FreeIsLeft, OffersPair, OfferedBy
  <2> QED BY <1>2, <2>1, <2>2, <2>3, <2>5, TurnsStay DEF Registering
<1>3. CASE PluginLoaded
  BY <1>3, TurnsOnLoaded
<1>4. CASE SkipTaken
  <2>1. /\ Registering /\ main.files # <<>> /\ main.offers # <<>> /\ NextOffer
        /\ provider' = provider /\ life' = life /\ provider[Offer.pair] # Nobody
    BY <1>0, <1>4 DEF SkipTaken, At, TypeOK, Registering
  <2> QED BY <1>2, <2>1
\* Steps that keep the offers too.
<1>5. ASSUME provider' = provider, main'.files = main.files, main'.offers = main.offers,
             life'.directory = life.directory, life'.refused = life.refused,
             main'.pc \in {"list", "purge", "serving"} => main.files = <<>>,
             Registering' = Registering
      PROVE  Turns'
  <2>1. FreeIsLeft'
    BY <1>0, <1>5 DEF FreeIsLeft, OffersPair, OfferedBy, Plugin
  <2> QED BY <1>5, <2>1, TurnsStay
<1>6. CASE GetInfo
  <2>1. /\ Registering /\ main.files # <<>> /\ main.offers # <<>> /\ main.pc = "register"
        /\ provider' = provider /\ provider[Offer.pair] = Nobody
    BY <1>0, <1>6 DEF GetInfo, Ignore, At, TypeOK, Registering
  <2>2. CASE Ignore
    BY <1>2, <2>1, <2>2 DEF Ignore
  <2>3. CASE /\ life' = life
             /\ \/ main' = [main EXCEPT !.pc = "update", !.fresh = TRUE]
                \/ main' = [main EXCEPT !.pc = "create"]
    <3>1. /\ main'.pc \in {"update", "create"} /\ main'.files = main.files
          /\ main'.offers = main.offers
      BY <1>0, <2>3 DEF Mains
    <3> QED BY <1>5, <2>1, <2>3, <3>1 DEF Registering
  <2> QED BY <1>6, <2>2, <2>3 DEF GetInfo
<1>7. CASE UpdateInfo \/ CreateInfo
  <2>1. /\ Registering /\ main.files # <<>> /\ main.offers # <<>> /\ NextOffer
        /\ main.pc \in {"update", "create"}
    BY <1>0, <1>7, StoreStep DEF UpdateInfo, CreateInfo, At
  <2>2. RegisterPlugin \/ (Ignore /\ provider' = provider)
    BY <1>0, <1>7, StoreStep
  <2>3. provider[Offer.pair] = Nobody
    BY <1>0, <2>1 DEF DirectoryInv, StillFree
  <2> QED BY <1>2, <2>1, <2>2, <2>3, TurnsOnClaim
<1>8. CASE AllLoaded \/ ListInfos \/ PurgeInfo \/ KeepInfo \/ PurgeDone
  <2>1. /\ ~Registering /\ main.files = <<>> /\ provider' = provider
    BY <1>0, <1>8
    DEF AllLoaded, ListInfos, PurgeInfo, KeepInfo, PurgeDone, At, Registering, FilesAreTheRest
  <2>2. /\ main'.files = main.files /\ main'.offers = main.offers
        /\ main'.pc \in {"list", "purge", "serving"}
    BY <1>0, <1>8
    DEF AllLoaded, ListInfos, PurgeInfo, KeepInfo, PurgeDone, Purged, At, Mains
  <2>3. life'.directory = life.directory /\ life'.refused = life.refused
    BY <1>0, <1>8 DEF AllLoaded, ListInfos, PurgeInfo, KeepInfo, PurgeDone, Lives
  <2> QED BY <1>5, <2>1, <2>2, <2>3 DEF Registering
<1>9. ASSUME NEW n \in Names, NEW info \in TypeInfos \cup {NoInfo}, OthersWrite(n, info)
      PROVE  Turns'
  <2>1. /\ provider' = provider /\ main'.pc = main.pc /\ main'.files = main.files
        /\ main'.offers = main.offers
        /\ life'.directory = life.directory /\ life'.refused = life.refused
    BY <1>0, <1>9 DEF OthersWrite, Mains, Lives
  <2> QED BY <1>0, <1>5, <2>1 DEF Registering, FilesAreTheRest
<1>10. CASE Restart
  BY <1>10, TurnsAtStart DEF Restart
<1>11. CASE UNCHANGED vars
  <2>1. UNCHANGED <<provider, main, life>>
    BY <1>11 DEF vars
  <2> QED BY <1>0, <1>5, <2>1 DEF Registering, FilesAreTheRest
<1> QED BY <1>1, <1>3, <1>4, <1>6, <1>7, <1>8, <1>9, <1>10, <1>11 DEF Next, Main

\* Once the operator serves, the first plugin of the directory that offers a
\* pair serves it, whatever the number of plugins and offers and whatever
\* failed; passed over is only a plugin whose offer of that pair an error
\* made register ignore.
THEOREM FirstOfferServes == Spec => []OfferedIsProvided
<1>1. Init => TurnsInv
  <2> SUFFICES ASSUME Init PROVE Turns
    BY InitInv DEF TurnsInv
  <2> QED BY TurnsAtStart DEF Init
<1>2. TurnsInv /\ [Next]_vars => TurnsInv'
  BY StepInv, TurnsStep DEF TurnsInv
<1>3. TurnsInv => OfferedIsProvided
  <2> SUFFICES ASSUME TurnsInv, At("serving"), NEW pair \in Pairs
               PROVE  /\ \A i \in Takers(pair) :
                            (\A j \in Takers(pair) : i <= j) => provider[pair] = life.directory[i]
                      /\ Takers(pair) = {} => provider[pair] = Nobody
    BY DEF OfferedIsProvided
  <2>1. /\ TypeOK /\ FilesAreTheRest /\ FreeIsRefused /\ FirstTook /\ main.files = <<>>
        /\ ~Registering
    BY DEF TurnsInv, Turns, DirectoryInv, FilesAreTheRest, At, Registering
  <2>2. /\ DOMAIN life.directory = 1..Loaded /\ Tried = Loaded /\ Loaded \in Nat
    BY <2>1, LoadedType, LenProperties DEF TypeOK, Lives, Tried
  <2>3. Takers(pair) = {i \in 1..Loaded : Takes(i, pair)}
    BY <2>2 DEF Takers, Takes, OffersPair
  <2>4. CASE provider[pair] = Nobody
    BY <2>1, <2>3, <2>4 DEF FreeIsRefused
  <2>5. CASE provider[pair] # Nobody
    <3>1. PICK i \in 1..Loaded : /\ life.directory[i] = provider[pair]
                                 /\ Takes(i, pair)
                                 /\ \A j \in 1..(i - 1) : ~Takes(j, pair)
      BY <2>1, <2>2, <2>5 DEF FirstTook
    <3>2. i \in Takers(pair) /\ \A j \in Takers(pair) : i <= j
      BY <2>2, <2>3, <3>1
    <3>3. \A k \in Takers(pair) : (\A j \in Takers(pair) : k <= j) => k = i
      BY <2>2, <2>3, <3>2
    <3> QED BY <3>1, <3>2, <3>3
  <2> QED BY <2>4, <2>5
<1> QED BY <1>1, <1>2, <1>3, PTL DEF Spec
=============================================================================
