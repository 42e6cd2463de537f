------------------------- MODULE CapabilityRegistry -------------------------
(***************************************************************************)
(* The registry of capability plugins (plugins/capability/registry.go) and *)
(* the CapabilityInfo objects that advertise them on the cluster.  The     *)
(* operator's main function loads its plugins one after the other          *)
(* (NewPlugin, client.go), may then call PurgeCapabilityInfos, and serves. *)
(*                                                                         *)
(* A pair is a category and a type after categoryKey and typeKey, so a     *)
(* spelling in another case is the same pair.  InfoName is the name        *)
(* category-type, which two pairs can share if they contain hyphens.       *)
(***************************************************************************)
EXTENDS FiniteSets, Functions, Naturals, Sequences

CONSTANTS
    Pairs, Versions, Plugins,
    Nobody,         \* not a plugin
    Names,          \* names of CapabilityInfos
    InfoName,       \* InfoName[pair]
    Offers,         \* Offers[p]: the TypeInfos p answers with, in order
    Directories,    \* contents the plugins directory can have, in order
    MaxDisturbances,\* bound: acts of others on the CapabilityInfos, restarts
    MaxFaults       \* bound: calls to a plugin or the API server that fail

TypeInfos == [pair: Pairs, versions: Versions]

ASSUME NobodyAssumption == Nobody \notin Plugins
ASSUME RegistryAssumption ==
    /\ InfoName \in [Pairs -> Names]
    /\ Offers \in [Plugins -> Seq(TypeInfos)]
    /\ Directories \subseteq Seq(Plugins)
    /\ \A files \in Directories : IsInjective(files)
    /\ MaxDisturbances \in Nat /\ MaxFaults \in Nat

VARIABLES
    provider,       \* provider[pair]: the plugin in the map "plugins", or Nobody
    infos,          \* infos[n]: the TypeInfo in the CapabilityInfo n, if any
    main,           \* where the operator's main function stands
    left,           \* what remains of the bounds
    life            \* history of this life of the operator

vars == <<provider, infos, main, left, life>>

NoInfo == <<>>

NoProvider == [pair \in Pairs |-> Nobody]

Mains ==
    [pc: {"load", "register", "update", "create", "list", "purge", "serving"},
     files: Seq(Plugins),       \* plugins still to load, the current one first
     offers: Seq(TypeInfos),    \* typeInfos still to register
     fresh: BOOLEAN,            \* ci carries the server's resourceVersion
     listed: SUBSET [name: Names, pair: Pairs],
     purgedCount: Nat,
     failed: SUBSET Names]      \* the CapabilityInfos msgs names

Starting(files) ==
    [pc |-> "load", files |-> files, offers |-> <<>>, fresh |-> FALSE,
     listed |-> {}, purgedCount |-> 0, failed |-> {}]

\* directory: what it held; touched: names others wrote; rewritten: those
\* they wrote since ListInfos; refused: the plugins and the pairs they offered
\* that an error made register ignore; purged: whether a purge came to its end
Lives ==
    [directory: Seq(Plugins), touched: SUBSET Names, rewritten: SUBSET Names,
     refused: SUBSET (Plugins \X Pairs), purged: BOOLEAN]

NewLife(files) ==
    [directory |-> files, touched |-> {}, rewritten |-> {}, refused |-> {},
     purged |-> FALSE]

TypeOK ==
    /\ provider \in [Pairs -> Plugins \cup {Nobody}]
    /\ infos \in [Names -> TypeInfos \cup {NoInfo}]
    /\ main \in Mains
    /\ left \in [disturbances: 0..MaxDisturbances, faults: 0..MaxFaults]
    /\ life \in Lives
    /\ main.pc \in {"register", "update", "create"} => main.files # <<>>
    /\ main.pc \in {"update", "create"} => main.offers # <<>>

Start(files) == main' = Starting(files) /\ life' = NewLife(files)

Init ==
    /\ provider = NoProvider
    /\ infos = [n \in Names |-> NoInfo]
    /\ \E files \in Directories : main = Starting(files) /\ life = NewLife(files)
    /\ left = [disturbances |-> MaxDisturbances, faults |-> MaxFaults]

At(pc) == main.pc = pc

Fault ==
    /\ left.faults > 0
    /\ left' = [left EXCEPT !.faults = @ - 1]

NoFault == UNCHANGED left

-----------------------------------------------------------------------------
(***************************************************************************)
(* NewPlugin and register                                                  *)
(***************************************************************************)
Plugin == Head(main.files)
Offer == Head(main.offers)
Name == InfoName[Offer.pair]

OfferedBy(p) == {Offers[p][i] : i \in DOMAIN Offers[p]}

\* Nothing p offers of what is still free gets registered.
RefuseAll(p) ==
    life' = [life EXCEPT !.refused = @ \cup
                {<<p, info.pair>> : info \in {i \in OfferedBy(p) : provider[i.pair] = Nobody}}]

\* GetCategory and GetTypes.  callWithRequest only logs a failure and the
\* zero value is kept: no types, or an empty category, under which no
\* CapabilityInfo has a valid name; either way nothing gets registered.
LoadPlugin ==
    /\ At("load")
    /\ main.files # <<>>
    /\ \/ /\ main' = [main EXCEPT !.pc = "register", !.offers = Offers[Plugin]]
          /\ NoFault /\ UNCHANGED life
       \/ /\ main' = [main EXCEPT !.pc = "register", !.offers = <<>>]
          /\ Fault /\ RefuseAll(Plugin)
    /\ UNCHANGED <<provider, infos>>

PluginLoadedStays ==
    /\ At("register")
    /\ main.offers = <<>>
    /\ main' = [main EXCEPT !.files = Tail(@)]
    /\ UNCHANGED <<provider, infos, left, life>>

PluginLoaded ==
    /\ At("register")
    /\ main.offers = <<>>
    /\ main' = [main EXCEPT !.pc = "load", !.files = Tail(@)]
    /\ UNCHANGED <<provider, infos, left, life>>

NextOffer == main' = [main EXCEPT !.pc = "register", !.offers = Tail(@)]

IgnoreRest ==
    /\ main' = [main EXCEPT !.pc = "register", !.offers = <<>>]
    /\ life' = [life EXCEPT !.refused = @ \cup {<<Plugin, Offer.pair>>}]
    /\ UNCHANGED provider

\* An error: the capability is ignored.
Ignore ==
    /\ NextOffer
    /\ life' = [life EXCEPT !.refused = @ \cup {<<Plugin, Offer.pair>>}]
    /\ UNCHANGED provider

RegisterPlugin ==
    /\ NextOffer
    /\ provider' = [provider EXCEPT ![Offer.pair] = Plugin]
    /\ life' = [life EXCEPT !.refused = @ \ {<<Plugin, Offer.pair>>}]

ReplaceTaken ==
    /\ At("register")
    /\ main.offers # <<>>
    /\ provider[Offer.pair] # Nobody
    /\ RegisterPlugin
    /\ UNCHANGED <<infos, left>>

SkipTaken ==
    /\ At("register")
    /\ main.offers # <<>>
    /\ provider[Offer.pair] # Nobody
    /\ NextOffer
    /\ UNCHANGED <<provider, infos, left, life>>

GetInfo ==
    /\ At("register")
    /\ main.offers # <<>>
    /\ provider[Offer.pair] = Nobody
    /\ \/ /\ infos[Name] # NoInfo
          /\ main' = [main EXCEPT !.pc = "update", !.fresh = TRUE]
          /\ NoFault /\ UNCHANGED <<provider, life>>
       \/ /\ infos[Name] = NoInfo
          /\ main' = [main EXCEPT !.pc = "create"]
          /\ NoFault /\ UNCHANGED <<provider, life>>
       \/ Ignore /\ Fault
    /\ UNCHANGED infos

WriteInfo == infos' = [infos EXCEPT ![Name] = Offer]

\* A write takes effect and the plugin is registered; or a failure, before or
\* after it took effect, makes register ignore the capability.
StoreAnyway ==
    \/ WriteInfo /\ RegisterPlugin /\ NoFault
    \/ (WriteInfo \/ UNCHANGED infos) /\ RegisterPlugin /\ Fault

Store ==
    \/ WriteInfo /\ RegisterPlugin /\ NoFault
    \/ (WriteInfo \/ UNCHANGED infos) /\ Ignore /\ Fault

Refused == Ignore /\ NoFault /\ UNCHANGED infos

\* Someone wrote (Conflict) or deleted (NotFound) the info since it was read.
UpdateInfo ==
    /\ At("update")
    /\ IF main.fresh THEN Store ELSE Refused

\* Someone created it since (AlreadyExists).
CreateInfo ==
    /\ At("create")
    /\ IF infos[Name] = NoInfo THEN Store ELSE Refused

-----------------------------------------------------------------------------
(***************************************************************************)
(* PurgeCapabilityInfos                                                    *)
(***************************************************************************)
AllLoaded ==
    /\ At("load")
    /\ main.files = <<>>
    /\ \E pc \in {"list", "serving"} : main' = [main EXCEPT !.pc = pc]
    /\ UNCHANGED <<provider, infos, left, life>>

ListInfos ==
    /\ At("list")
    /\ \/ /\ main' = [main EXCEPT !.pc = "purge", !.listed =
                {[name |-> n, pair |-> infos[n].pair] : n \in {m \in Names : infos[m] # NoInfo}}]
          /\ NoFault
          /\ life' = [life EXCEPT !.rewritten = {}]
       \/ main' = [main EXCEPT !.pc = "serving"] /\ Fault /\ UNCHANGED life
    /\ UNCHANGED <<provider, infos>>

GetPluginFor(pair) == provider[pair]

Purged(info, failed) ==
    main' = [main EXCEPT !.listed = @ \ {info}, !.purgedCount = @ + 1,
                         !.failed = @ \cup failed]

Remove(info) == infos' = [infos EXCEPT ![info.name] = NoInfo]

PurgeForgetsErrors ==
    /\ At("purge")
    /\ \E info \in main.listed :
          /\ GetPluginFor(info.pair) = Nobody
          /\ Purged(info, {})
          /\ \/ Remove(info) /\ NoFault
             \/ UNCHANGED infos /\ Fault
    /\ UNCHANGED <<provider, life>>

\* The deletion names no resourceVersion; NotFound is an error like others.
PurgeInfo ==
    /\ At("purge")
    /\ \E info \in main.listed :
          /\ GetPluginFor(info.pair) = Nobody
          /\ \/ /\ infos[info.name] # NoInfo
                /\ Remove(info) /\ Purged(info, {}) /\ NoFault
             \/ /\ infos[info.name] = NoInfo
                /\ UNCHANGED infos /\ Purged(info, {info.name}) /\ NoFault
             \/ (Remove(info) \/ UNCHANGED infos) /\ Purged(info, {info.name}) /\ Fault
    /\ UNCHANGED <<provider, life>>

KeepInfo ==
    /\ At("purge")
    /\ \E info \in main.listed :
          /\ GetPluginFor(info.pair) # Nobody
          /\ main' = [main EXCEPT !.listed = @ \ {info}]
    /\ UNCHANGED <<provider, infos, left, life>>

PurgeDone ==
    /\ At("purge")
    /\ main.listed = {}
    /\ main' = [main EXCEPT !.pc = "serving"]
    /\ life' = [life EXCEPT !.purged = TRUE]
    /\ UNCHANGED <<provider, infos, left>>

Main ==
    \/ LoadPlugin \/ PluginLoaded \/ SkipTaken \/ GetInfo \/ UpdateInfo \/ CreateInfo
    \/ AllLoaded \/ ListInfos \/ PurgeInfo \/ KeepInfo \/ PurgeDone

-----------------------------------------------------------------------------
(***************************************************************************)
(* Others, external: users, or another replica of the operator             *)
(***************************************************************************)
Disturb ==
    /\ left.disturbances > 0
    /\ left' = [left EXCEPT !.disturbances = @ - 1]

OthersWrite(n, info) ==
    /\ Disturb
    /\ infos[n] # info
    /\ infos' = [infos EXCEPT ![n] = info]
    /\ main' = [main EXCEPT !.fresh = @ /\ (main.offers = <<>> \/ Name # n)]
    /\ life' = [life EXCEPT !.touched = @ \cup {n}, !.rewritten = @ \cup {n}]
    /\ UNCHANGED provider

\* The operator stops, and starts with what the plugins directory then holds.
Restart ==
    /\ Disturb
    /\ provider' = NoProvider
    /\ \E files \in Directories : Start(files)
    /\ UNCHANGED infos

Next ==
    \/ Main
    \/ \E n \in Names, info \in TypeInfos \cup {NoInfo} : OthersWrite(n, info)
    \/ Restart

Spec == Init /\ [][Next]_vars
-----------------------------------------------------------------------------
\* The CapabilityInfos of such pairs overwrite each other.
SharesName(pair) == \E other \in Pairs \ {pair} : InfoName[other] = InfoName[pair]

\* A plugin is only ever registered for a pair the cluster advertises as it
\* offers it, whatever failed on the way: the CapabilityInfo comes first.
Advertised ==
    \A pair \in Pairs :
        provider[pair] # Nobody /\ InfoName[pair] \notin life.touched /\ ~SharesName(pair) =>
            /\ infos[InfoName[pair]] \in OfferedBy(provider[pair])
            /\ infos[InfoName[pair]].pair = pair

\* The files of the directory whose offer of the pair no error came between.
Takers(pair) ==
    {i \in DOMAIN life.directory :
        /\ \E info \in OfferedBy(life.directory[i]) : info.pair = pair
        /\ <<life.directory[i], pair>> \notin life.refused}

\* Once the operator serves, the first plugin of the directory that offers a
\* pair serves it, one whose call, read or write failed or met a conflict
\* passed over; a pair nobody serves is one all of whose offers were ignored.
OfferedIsProvided ==
    At("serving") =>
        \A pair \in Pairs :
            /\ \A i \in Takers(pair) :
                  (\A j \in Takers(pair) : i <= j) => provider[pair] = life.directory[i]
            /\ Takers(pair) = {} => provider[pair] = Nobody

\* After a purge every CapabilityInfo left is of a pair some plugin serves,
\* those of plugins of earlier lives included, but for the ones the error it
\* returns names and the ones others wrote after it listed them.
PurgeIsThorough ==
    life.purged =>
        \A n \in Names \ (main.failed \cup life.rewritten) :
            infos[n] # NoInfo => provider[infos[n].pair] # Nobody

\* A purge deletes a CapabilityInfo because no plugin serves its pair ("plugin
\* for info doesn't exist", registry.go:106): so it is of the info it deletes.
UnservedIsRemoved ==
    PurgeInfo =>
        \A n \in Names :
            infos[n] # NoInfo /\ infos'[n] = NoInfo => provider[infos[n].pair] = Nobody

PurgeRemovesUnserved == [][UnservedIsRemoved]_vars

\* The registry implements the write-once directory GetPluginFor promises.
Directory ==
    INSTANCE PluginDirectory WITH
        Offers <- [p \in Plugins |-> {info.pair : info \in OfferedBy(p)}]

DirectorySpec == Directory!Spec
=============================================================================
