----------------------------- MODULE Preparation -----------------------------
(***************************************************************************)
(* Steps 1 to 5 of Manager.Execute: what script and what image a call will *)
(* run, found out while other calls do the same and operators edit the     *)
(* ConfigMaps and Secrets that scripts, the registry of script ids and the *)
(* image catalog are kept in.                                              *)
(*                                                                         *)
(* One step is one request to the API server with what follows it, except  *)
(* that Catalog.entries is shared by the calls of a replica without a      *)
(* lock: Load's assignment and Get's lookup are steps of their own.        *)
(***************************************************************************)
EXTENDS ScriptCheck

CONSTANTS
    Calls,       \* Execute calls of one replica
    Scripts,     \* script contents
    Empty,       \* the empty content
    TextOf,      \* what the validator sees of a script
    Places,      \* keys of ConfigMaps and Secrets that can hold a script
    Ids,         \* script ids
    Refs,        \* names in the image catalog
    Images,      \* container images
    PullSecrets, \* names of pull secrets
    ApprovedImages, BlockedImages,     \* image patterns, as the sets they match
    DefaultImage, DefaultPullSecret,   \* the configured defaults
    None,        \* absent
    Bad,         \* present, but incomplete or malformed
    SomeClusters, SomeArguments,       \* what operators and callers choose from
    MaxEdits     \* bound: edits by operators

CatalogEntry == [image : Images, secret : PullSecrets \union {None}]
Entries == [Refs -> CatalogEntry \union {None}]

(* What the API server holds: contents, registry and catalog. *)
Cluster == [content : [Places -> Scripts \union {None}],
            registry : [Ids -> Places \union {None, Bad}] \union {None},
            catalog : Entries \union {None}]

Arguments == [inline : Scripts \union {None},
              configmap : Places \union {None, Bad}, secret : Places \union {None, Bad},
              path : Places \union {None, Bad}, id : Ids \union {None},
              image : Images \union {None}, ref : Refs \union {None},
              pullSecret : PullSecrets \union {None}]

ASSUME PreparationAssumption ==
    /\ Empty \in Scripts /\ TextOf \in [Scripts -> Text]
    /\ DefaultImage \in Images /\ DefaultPullSecret \in PullSecrets \union {None}
    /\ ApprovedImages \subseteq SUBSET Images /\ BlockedImages \subseteq SUBSET Images
    /\ SomeClusters \subseteq Cluster /\ SomeClusters # {}
    /\ SomeArguments \subseteq Arguments
    /\ None \notin Scripts \union Places \union Ids \union Refs \union Images
                   \union PullSecrets \union CatalogEntry \union Entries
    /\ Bad \notin Places \union {None}
    /\ MaxEdits \in Nat

(* Where a call stands.                                                    *)
(*   idle     not arrived             assign  has the catalog, about to    *)
(*   load     about to load its script          share it                   *)
(*   content  has a registry entry    lookup  about to look its image up   *)
(*   resolve  has its script          ready   validated;  failed  answered *)
Stages == {"idle", "load", "content", "resolve", "assign", "lookup", "ready", "failed"}
Active == {"load", "content", "resolve", "assign", "lookup"}

VARIABLES
    past,     \* what the API server has held, from the first state to the present one
    entries,  \* Catalog.entries
    pc,       \* where each call stands
    args,     \* its parameters
    place,    \* where the registry says its script is
    script,   \* the script it loaded; None for a path
    data,     \* the catalog it fetched
    image,    \* the image it resolved
    since,    \* history: the state of the API server when it arrived
    met       \* history: the calls that were active at some time while it was

vars == <<past, entries, pc, args, place, script, data, image, since, met>>

TypeOK ==
    /\ past \in Seq(Cluster) /\ past # <<>>
    /\ entries \in Entries
    /\ pc \in [Calls -> Stages]
    /\ args \in [Calls -> Arguments \union {None}]
    /\ place \in [Calls -> Places \union {None}]
    /\ script \in [Calls -> Scripts \union {None}]
    /\ data \in [Calls -> Entries \union {None}]
    /\ image \in [Calls -> CatalogEntry \union {None}]
    /\ since \in [Calls -> Nat]
    /\ met \in [Calls -> SUBSET Calls]

Init ==
    /\ \E cluster \in SomeClusters : past = <<cluster>>
    /\ entries = [r \in Refs |-> None]
    /\ pc = [c \in Calls |-> "idle"]
    /\ args = [c \in Calls |-> None]
    /\ place = [c \in Calls |-> None]
    /\ script = [c \in Calls |-> None]
    /\ data = [c \in Calls |-> None]
    /\ image = [c \in Calls |-> None]
    /\ since = [c \in Calls |-> 0]
    /\ met = [c \in Calls |-> {}]

Now == past[Len(past)]
Goto(c, stage) == pc' = [pc EXCEPT ![c] = stage]

-----------------------------------------------------------------------------
(* Operators change anything at any time. *)
Edit ==
    /\ Len(past) <= MaxEdits
    /\ \E cluster \in SomeClusters : past' = Append(past, cluster)
    /\ UNCHANGED <<entries, pc, args, place, script, data, image, since, met>>

Start(c) ==
    /\ pc[c] = "idle"
    /\ Goto(c, "load")
    /\ \E a \in SomeArguments : args' = [args EXCEPT ![c] = a]
    /\ since' = [since EXCEPT ![c] = Len(past)]
    /\ LET others == {d \in Calls : pc[d] \in Active}
       IN  met' = [d \in Calls |-> IF d = c THEN others \union {c}
                                   ELSE IF d \in others THEN met[d] \union {c} ELSE met[d]]
    /\ UNCHANGED <<past, entries, place, script, data, image>>

-----------------------------------------------------------------------------
(* LoadScript: the first source that is given.                             *)
Reference(a) == IF a.configmap # None THEN a.configmap ELSE a.secret

SourceOf(a) == IF a.inline # None THEN "inline"
               ELSE IF Reference(a) # None THEN "reference"
               ELSE IF a.path # None THEN "path"
               ELSE IF a.id # None THEN "registry" ELSE "none"

(* A script is validated as soon as it is there, unless it is empty. *)
Loaded(c, s) ==
    /\ script' = [script EXCEPT ![c] = s]
    /\ Goto(c, IF s = Empty \/ Valid(TextOf[s]) THEN "resolve" ELSE "failed")

LoadInline(c) ==
    /\ pc[c] = "load" /\ SourceOf(args[c]) = "inline"
    /\ Loaded(c, args[c].inline)
    /\ UNCHANGED <<past, entries, args, place, data, image, since, met>>

(* loadFromConfigMap and loadFromSecret, of the loader and the registry. *)
OrEmpty(p) == {IF Now.content[p] = None THEN Empty ELSE Now.content[p]}  \* a variant
Found(p) == {Now.content[p]} \ {None}

LoadReference(c) ==
    /\ pc[c] = "load" /\ SourceOf(args[c]) = "reference"
    /\ Reference(args[c]) # Bad
    /\ \E s \in Found(Reference(args[c])) : Loaded(c, s)
    /\ UNCHANGED <<past, entries, args, place, data, image, since, met>>

(* Only the presence of the file is looked at; the pod mounts it later. *)
CheckPath(c) ==
    /\ pc[c] = "load" /\ SourceOf(args[c]) = "path"
    /\ args[c].path # Bad
    /\ Found(args[c].path) # {}
    /\ Goto(c, "resolve")
    /\ UNCHANGED <<past, entries, args, place, script, data, image, since, met>>

AnyEntry(c) ==             \* a variant of ReadEntry: the entry is not checked
    /\ pc[c] = "load" /\ SourceOf(args[c]) = "registry"
    /\ Now.registry # None
    /\ Now.registry[args[c].id] # None
    /\ place' = [place EXCEPT ![c] = Now.registry[args[c].id]]
    /\ Goto(c, "content")
    /\ UNCHANGED <<past, entries, args, script, data, image, since, met>>
ReadEntry(c) ==
    /\ pc[c] = "load" /\ SourceOf(args[c]) = "registry"
    /\ Now.registry # None
    /\ Now.registry[args[c].id] \notin {None, Bad}
    /\ place' = [place EXCEPT ![c] = Now.registry[args[c].id]]
    /\ Goto(c, "content")
    /\ UNCHANGED <<past, entries, args, script, data, image, since, met>>

ReadContent(c) ==
    /\ pc[c] = "content"
    /\ \E s \in Found(place[c]) : Loaded(c, s)
    /\ UNCHANGED <<past, entries, args, place, data, image, since, met>>

(* No source, a malformed one, nothing there, or a request that fails. *)
LoadFails(c) ==
    /\ pc[c] \in {"load", "content"}
    /\ SourceOf(args[c]) # "inline"
    /\ Goto(c, "failed")
    /\ UNCHANGED <<past, entries, args, place, script, data, image, since, met>>

-----------------------------------------------------------------------------
(* Resolve and Validate.                                                   *)

(* The request's pull secret, then the default one, where the catalog has  *)
(* none.                                                                   *)
Completed(entry, a) ==
    [entry EXCEPT !.secret = IF @ # None THEN @
                             ELSE IF a.pullSecret # None THEN a.pullSecret
                             ELSE DefaultPullSecret]

Allowed(i) ==
    \/ ApprovedImages = {} /\ BlockedImages = {}
    \/ /\ \A pattern \in BlockedImages : i \notin pattern
       /\ ApprovedImages = {} \/ \E pattern \in ApprovedImages : i \in pattern

AsRequested(c, entry) ==   \* a variant of Resolved: what the catalog says is trusted
    /\ image' = [image EXCEPT ![c] = Completed(entry, args[c])]
    /\ Goto(c, IF args[c].image = None \/ Allowed(args[c].image) THEN "ready" ELSE "failed")
Resolved(c, entry) ==
    /\ image' = [image EXCEPT ![c] = Completed(entry, args[c])]
    /\ Goto(c, IF Allowed(entry.image) THEN "ready" ELSE "failed")

UsesCatalog(a) == a.image = None /\ a.ref # None

ResolveDirect(c) ==
    /\ pc[c] = "resolve" /\ ~UsesCatalog(args[c])
    /\ Resolved(c, [image |-> IF args[c].image # None THEN args[c].image ELSE DefaultImage,
                    secret |-> None])
    /\ UNCHANGED <<past, entries, args, place, script, data, since, met>>

(* Catalog.Load: the request... *)
KeptCatalog(c) ==          \* a variant of FetchCatalog: what was loaded once is kept
    /\ pc[c] = "resolve" /\ UsesCatalog(args[c])
    /\ Now.catalog # None
    /\ data' = [data EXCEPT ![c] = IF \E r \in Refs : entries[r] # None THEN entries
                                   ELSE Now.catalog]
    /\ Goto(c, "assign")
    /\ UNCHANGED <<past, entries, args, place, script, image, since, met>>
FetchCatalog(c) ==
    /\ pc[c] = "resolve" /\ UsesCatalog(args[c])
    /\ Now.catalog # None
    /\ data' = [data EXCEPT ![c] = Now.catalog]
    /\ Goto(c, "assign")
    /\ UNCHANGED <<past, entries, args, place, script, image, since, met>>

FetchFails(c) ==
    /\ pc[c] = "resolve" /\ UsesCatalog(args[c])
    /\ Goto(c, "failed")
    /\ UNCHANGED <<past, entries, args, place, script, data, image, since, met>>

(* ...and its assignment to the shared map. *)
AssignEntries(c) ==
    /\ pc[c] = "assign"
    /\ entries' = data[c]
    /\ Goto(c, "lookup")
    /\ UNCHANGED <<past, args, place, script, data, image, since, met>>

(* Catalog.Get, on whatever the shared map is by now. *)
Lookup(c) ==
    /\ pc[c] = "lookup"
    /\ entries[args[c].ref] # None
    /\ Resolved(c, entries[args[c].ref])
    /\ UNCHANGED <<past, entries, args, place, script, data, since, met>>

LookupFails(c) ==
    /\ pc[c] = "lookup"
    /\ entries[args[c].ref] = None
    /\ Goto(c, "failed")
    /\ UNCHANGED <<past, entries, args, place, script, data, image, since, met>>

-----------------------------------------------------------------------------
Load(c) == \/ LoadInline(c) \/ LoadReference(c) \/ CheckPath(c)
           \/ ReadEntry(c) \/ ReadContent(c) \/ LoadFails(c)
Resolve(c) == \/ ResolveDirect(c) \/ FetchCatalog(c) \/ FetchFails(c)
              \/ AssignEntries(c) \/ Lookup(c) \/ LookupFails(c)

Next == Edit \/ \E c \in Calls : Start(c) \/ Load(c) \/ Resolve(c)

Spec == Init /\ [][Next]_vars

-----------------------------------------------------------------------------
During(c) == since[c] .. Len(past)
HasScript(c) == pc[c] \in {"resolve", "assign", "lookup", "ready"}

(* The script of a call is what its source held at some time during the    *)
(* call; for a script id, what a place held no earlier than the registry   *)
(* named that place.  It is never older than the call, and never a mixture *)
(* with an entry that came later (LoadScript, LoadByID).                   *)
ScriptIsCurrent ==
    \A c \in Calls : HasScript(c) =>
        CASE SourceOf(args[c]) = "inline" -> script[c] = args[c].inline
          [] SourceOf(args[c]) = "reference" ->
                \E i \in During(c) : past[i].content[Reference(args[c])] = script[c]
          [] SourceOf(args[c]) = "path" ->
                \E i \in During(c) : past[i].content[args[c].path] # None
          [] SourceOf(args[c]) = "registry" ->
                \E i, j \in During(c) :
                   /\ i <= j
                   /\ past[i].registry # None
                   /\ past[i].registry[args[c].id] = place[c]
                   /\ past[j].content[place[c]] = script[c]
          [] OTHER -> FALSE

(* A script whose content the service holds goes on only within the size   *)
(* limit, and with no blocked command at the beginning of a line or after  *)
(* a sudo or su there, except where the scan cannot see it: past the first *)
(* line too long for it, behind several operators, and sudo and su before  *)
(* another word (Validate, extractCommands, step 2 of Execute).            *)
CommandsChecked ==
    \A c \in Calls : HasScript(c) /\ script[c] \notin {None, Empty} =>
        /\ TextOf[script[c]].size <= MaxSize
        /\ Unblocked(TextOf[script[c]])

(* The image and pull secret a call takes from the catalog were together   *)
(* in the catalog while that call, or one that overlapped it, was active:  *)
(* the shared entries may be another call's, but never those of a call     *)
(* that ended before this one began (Catalog.Load, Get).                   *)
CatalogIsCurrent ==
    \A c \in Calls : pc[c] = "ready" /\ UsesCatalog(args[c]) =>
        \E d \in met[c] : \E i \in During(d) :
            /\ past[i].catalog # None
            /\ past[i].catalog[args[c].ref] # None
            /\ image[c] = Completed(past[i].catalog[args[c].ref], args[c])

(* The image that goes on to a Job is not blocked, and is approved where   *)
(* there is a list, whether it was named, defaulted or looked up (Resolve, *)
(* Validate).                                                              *)
ImageAllowed ==
    \A c \in Calls : pc[c] = "ready" =>
        /\ image[c].image \notin UNION BlockedImages
        /\ ApprovedImages # {} => image[c].image \in UNION ApprovedImages

=============================================================================
