-------------------------- MODULE PreparationProofs --------------------------
(***************************************************************************)
(* What script and what image a call ends up with, for any number of calls *)
(* and edits, and what the script validator lets through.                  *)
(***************************************************************************)
EXTENDS Preparation, SequenceTheorems, TLAPS

(* A call that arrived has its parameters, and a place to read from where  *)
(* it is about to read.                                                    *)
CallInv ==
    /\ \A c \in Calls : pc[c] # "idle" => args[c] \in Arguments /\ since[c] \in 1 .. Len(past)
    /\ \A c \in Calls : pc[c] = "content" => place[c] \in Places /\ SourceOf(args[c]) = "registry"
    /\ \A c \in Calls : pc[c] \in {"assign", "lookup"} => UsesCatalog(args[c])
    /\ \A c \in Calls : pc[c] = "assign" => data[c] \in Entries

LEMMA PastFacts ==
    ASSUME TypeOK
    PROVE  /\ Len(past) \in Nat /\ Len(past) >= 1
           /\ DOMAIN past = 1 .. Len(past)
           /\ \A i \in 1 .. Len(past) : past[i] \in Cluster
           /\ Now \in Cluster
  <1>1. /\ past \in Seq(Cluster) /\ past # <<>>
        /\ Len(past) \in Nat /\ DOMAIN past = 1 .. Len(past)
    BY LenProperties DEF TypeOK
  <1>2. Len(past) >= 1
    BY <1>1, EmptySeq
  <1>3. \A i \in 1 .. Len(past) : past[i] \in Cluster
    BY <1>1, ElementOfSeq
  <1>4. QED
    BY <1>1, <1>2, <1>3 DEF Now

(* What the cluster holds is of its kind, and absent things are no data.   *)
LEMMA Absent ==
    /\ None \notin Scripts /\ None \notin Places /\ None \notin Ids /\ None \notin Refs
    /\ None \notin Images /\ None \notin PullSecrets
    /\ None \notin CatalogEntry /\ None \notin Entries
    /\ Bad \notin Places /\ Bad # None
  BY PreparationAssumption

LEMMA SourceFacts ==
    ASSUME NEW a \in Arguments
    PROVE  /\ SourceOf(a) = "inline" => a.inline \in Scripts
           /\ SourceOf(a) = "reference" /\ Reference(a) # Bad => Reference(a) \in Places
           /\ SourceOf(a) = "path" /\ a.path # Bad => a.path \in Places
           /\ SourceOf(a) = "registry" => a.id \in Ids
           /\ UsesCatalog(a) => a.ref \in Refs
           /\ ~UsesCatalog(a) /\ a.image = None => a.ref = None
  BY DEF SourceOf, Reference, UsesCatalog, Arguments

LEMMA FoundType ==
    ASSUME TypeOK, NEW p \in Places, NEW s \in Found(p)
    PROVE  s \in Scripts /\ s = Now.content[p]
  BY PastFacts DEF Found, Cluster

LEMMA CompletedType ==
    ASSUME NEW entry \in CatalogEntry, NEW a \in Arguments
    PROVE  Completed(entry, a) \in CatalogEntry /\ Completed(entry, a).image = entry.image
  BY PreparationAssumption DEF Completed, CatalogEntry, Arguments

-----------------------------------------------------------------------------
(* What lasts through every step: the past, and what a call that arrived   *)
(* was asked for, since when, and whom it has met.                         *)
Lasting ==
    /\ Len(past') \in Nat /\ Len(past) <= Len(past')
    /\ \A i \in 1 .. Len(past) : past'[i] = past[i]
    /\ \A c \in Calls : pc[c] # "idle" =>
          pc'[c] # "idle" /\ args'[c] = args[c] /\ since'[c] = since[c] /\ met[c] \subseteq met'[c]

(* A step of call c, once it has arrived, is seen in its own variables.    *)
Own(c) ==
    /\ pc[c] # "idle" /\ pc'[c] # "idle"
    /\ \A d \in Calls \ {c} : /\ pc'[d] = pc[d] /\ place'[d] = place[d] /\ script'[d] = script[d]
                              /\ data'[d] = data[d] /\ image'[d] = image[d]
    /\ UNCHANGED <<past, args, since, met>>

LEMMA StepOwn ==
    ASSUME TypeOK, NEW c \in Calls, Load(c) \/ Resolve(c)
    PROVE  Own(c)
  <1> USE DEF TypeOK, Own, Goto
  <1>1. CASE LoadInline(c) \/ LoadReference(c) \/ CheckPath(c)
    BY <1>1 DEF LoadInline, LoadReference, CheckPath, Loaded
  <1>2. CASE ReadEntry(c) \/ ReadContent(c) \/ LoadFails(c)
    BY <1>2 DEF ReadEntry, ReadContent, LoadFails, Loaded
  <1>3. CASE ResolveDirect(c) \/ FetchCatalog(c) \/ FetchFails(c)
    BY <1>3 DEF ResolveDirect, FetchCatalog, FetchFails, Resolved
  <1>4. CASE AssignEntries(c) \/ Lookup(c) \/ LookupFails(c)
    BY <1>4 DEF AssignEntries, Lookup, LookupFails, Resolved
  <1>5. QED
    BY <1>1, <1>2, <1>3, <1>4 DEF Load, Resolve

LEMMA EditFacts ==
    ASSUME TypeOK, Edit
    PROVE  /\ past' \in Seq(Cluster) /\ past' # <<>>
           /\ Len(past') = Len(past) + 1
           /\ \A i \in 1 .. Len(past) : past'[i] = past[i]
  <1>1. PICK cluster \in SomeClusters : past' = Append(past, cluster)
    BY DEF Edit
  <1>2. cluster \in Cluster /\ past \in Seq(Cluster)
    BY PreparationAssumption DEF TypeOK
  <1>3. QED
    BY <1>1, <1>2, AppendProperties, LenProperties, EmptySeq

LEMMA NextLasts == TypeOK /\ [Next]_vars => Lasting
  <1> SUFFICES ASSUME TypeOK, [Next]_vars PROVE Lasting
    OBVIOUS
  <1>1. CASE Edit
    BY <1>1, EditFacts, PastFacts DEF Edit, Lasting
  <1>2. ASSUME NEW c \in Calls, Start(c) PROVE Lasting
    BY <1>2, PastFacts DEF Start, Lasting, TypeOK, Goto
  <1>3. ASSUME NEW c \in Calls, Load(c) \/ Resolve(c) PROVE Lasting
    BY <1>3, StepOwn, PastFacts DEF Own, Lasting
  <1>4. CASE UNCHANGED vars
    BY <1>4, PastFacts DEF vars, Lasting
  <1>5. QED
    BY <1>1, <1>2, <1>3, <1>4 DEF Next

-----------------------------------------------------------------------------
(* Type correctness, with CallInv.                                         *)

LEMMA LoadedType ==
    ASSUME TypeOK, NEW c \in Calls, NEW s \in Scripts, Loaded(c, s)
    PROVE  /\ script' \in [Calls -> Scripts \union {None}]
           /\ pc' \in [Calls -> Stages]
           /\ pc'[c] \in {"resolve", "failed"} /\ script'[c] = s
  BY DEF TypeOK, Loaded, Goto, Stages

LEMMA LoadStep ==
    ASSUME TypeOK, CallInv, NEW c \in Calls, Load(c)
    PROVE  /\ pc' \in [Calls -> Stages] /\ place' \in [Calls -> Places \union {None}]
           /\ script' \in [Calls -> Scripts \union {None}]
           /\ UNCHANGED <<entries, data, image>>
           /\ pc'[c] \in {"content", "resolve", "failed"}
           /\ pc'[c] = "content" => place'[c] \in Places /\ SourceOf(args[c]) = "registry"
  <1>1. CASE LoadInline(c)
    <2>1. args[c].inline \in Scripts
      BY <1>1, SourceFacts DEF LoadInline, CallInv
    <2>2. QED
      BY <1>1, <2>1, LoadedType DEF LoadInline, TypeOK
  <1>2. CASE LoadReference(c)
    <2>1. Reference(args[c]) \in Places
      BY <1>2, SourceFacts DEF LoadReference, CallInv
    <2>2. PICK s \in Found(Reference(args[c])) : Loaded(c, s)
      BY <1>2 DEF LoadReference
    <2>3. s \in Scripts
      BY <2>1, <2>2, FoundType
    <2>4. QED
      BY <1>2, <2>2, <2>3, LoadedType DEF LoadReference, TypeOK
  <1>3. CASE CheckPath(c) \/ LoadFails(c)
    BY <1>3 DEF CheckPath, LoadFails, Goto, Stages, TypeOK
  <1>4. CASE ReadEntry(c)
    <2>1. args[c].id \in Ids
      BY <1>4, SourceFacts DEF ReadEntry, CallInv
    <2>2. Now.registry[args[c].id] \in Places
      BY <1>4, <2>1, PastFacts DEF ReadEntry, Cluster
    <2>3. QED
      BY <1>4, <2>2 DEF ReadEntry, Goto, Stages, TypeOK
  <1>5. CASE ReadContent(c)
    <2>1. PICK s \in Found(place[c]) : Loaded(c, s)
      BY <1>5 DEF ReadContent
    <2>2. s \in Scripts
      BY <1>5, <2>1, FoundType DEF ReadContent, CallInv
    <2>3. QED
      BY <1>5, <2>1, <2>2, LoadedType DEF ReadContent, TypeOK
  <1>6. QED
    BY <1>1, <1>2, <1>3, <1>4, <1>5 DEF Load

LEMMA ResolvedType ==
    ASSUME TypeOK, CallInv, NEW c \in Calls, pc[c] # "idle", NEW entry \in CatalogEntry,
           Resolved(c, entry)
    PROVE  /\ image' \in [Calls -> CatalogEntry \union {None}]
           /\ pc' \in [Calls -> Stages]
           /\ pc'[c] \in {"ready", "failed"}
           /\ image'[c] = Completed(entry, args[c]) /\ image'[c].image = entry.image
           /\ pc'[c] = "ready" => Allowed(image'[c].image)
  <1>1. Completed(entry, args[c]) \in CatalogEntry /\ Completed(entry, args[c]).image = entry.image
    BY CompletedType DEF CallInv
  <1>2. QED
    BY <1>1 DEF TypeOK, Resolved, Goto, Stages

(* The entry that a direct resolution starts from.                         *)
Direct(a) == [image |-> IF a.image # None THEN a.image ELSE DefaultImage, secret |-> None]

LEMMA ResolveStep ==
    ASSUME TypeOK, CallInv, NEW c \in Calls, Resolve(c)
    PROVE  /\ pc' \in [Calls -> Stages] /\ entries' \in Entries
           /\ data' \in [Calls -> Entries \union {None}]
           /\ image' \in [Calls -> CatalogEntry \union {None}]
           /\ UNCHANGED <<place, script>>
           /\ pc[c] \in {"resolve", "assign", "lookup"}
           /\ pc'[c] \in {"assign", "lookup", "ready", "failed"}
           /\ pc'[c] \in {"assign", "lookup"} => UsesCatalog(args[c])
           /\ pc'[c] = "assign" => data'[c] \in Entries
           /\ pc'[c] = "ready" => Allowed(image'[c].image)
  <1>0. pc[c] \in {"resolve", "assign", "lookup"}
    BY DEF Resolve, ResolveDirect, FetchCatalog, FetchFails, AssignEntries, Lookup, LookupFails
  <1>1. CASE ResolveDirect(c)
    <2>1. Direct(args[c]) \in CatalogEntry
      BY <1>0, PreparationAssumption DEF CallInv, Arguments, CatalogEntry, Direct
    <2>2. Resolved(c, Direct(args[c]))
      BY <1>1 DEF ResolveDirect, Direct
    <2>3. QED
      BY <1>0, <1>1, <2>1, <2>2, ResolvedType DEF ResolveDirect, TypeOK
  <1>2. CASE FetchCatalog(c)
    <2>1. Now.catalog \in Entries
      BY <1>2, PastFacts DEF FetchCatalog, Cluster
    <2>2. QED
      BY <1>2, <2>1 DEF FetchCatalog, Goto, Stages, TypeOK
  <1>3. CASE FetchFails(c) \/ LookupFails(c)
    BY <1>3 DEF FetchFails, LookupFails, Goto, Stages, TypeOK
  <1>4. CASE AssignEntries(c)
    BY <1>4 DEF AssignEntries, CallInv, Goto, Stages, TypeOK
  <1>5. CASE Lookup(c)
    <2>1. args[c].ref \in Refs
      BY <1>5, SourceFacts DEF Lookup, CallInv
    <2>2. entries[args[c].ref] \in CatalogEntry
      BY <1>5, <2>1 DEF Lookup, TypeOK, Entries
    <2>3. QED
      BY <1>0, <1>5, <2>2, ResolvedType DEF Lookup, TypeOK
  <1>6. QED
    BY <1>1, <1>2, <1>3, <1>4, <1>5 DEF Resolve

LEMMA NextType == TypeOK /\ CallInv /\ [Next]_vars => TypeOK' /\ CallInv'
  <1> SUFFICES ASSUME TypeOK, CallInv, [Next]_vars PROVE TypeOK' /\ CallInv'
    OBVIOUS
  <1>0. Lasting
    BY NextLasts
  <1>1. CASE Edit
    <2>1. TypeOK'
      BY <1>1, EditFacts DEF Edit, TypeOK
    <2>2. QED
      BY <1>0, <1>1, <2>1, PastFacts DEF Edit, CallInv, Lasting
  <1>2. ASSUME NEW c \in Calls, Start(c) PROVE TypeOK' /\ CallInv'
    <2>1. PICK a \in SomeArguments : args' = [args EXCEPT ![c] = a]
      BY <1>2 DEF Start
    <2>2. a \in Arguments
      BY PreparationAssumption
    <2>3. met' \in [Calls -> SUBSET Calls]
      BY <1>2 DEF Start, TypeOK
    <2>4. since' \in [Calls -> Nat] /\ since'[c] = Len(past) /\ UNCHANGED past
      BY <1>2, PastFacts DEF Start, TypeOK
    <2>5. pc' \in [Calls -> Stages] /\ args' \in [Calls -> Arguments \union {None}]
      BY <1>2, <2>1, <2>2 DEF Start, TypeOK, Goto, Stages
    <2>6. TypeOK'
      BY <1>2, <2>3, <2>4, <2>5 DEF Start, TypeOK
    <2>7. \A d \in Calls \ {c} : pc'[d] = pc[d] /\ args'[d] = args[d] /\ since'[d] = since[d]
      BY <1>2, <2>1 DEF Start, TypeOK, Goto
    <2>8. pc'[c] = "load" /\ args'[c] = a /\ UNCHANGED <<place, data>>
      BY <1>2, <2>1 DEF Start, TypeOK, Goto
    <2>9. QED
      BY <2>2, <2>4, <2>6, <2>7, <2>8, PastFacts DEF CallInv
  <1>3. ASSUME NEW c \in Calls, Load(c) PROVE TypeOK' /\ CallInv'
    <2>1. Own(c)
      BY <1>3, StepOwn
    <2>2. TypeOK'
      BY <1>3, <2>1, LoadStep DEF Own, TypeOK
    <2>3. QED
      BY <1>3, <2>1, <2>2, LoadStep DEF Own, CallInv
  <1>4. ASSUME NEW c \in Calls, Resolve(c) PROVE TypeOK' /\ CallInv'
    <2>1. Own(c)
      BY <1>4, StepOwn
    <2>2. TypeOK'
      BY <1>4, <2>1, ResolveStep DEF Own, TypeOK
    <2>3. QED
      BY <1>4, <2>1, <2>2, ResolveStep DEF Own, CallInv
  <1>5. CASE UNCHANGED vars
    BY <1>5 DEF vars, TypeOK, CallInv
  <1>6. QED
    BY <1>1, <1>2, <1>3, <1>4, <1>5 DEF Next

LEMMA InitType == Init => TypeOK /\ CallInv
  <1> SUFFICES ASSUME Init PROVE TypeOK /\ CallInv
    OBVIOUS
  <1>1. PICK cluster \in SomeClusters : past = <<cluster>>
    BY DEF Init
  <1>2. past \in Seq(Cluster) /\ past # <<>>
    BY <1>1, PreparationAssumption
  <1>3. QED
    BY <1>2 DEF Init, TypeOK, CallInv, Stages, Entries

(* Every variable has its type (steps 1 to 5 of manager.go).               *)
THEOREM TypeCorrect == Spec => []TypeOK
  BY InitType, NextType, PTL DEF Spec

-----------------------------------------------------------------------------
(* Images.                                                                 *)

ImageInv == \A c \in Calls : pc[c] = "ready" => Allowed(image[c].image)

LEMMA ImageNext == TypeOK /\ CallInv /\ ImageInv /\ [Next]_vars => ImageInv'
  <1> SUFFICES ASSUME TypeOK, CallInv, ImageInv, [Next]_vars PROVE ImageInv'
    OBVIOUS
  <1>1. CASE Edit \/ UNCHANGED vars
    BY <1>1 DEF Edit, vars, ImageInv, Allowed
  <1>2. ASSUME NEW c \in Calls, Start(c) PROVE ImageInv'
    BY <1>2 DEF Start, Goto, TypeOK, ImageInv, Allowed
  <1>3. ASSUME NEW c \in Calls, Load(c) PROVE ImageInv'
    BY <1>3, StepOwn, LoadStep DEF Own, ImageInv, Allowed
  <1>4. ASSUME NEW c \in Calls, Resolve(c) PROVE ImageInv'
    BY <1>4, StepOwn, ResolveStep DEF Own, ImageInv, Allowed
  <1>5. QED
    BY <1>1, <1>2, <1>3, <1>4 DEF Next

LEMMA InvImage == TypeOK /\ ImageInv => ImageAllowed
  BY DEF ImageInv, ImageAllowed, Allowed, TypeOK

(* No image goes on that the lists exclude (resolver.go, validator.go).    *)
THEOREM ImagesAllowed == Spec => []ImageAllowed
  <1>1. Init => ImageInv
    BY DEF Init, ImageInv
  <1>2. QED
    BY <1>1, InitType, NextType, ImageNext, InvImage, PTL DEF Spec

-----------------------------------------------------------------------------
(* Scripts: what the history must show once the registry was read, and     *)
(* once the script is there.                                               *)

Named(c) ==
    \E i \in During(c) : past[i].registry # None /\ past[i].registry[args[c].id] = place[c]

Read(c) ==
    \E i, j \in During(c) :
       /\ i <= j
       /\ past[i].registry # None
       /\ past[i].registry[args[c].id] = place[c]
       /\ past[j].content[place[c]] = script[c]

Sourced(c) ==
    /\ SourceOf(args[c]) # "none"
    /\ SourceOf(args[c]) = "inline" => script[c] = args[c].inline
    /\ SourceOf(args[c]) = "reference" =>
          \E i \in During(c) : past[i].content[Reference(args[c])] = script[c]
    /\ SourceOf(args[c]) = "path" =>
          \E i \in During(c) : past[i].content[args[c].path] # None
    /\ SourceOf(args[c]) = "registry" => Read(c)

ScriptInv ==
    \A c \in Calls : /\ pc[c] = "content" => Named(c)
                     /\ HasScript(c) => Sourced(c)

LEMMA DuringLasts ==
    ASSUME TypeOK, CallInv, Lasting, NEW c \in Calls, pc[c] # "idle"
    PROVE  /\ \A i \in During(c) : i \in During(c)' /\ past'[i] = past[i] /\ i \in Nat
           /\ Len(past) \in During(c)
           /\ \A i \in During(c) : i <= Len(past)
  BY PastFacts DEF During, CallInv, Lasting

(* What was found out stays true.                                          *)
LEMMA ScriptStays ==
    ASSUME TypeOK, CallInv, Lasting, NEW c \in Calls, pc[c] # "idle",
           place'[c] = place[c], script'[c] = script[c]
    PROVE  (Named(c) => Named(c)') /\ (Sourced(c) => Sourced(c)')
  <1>1. args'[c] = args[c]
    BY DEF Lasting
  <1>2. ASSUME Named(c) PROVE Named(c)'
    BY <1>1, <1>2, DuringLasts DEF Named
  <1>3. ASSUME Read(c) PROVE Read(c)'
    BY <1>1, <1>3, DuringLasts DEF Read
  <1>4. ASSUME Sourced(c) PROVE Sourced(c)'
    BY <1>1, <1>3, <1>4, DuringLasts DEF Sourced, SourceOf, Reference
  <1>5. QED
    BY <1>2, <1>4

LEMMA ScriptLoad ==
    ASSUME TypeOK, CallInv, ScriptInv, NEW c \in Calls, Load(c)
    PROVE  (pc'[c] = "content" => Named(c)') /\ (HasScript(c)' => Sourced(c)')
  <1>1. Own(c) /\ pc[c] # "idle" /\ UNCHANGED <<past, args, since>>
    BY StepOwn DEF Own
  <1>2. Len(past) \in During(c) /\ During(c)' = During(c)
    BY <1>1, PastFacts DEF During, CallInv
  <1>3. SourceOf(args[c])' = SourceOf(args[c]) /\ Reference(args[c])' = Reference(args[c])
    BY <1>1 DEF SourceOf, Reference
  <1>4. CASE LoadInline(c)
    <2>1. args[c].inline \in Scripts
      BY <1>4, SourceFacts DEF LoadInline, CallInv
    <2>2. pc'[c] \in {"resolve", "failed"} /\ script'[c] = args[c].inline
      BY <1>4, <2>1, LoadedType DEF LoadInline
    <2>3. QED
      BY <1>1, <1>3, <1>4, <2>2 DEF LoadInline, Sourced
  <1>5. CASE LoadReference(c)
    <2>1. Reference(args[c]) \in Places
      BY <1>5, SourceFacts DEF LoadReference, CallInv
    <2>2. PICK s \in Found(Reference(args[c])) : Loaded(c, s)
      BY <1>5 DEF LoadReference
    <2>3. s \in Scripts /\ s = past[Len(past)].content[Reference(args[c])]
      BY <2>1, <2>2, FoundType DEF Now
    <2>4. pc'[c] \in {"resolve", "failed"} /\ script'[c] = s
      BY <2>2, <2>3, LoadedType
    <2>5. QED
      BY <1>1, <1>2, <1>3, <1>5, <2>3, <2>4 DEF LoadReference, Sourced
  <1>6. CASE CheckPath(c)
    <2>1. args[c].path \in Places
      BY <1>6, SourceFacts DEF CheckPath, CallInv
    <2>2. past[Len(past)].content[args[c].path] # None
      BY <1>6, Absent, FoundType DEF CheckPath, Found, Now
    <2>3. pc'[c] = "resolve"
      BY <1>6 DEF CheckPath, Goto, TypeOK
    <2>4. QED
      BY <1>1, <1>2, <1>3, <1>6, <2>2, <2>3 DEF CheckPath, Sourced
  <1>7. CASE ReadEntry(c)
    <2>1. /\ past[Len(past)].registry # None
          /\ place'[c] = past[Len(past)].registry[args[c].id] /\ pc'[c] = "content"
      BY <1>7 DEF ReadEntry, Goto, TypeOK, Now
    <2>2. QED
      BY <1>1, <1>2, <2>1 DEF Named, HasScript
  <1>8. CASE ReadContent(c)
    <2>1. PICK s \in Found(place[c]) : Loaded(c, s)
      BY <1>8 DEF ReadContent
    <2>2. s \in Scripts /\ s = past[Len(past)].content[place[c]]
      BY <1>8, <2>1, FoundType DEF ReadContent, CallInv, Now
    <2>3. pc'[c] \in {"resolve", "failed"} /\ script'[c] = s /\ place'[c] = place[c]
      BY <1>8, <2>1, <2>2, LoadedType DEF ReadContent
    <2>4. SourceOf(args[c]) = "registry" /\ Named(c)
      BY <1>8 DEF ReadContent, CallInv, ScriptInv
    <2>5. \A i \in During(c) : i <= Len(past)
      BY PastFacts, <1>1 DEF During, CallInv
    <2>6. Read(c)'
      BY <1>1, <1>2, <2>2, <2>3, <2>4, <2>5 DEF Named, Read
    <2>7. QED
      BY <1>3, <2>3, <2>4, <2>6 DEF Sourced
  <1>9. CASE LoadFails(c)
    BY <1>9 DEF LoadFails, Goto, TypeOK, HasScript
  <1>10. QED
    BY <1>4, <1>5, <1>6, <1>7, <1>8, <1>9 DEF Load

LEMMA ScriptNext == TypeOK /\ CallInv /\ ScriptInv /\ [Next]_vars => ScriptInv'
  <1> SUFFICES ASSUME TypeOK, CallInv, ScriptInv, [Next]_vars,
                      NEW d \in Calls
               PROVE  (pc'[d] = "content" => Named(d)') /\ (HasScript(d)' => Sourced(d)')
    BY DEF ScriptInv
  <1>0. Lasting
    BY NextLasts
  <1>1. CASE pc'[d] = pc[d] /\ place'[d] = place[d] /\ script'[d] = script[d]
    BY <1>0, <1>1, ScriptStays DEF ScriptInv, HasScript
  <1>2. CASE Edit \/ UNCHANGED vars
    BY <1>1, <1>2 DEF Edit, vars
  <1>3. ASSUME NEW c \in Calls, Start(c)
        PROVE  (pc'[d] = "content" => Named(d)') /\ (HasScript(d)' => Sourced(d)')
    <2>1. CASE d = c
      BY <1>3, <2>1 DEF Start, Goto, TypeOK, HasScript
    <2>2. CASE d # c
      BY <1>1, <1>3, <2>2 DEF Start, Goto, TypeOK
    <2>3. QED
      BY <2>1, <2>2
  <1>4. ASSUME NEW c \in Calls, Load(c)
        PROVE  (pc'[d] = "content" => Named(d)') /\ (HasScript(d)' => Sourced(d)')
    BY <1>1, <1>4, StepOwn, ScriptLoad DEF Own
  <1>5. ASSUME NEW c \in Calls, Resolve(c)
        PROVE  (pc'[d] = "content" => Named(d)') /\ (HasScript(d)' => Sourced(d)')
    <2>1. CASE d # c
      BY <1>1, <1>5, <2>1, StepOwn DEF Own
    <2>2. CASE d = c
      BY <1>0, <1>5, <2>2, ResolveStep, ScriptStays DEF ScriptInv, HasScript
    <2>3. QED
      BY <2>1, <2>2
  <1>6. QED
    BY <1>2, <1>3, <1>4, <1>5 DEF Next

LEMMA InvScript == TypeOK /\ ScriptInv => ScriptIsCurrent
  <1> SUFFICES ASSUME TypeOK, ScriptInv, NEW c \in Calls, HasScript(c)
               PROVE  CASE SourceOf(args[c]) = "inline" -> script[c] = args[c].inline
                        [] SourceOf(args[c]) = "reference" ->
                              \E i \in During(c) : past[i].content[Reference(args[c])] = script[c]
                        [] SourceOf(args[c]) = "path" ->
                              \E i \in During(c) : past[i].content[args[c].path] # None
                        [] SourceOf(args[c]) = "registry" -> Read(c)
                        [] OTHER -> FALSE
    BY DEF ScriptIsCurrent, Read
  <1>1. Sourced(c)
    BY DEF ScriptInv
  <1>2. SourceOf(args[c]) \in {"inline", "reference", "path", "registry", "none"}
    BY DEF SourceOf
  <1>3. QED
    BY <1>1, <1>2 DEF Sourced

(* A script is what its source held during the call (loader.go,            *)
(* registry.go).                                                           *)
THEOREM ScriptCurrent == Spec => []ScriptIsCurrent
  <1>1. Init => ScriptInv
    BY DEF Init, ScriptInv, HasScript
  <1>2. QED
    BY <1>1, InitType, NextType, ScriptNext, InvScript, PTL DEF Spec

-----------------------------------------------------------------------------
(* The catalog: whoever assigns the shared entries while a call is between *)
(* its own assignment and its lookup is active at the same time.           *)

Held(c, catalog) == \E i \in During(c) : past[i].catalog = catalog
FromCatalog(c) ==
    \E d \in met[c] : \E i \in During(d) :
        /\ past[i].catalog # None
        /\ past[i].catalog[args[c].ref] # None
        /\ image[c] = Completed(past[i].catalog[args[c].ref], args[c])

MetInv ==
    /\ \A c, d \in Calls : pc[c] \in Active /\ pc[d] \in Active => d \in met[c]
    /\ \A c, d \in Calls : d \in met[c] => pc[d] # "idle"

CatalogInv ==
    \A c \in Calls :
        /\ pc[c] = "assign" => Held(c, data[c])
        /\ pc[c] = "lookup" => \E d \in met[c] : Held(d, entries)
        /\ pc[c] = "ready" /\ UsesCatalog(args[c]) => FromCatalog(c)

LEMMA MetNext == TypeOK /\ CallInv /\ MetInv /\ [Next]_vars => MetInv'
  <1> SUFFICES ASSUME TypeOK, CallInv, MetInv, [Next]_vars PROVE MetInv'
    OBVIOUS
  <1>1. CASE Edit \/ UNCHANGED vars
    BY <1>1 DEF Edit, vars, MetInv
  <1>2. ASSUME NEW c \in Calls, Start(c) PROVE MetInv'
    BY <1>2 DEF Start, Goto, TypeOK, MetInv, Active
  <1>3. ASSUME NEW c \in Calls, Load(c) \/ Resolve(c) PROVE MetInv'
    <2>1. pc[c] \in Active
      BY <1>3, ResolveStep DEF Active, Load, LoadInline, LoadReference, CheckPath, ReadEntry,
                               ReadContent, LoadFails
    <2>2. Own(c)
      BY <1>3, StepOwn
    <2>3. \A d \in Calls : pc'[d] \in Active => pc[d] \in Active
      BY <2>1, <2>2 DEF Own
    <2>4. \A d \in Calls : pc[d] # "idle" => pc'[d] # "idle"
      BY <2>2 DEF Own
    <2>5. QED
      BY <2>2, <2>3, <2>4 DEF Own, MetInv
  <1>4. QED
    BY <1>1, <1>2, <1>3 DEF Next

LEMMA HeldStays ==
    ASSUME TypeOK, CallInv, Lasting, NEW c \in Calls, pc[c] # "idle", NEW catalog, Held(c, catalog)
    PROVE  \E i \in During(c)' : past'[i].catalog = catalog
  BY DuringLasts DEF Held

(* A call that does not move keeps what CatalogInv says of it, as long as  *)
(* the entries stay the same.                                              *)
LEMMA CatalogStays ==
    ASSUME TypeOK, CallInv, MetInv, CatalogInv, Lasting, NEW c \in Calls, pc[c] # "idle",
           data'[c] = data[c], image'[c] = image[c]
    PROVE  /\ pc[c] = "assign" => Held(c, data[c])'
           /\ pc[c] = "lookup" /\ UNCHANGED entries => (\E d \in met[c] : Held(d, entries))'
           /\ pc[c] = "ready" /\ UsesCatalog(args[c]) => FromCatalog(c)'
  <1>0. args'[c] = args[c] /\ met[c] \subseteq met'[c] /\ met[c] \subseteq Calls
    BY DEF Lasting, TypeOK
  <1>1. ASSUME pc[c] = "assign" PROVE Held(c, data[c])'
    BY <1>1, HeldStays DEF CatalogInv, Held
  <1>2. ASSUME pc[c] = "lookup", UNCHANGED entries PROVE (\E d \in met[c] : Held(d, entries))'
    <2>1. PICK d \in met[c] : Held(d, entries)
      BY <1>2 DEF CatalogInv
    <2>2. d \in Calls /\ pc[d] # "idle"
      BY <1>0 DEF MetInv
    <2>3. QED
      BY <1>0, <1>2, <2>1, <2>2, HeldStays DEF Held
  <1>3. ASSUME pc[c] = "ready", UsesCatalog(args[c]) PROVE FromCatalog(c)'
    <2>0. PICK d \in met[c] : \E i \in During(d) :
              /\ past[i].catalog # None /\ past[i].catalog[args[c].ref] # None
              /\ image[c] = Completed(past[i].catalog[args[c].ref], args[c])
      BY <1>3 DEF CatalogInv, FromCatalog
    <2>1. PICK i \in During(d) :
              /\ past[i].catalog # None /\ past[i].catalog[args[c].ref] # None
              /\ image[c] = Completed(past[i].catalog[args[c].ref], args[c])
      BY <2>0
    <2>2. d \in Calls /\ pc[d] # "idle"
      BY <1>0 DEF MetInv
    <2>3. i \in During(d)' /\ past'[i] = past[i]
      BY <2>1, <2>2, DuringLasts
    <2>4. /\ d \in met'[c] /\ past'[i].catalog # None /\ past'[i].catalog[args'[c].ref] # None
          /\ image'[c] = Completed(past'[i].catalog[args'[c].ref], args'[c])
      BY <1>0, <2>1, <2>3
    <2>5. QED
      BY <2>3, <2>4 DEF FromCatalog, Completed
  <1>4. QED
    BY <1>1, <1>2, <1>3

(* A step of call c, as seen by itself.                                    *)
LEMMA CatalogResolve ==
    ASSUME TypeOK, CallInv, MetInv, CatalogInv, NEW c \in Calls, Resolve(c)
    PROVE  /\ pc'[c] = "assign" => Held(c, data[c])'
           /\ pc'[c] = "lookup" => Held(c, entries)'
           /\ pc'[c] = "ready" /\ UsesCatalog(args[c]) => FromCatalog(c)'
  <1>0. Own(c) /\ UNCHANGED <<past, args, since, met>> /\ pc[c] # "idle"
    BY StepOwn DEF Own
  <1>1. CASE ResolveDirect(c)
    BY <1>1 DEF ResolveDirect, Resolved, Goto, TypeOK
  <1>2. CASE FetchCatalog(c)
    <2>1. data'[c] = past[Len(past)].catalog /\ pc'[c] = "assign"
      BY <1>2 DEF FetchCatalog, Goto, TypeOK, Now
    <2>2. Len(past) \in During(c)'
      BY <1>0, PastFacts DEF During, CallInv
    <2>3. QED
      BY <1>0, <2>1, <2>2 DEF Held
  <1>3. CASE FetchFails(c) \/ LookupFails(c)
    BY <1>3 DEF FetchFails, LookupFails, Goto, TypeOK
  <1>4. CASE AssignEntries(c)
    <2>1. Held(c, data[c]) /\ entries' = data[c] /\ pc'[c] = "lookup"
      BY <1>4 DEF AssignEntries, CatalogInv, Goto, TypeOK
    <2>2. QED
      BY <1>0, <2>1 DEF Held, During
  <1>5. CASE Lookup(c)
    <2>1. args[c].ref \in Refs
      BY <1>5, SourceFacts DEF Lookup, CallInv
    <2>2. entries[args[c].ref] \in CatalogEntry /\ entries[args[c].ref] # None
      BY <1>5, <2>1 DEF Lookup, TypeOK, Entries
    <2>3. /\ image'[c] = Completed(entries[args[c].ref], args[c])
          /\ pc'[c] \in {"ready", "failed"}
      BY <1>0, <1>5, <2>2, ResolvedType DEF Lookup
    <2>4. PICK d \in met[c] : \E i \in During(d) : past[i].catalog = entries
      BY <1>5 DEF Lookup, CatalogInv, Held
    <2>5. entries # None
      BY Absent DEF TypeOK
    <2>6. PICK i \in During(d) : past[i].catalog = entries
      BY <2>4
    <2>7. During(d)' = During(d)
      BY <1>0 DEF During
    <2>8. image'[c] = Completed(past'[i].catalog[args'[c].ref], args'[c])
      BY <1>0, <2>3, <2>6
    <2>9. FromCatalog(c)'
      BY <1>0, <2>2, <2>4, <2>5, <2>6, <2>7, <2>8 DEF FromCatalog, Completed
    <2>10. QED
      BY <2>3, <2>9
  <1>6. QED
    BY <1>1, <1>2, <1>3, <1>4, <1>5 DEF Resolve

LEMMA CatalogNext == TypeOK /\ CallInv /\ MetInv /\ CatalogInv /\ [Next]_vars => CatalogInv'
  <1> DEFINE At(d) == /\ pc[d] = "assign" => Held(d, data[d])
                      /\ pc[d] = "lookup" => \E e \in met[d] : Held(e, entries)
                      /\ pc[d] = "ready" /\ UsesCatalog(args[d]) => FromCatalog(d)
  <1> SUFFICES ASSUME TypeOK, CallInv, MetInv, CatalogInv, [Next]_vars, NEW d \in Calls
               PROVE  At(d)'
    BY DEF CatalogInv
  <1>0. Lasting
    BY NextLasts
  <1>1. CASE pc'[d] = pc[d] /\ data'[d] = data[d] /\ image'[d] = image[d] /\ UNCHANGED entries
    <2>1. CASE pc[d] = "idle"
      BY <1>1, <2>1
    <2>2. CASE pc[d] # "idle"
      <3>1. UsesCatalog(args[d])' => UsesCatalog(args[d])
        BY <1>0, <2>2 DEF Lasting, UsesCatalog
      <3>2. QED
        BY <1>0, <1>1, <2>2, <3>1, CatalogStays
    <2>3. QED
      BY <2>1, <2>2
  <1>2. CASE Edit \/ UNCHANGED vars
    BY <1>1, <1>2 DEF Edit, vars
  <1>3. ASSUME NEW c \in Calls, Start(c) PROVE At(d)'
    <2>1. CASE d = c
      BY <1>3, <2>1 DEF Start, Goto, TypeOK
    <2>2. CASE d # c
      BY <1>1, <1>3, <2>2 DEF Start, Goto, TypeOK
    <2>3. QED
      BY <2>1, <2>2
  <1>4. ASSUME NEW c \in Calls, Load(c) PROVE At(d)'
    <2>1. CASE d = c
      BY <1>4, <2>1, LoadStep
    <2>2. CASE d # c
      BY <1>1, <1>4, <2>2, StepOwn, LoadStep DEF Own
    <2>3. QED
      BY <2>1, <2>2
  <1>5. ASSUME NEW c \in Calls, Resolve(c) PROVE At(d)'
    <2>0. /\ Own(c) /\ UNCHANGED <<past, args, since, met>> /\ pc[c] # "idle"
          /\ UsesCatalog(args[d])' = UsesCatalog(args[d])
      BY <1>5, StepOwn DEF Own, UsesCatalog
    <2>1. CASE d = c
      <3>1. pc[c] \in Active
        BY <1>5, ResolveStep DEF Active
      <3>2. c \in met'[c]
        BY <2>0, <3>1 DEF MetInv
      <3>3. QED
        BY <1>5, <2>0, <2>1, <3>2, CatalogResolve
    <2>2. CASE d # c /\ AssignEntries(c)
      <3>1. pc'[d] = pc[d] /\ data'[d] = data[d] /\ image'[d] = image[d]
        BY <2>0, <2>2 DEF Own
      <3>2. pc'[c] = "lookup" /\ pc[c] = "assign"
        BY <2>2 DEF AssignEntries, Goto, TypeOK
      <3>3. Held(c, entries)'
        BY <1>5, <3>2, CatalogResolve
      <3>4. pc[d] = "lookup" => c \in met'[d]
        BY <2>0, <3>2 DEF MetInv, Active
      <3>5. CASE pc[d] = "idle"
        BY <3>1, <3>5
      <3>6. CASE pc[d] # "idle"
        BY <1>0, <2>0, <3>1, <3>3, <3>4, <3>6, CatalogStays
      <3>7. QED
        BY <3>5, <3>6
    <2>3. CASE d # c /\ ~AssignEntries(c)
      <3>1. UNCHANGED entries
        BY <1>5, <2>3 DEF Resolve, ResolveDirect, FetchCatalog, FetchFails, Lookup, LookupFails,
                          Resolved
      <3>2. QED
        BY <1>1, <2>0, <2>3, <3>1 DEF Own
    <2>4. QED
      BY <2>1, <2>2, <2>3
  <1>6. QED
    BY <1>2, <1>3, <1>4, <1>5 DEF Next

(* The entry that a call uses was in the catalog while it, or a call that  *)
(* overlapped it, was active (catalog.go, resolver.go).                    *)
THEOREM CatalogCurrent == Spec => []CatalogIsCurrent
  <1>1. Init => MetInv /\ CatalogInv
    BY DEF Init, MetInv, CatalogInv, Active
  <1>2. CatalogInv => CatalogIsCurrent
    BY DEF CatalogInv, CatalogIsCurrent, FromCatalog
  <1>3. QED
    BY <1>1, <1>2, InitType, NextType, MetNext, CatalogNext, PTL DEF Spec

-----------------------------------------------------------------------------
(* Which blocked commands the script validator keeps out.                  *)

LEMMA TrimLonger ==
    ASSUME NEW word \in Word, NEW prefix \in Seq(Operators),
           Len(word.operators) < Len(prefix)
    PROVE  TrimPrefix(prefix, word) = word
  BY LenProperties DEF TrimPrefix, Word

LEMMA SingleSeq ==
    ASSUME NEW S, NEW seq \in Seq(S), seq # <<>>, Len(seq) <= 1
    PROVE  seq[1] \in S /\ seq = <<seq[1]>>
  <1>1. PICK n \in Nat \ {0} : n = Len(seq)
    BY EmptySeq
  <1>2. n = 1
    BY <1>1
  <1>3. seq[1] \in S
    BY <1>1, <1>2, ElementOfSeq
  <1>4. <<seq[1]>> \in Seq(S) /\ Len(<<seq[1]>>) = 1 /\ <<seq[1]>>[1] = seq[1]
    BY <1>3
  <1>5. Len(seq) = 1
    BY <1>1, <1>2
  <1>6. seq = <<seq[1]>>
    BY <1>4, <1>5, SeqEqual
  <1>7. QED
    BY <1>3, <1>6

LEMMA ShortSeq ==
    ASSUME NEW S, NEW seq \in Seq(S), Len(seq) <= 1
    PROVE  Len(seq) < 2
  BY LenProperties

Plain(word) == [word EXCEPT !.operators = <<>>]

LEMMA TrimSingle ==
    ASSUME NEW word \in Word, NEW o \in Operators, NEW p \in Operators,
           word.operators = <<o>>
    PROVE  TrimPrefix(<<p>>, word) = IF o = p THEN Plain(word) ELSE word
  <1>1. SubSeq(<<o>>, 1, 1) = <<o>> /\ SubSeq(<<o>>, 2, 1) = <<>>
    <2>1. \A i \in 1 .. 1 : <<o>>[i] \in Operators
      OBVIOUS
    <2>2. /\ SubSeq(<<o>>, 1, 1) \in Seq(Operators) /\ Len(SubSeq(<<o>>, 1, 1)) = 1
          /\ SubSeq(<<o>>, 1, 1)[1] = o
      BY <2>1, SubSeqProperties
    <2>3. SubSeq(<<o>>, 1, 1) # <<>>
      BY <2>2, EmptySeq
    <2>4. SubSeq(<<o>>, 1, 1) = <<SubSeq(<<o>>, 1, 1)[1]>>
      <3>1. PICK seq \in Seq(Operators) : seq = SubSeq(<<o>>, 1, 1)
        BY <2>2
      <3>2. seq # <<>> /\ Len(seq) <= 1
        BY <2>2, <2>3, <3>1
      <3>3. seq = <<seq[1]>>
        BY <3>2, SingleSeq
      <3>4. QED
        BY <3>1, <3>3
    <2>5. SubSeq(<<o>>, 2, 1) = <<>>
      BY SubSeqEmpty
    <2>6. QED
      BY <2>2, <2>4, <2>5
  <1>2. Len(<<p>>) = 1 /\ Len(<<o>>) = 1
    OBVIOUS
  <1>3. <<o>> = <<p>> <=> o = p
    OBVIOUS
  <1>4. QED
    BY <1>1, <1>2, <1>3 DEF TrimPrefix, Plain

LEMMA PlainFacts ==
    ASSUME NEW word \in Word
    PROVE  /\ Plain(word) \in Word /\ Plain(word).operators = <<>>
           /\ Plain(word).name = word.name
           /\ word.operators = <<>> => Plain(word) = word
  <1>1. <<>> \in Seq(Operators)
    BY EmptySeq
  <1>2. Plain(word) \in Word /\ Plain(word).operators = <<>> /\ Plain(word).name = word.name
    BY <1>1 DEF Plain, Word
  <1>3. word.operators = <<>> => Plain(word) = word
    BY DEF Plain, Word
  <1>4. QED
    BY <1>2, <1>3

LEMMA BareShort ==
    ASSUME NEW word \in Word, Len(word.operators) <= 1
    PROVE  Bare(word) = Plain(word)
  <1> DEFINE one == <<"pipe">>
             two == <<"and">>
             three == <<"pipe", "pipe">>
             four == <<"semicolon">>
  <1>0. /\ one \in Seq(Operators) /\ two \in Seq(Operators)
        /\ three \in Seq(Operators) /\ four \in Seq(Operators)
        /\ Len(one) = 1 /\ Len(two) = 1 /\ Len(three) = 2 /\ Len(four) = 1
    BY DEF Operators
  <1> HIDE DEF one, two, three, four
  <1>1. ASSUME NEW w \in Word, w.operators = <<>>
        PROVE  TrimPrefix(one, w) = w /\ TrimPrefix(two, w) = w /\ TrimPrefix(four, w) = w
    <2>1. Len(w.operators) = 0
      BY <1>1, EmptySeq
    <2>2. Len(w.operators) < Len(one) /\ Len(w.operators) < Len(two) /\ Len(w.operators) < Len(four)
      BY <1>0, <2>1
    <2>3. QED
      BY <1>0, <2>2, TrimLonger
  <1>2. ASSUME NEW w \in Word, Len(w.operators) <= 1 PROVE TrimPrefix(three, w) = w
    <2>1. Len(w.operators) < 2
      BY <1>2, ShortSeq DEF Word
    <2>2. QED
      BY <1>0, <1>2, <2>1, TrimLonger
  <1>3. CASE word.operators = <<>>
    <2>1. Len(word.operators) <= 1 /\ Plain(word) = word
      BY <1>3, PlainFacts
    <2>2. Bare(word) = TrimPrefix(four, TrimPrefix(three, TrimPrefix(two, TrimPrefix(one, word))))
      BY DEF Bare, one, two, three, four
    <2>3. QED
      BY <1>1, <1>2, <1>3, <2>1, <2>2
  <1>4. CASE word.operators # <<>>
    <2>1. PICK o \in Operators : word.operators = <<o>>
      <3>1. word.operators \in Seq(Operators)
        BY DEF Word
      <3>2. word.operators[1] \in Operators /\ word.operators = <<word.operators[1]>>
        BY <1>4, <3>1, SingleSeq
      <3>3. QED
        BY <3>2
    <2>2. Plain(word) \in Word /\ Plain(word).operators = <<>>
      BY PlainFacts
    <2>3. Len(Plain(word).operators) <= 1
      BY <2>2, EmptySeq
    <2>4. /\ TrimPrefix(one, Plain(word)) = Plain(word)
          /\ TrimPrefix(two, Plain(word)) = Plain(word)
          /\ TrimPrefix(four, Plain(word)) = Plain(word)
      BY <1>1, <2>2
    <2>5. TrimPrefix(three, Plain(word)) = Plain(word) /\ TrimPrefix(three, word) = word
      BY <1>2, <2>2, <2>3
    <2>6. /\ o = "pipe" => TrimPrefix(one, word) = Plain(word)
          /\ o # "pipe" => TrimPrefix(one, word) = word
          /\ o = "and" => TrimPrefix(two, word) = Plain(word)
          /\ o # "and" => TrimPrefix(two, word) = word
          /\ o = "semicolon" => TrimPrefix(four, word) = Plain(word)
      BY <2>1, TrimSingle DEF Operators, one, two, four
    <2>7. Bare(word) = TrimPrefix(four, TrimPrefix(three, TrimPrefix(two, TrimPrefix(one, word))))
      BY DEF Bare, one, two, three, four
    <2>8. o \in {"pipe", "and", "semicolon"}
      BY DEF Operators
    <2>9. QED
      BY <2>4, <2>5, <2>6, <2>7, <2>8
  <1>5. QED
    BY <1>3, <1>4

LEMMA ValidUnblocked ==
    ASSUME NEW text \in Text, Valid(text)
    PROVE  text.size <= MaxSize /\ Unblocked(text)
  <1>1. text.size <= MaxSize
    BY DEF Valid
  <1>2. ASSUME NEW i \in DOMAIN text.lines, Reached(text, i),
               NEW k \in Leading(text.lines[i].words), Blocked(text.lines[i].words[k]),
               ~Unseen(text.lines[i].words, k)
        PROVE  FALSE
    <2> DEFINE words == text.lines[i].words
    <2>1. text.lines \in Seq(Line) /\ i \in 1 .. Len(text.lines)
      BY LenProperties DEF Text
    <2>2. words \in Seq(Word)
      <3>1. text.lines[i] \in Line
        BY <2>1, ElementOfSeq
      <3>2. QED
        BY <3>1 DEF Line
    <2>3. k \in DOMAIN words /\ (k = 1 \/ (k = 2 /\ Switched(words)))
      BY <1>2 DEF Leading
    <2>4. words # <<>> /\ Len(words) >= 1 /\ words[1] \in Word /\ Len(words[1].operators) \in Nat
      <3>1. Len(words) \in Nat /\ DOMAIN words = 1 .. Len(words)
        BY <2>2, LenProperties
      <3>2. words # <<>> /\ Len(words) >= 1
        BY <2>2, <2>3, <3>1, EmptySeq
      <3>3. words[1] \in Word
        BY <2>2, <3>1, <3>2, ElementOfSeq
      <3>4. Len(words[1].operators) \in Nat
        BY <3>3, LenProperties DEF Word
      <3>5. QED
        BY <3>2, <3>3, <3>4
    <2>5. Len(words[1].operators) <= 1
      BY <1>2, <2>3, <2>4 DEF Unseen, Switched
    <2>6. /\ Bare(words[1]) = Plain(words[1])
          /\ Plain(words[1]).operators = <<>> /\ Plain(words[1]).name = words[1].name
      BY <2>4, <2>5, BareShort, PlainFacts
    <2>7. SwitchesUser(Bare(words[1])) /\ Len(words) > 1 <=> Switched(words)
      BY <2>5, <2>6 DEF SwitchesUser, Switched
    <2>8. Command(text.lines[i]) \in ExtractCommands(text)
      BY <1>2, <2>4 DEF ExtractCommands, Reached
    <2>9. \A pattern \in BlockedCommands : ~MatchesCommand(Command(text.lines[i]), pattern)
      BY <2>8 DEF Valid
    <2>10. CASE k = 2
      <3>1. Command(text.lines[i]) = words[2] /\ words[2].operators = <<>>
        BY <1>2, <2>3, <2>7, <2>10 DEF Command, Unseen
      <3>2. QED
        BY <1>2, <2>9, <2>10, <3>1 DEF Blocked, MatchesCommand
    <2>11. CASE k = 1
      <3>1. Command(text.lines[i]) = Plain(words[1])
        BY <1>2, <2>6, <2>7, <2>11 DEF Command, Unseen
      <3>2. QED
        BY <1>2, <2>6, <2>9, <2>11, <3>1 DEF Blocked, MatchesCommand
    <2>12. QED
      BY <2>3, <2>10, <2>11
  <1>3. QED
    BY <1>1, <1>2 DEF Unblocked

(* A call holds a script only if it was empty or valid, and no script for  *)
(* a path.                                                                 *)
CheckedInv ==
    \A c \in Calls :
        /\ pc[c] \in {"idle", "load", "content"} => script[c] = None
        /\ HasScript(c) => script[c] \in {None, Empty} \/ Valid(TextOf[script[c]])

LEMMA CheckedLoad ==
    ASSUME TypeOK, CallInv, NEW c \in Calls, NEW s \in Scripts, Loaded(c, s)
    PROVE  /\ pc'[c] \in {"resolve", "failed"}
           /\ HasScript(c)' => script'[c] = Empty \/ Valid(TextOf[script'[c]])
  BY DEF Loaded, Goto, TypeOK, HasScript

LEMMA CheckedNext == TypeOK /\ CallInv /\ CheckedInv /\ [Next]_vars => CheckedInv'
  <1> USE DEF HasScript
  <1> DEFINE At(d) ==
        /\ pc[d] \in {"idle", "load", "content"} => script[d] = None
        /\ HasScript(d) => script[d] \in {None, Empty} \/ Valid(TextOf[script[d]])
  <1> SUFFICES ASSUME TypeOK, CallInv, CheckedInv, [Next]_vars, NEW d \in Calls
               PROVE  At(d)'
    BY DEF CheckedInv
  <1>1. CASE pc'[d] = pc[d] /\ script'[d] = script[d]
    BY <1>1 DEF CheckedInv
  <1>2. CASE Edit \/ UNCHANGED vars
    BY <1>1, <1>2 DEF Edit, vars
  <1>3. ASSUME NEW c \in Calls, Start(c) PROVE At(d)'
    <2>1. CASE d # c
      BY <1>1, <1>3, <2>1 DEF Start, Goto, TypeOK
    <2>2. CASE d = c
      BY <1>3, <2>2 DEF Start, Goto, TypeOK, CheckedInv
    <2>3. QED
      BY <2>1, <2>2
  <1>4. ASSUME NEW c \in Calls, Load(c) PROVE At(d)'
    <2>1. CASE d # c
      BY <1>1, <1>4, <2>1, StepOwn DEF Own
    <2>2. ASSUME NEW s \in Scripts, Loaded(c, s) PROVE At(c)'
      BY <2>2, CheckedLoad
    <2>3. CASE d = c
      <3>1. CASE LoadInline(c)
        BY <2>2, <2>3, <3>1, SourceFacts DEF LoadInline, CallInv
      <3>2. CASE LoadReference(c)
        <4>1. Reference(args[c]) \in Places
          BY <3>2, SourceFacts DEF LoadReference, CallInv
        <4>2. QED
          BY <2>2, <2>3, <3>2, <4>1, FoundType DEF LoadReference
      <3>3. CASE ReadContent(c)
        BY <2>2, <2>3, <3>3, FoundType DEF ReadContent, CallInv
      <3>4. CASE CheckPath(c)
        BY <2>3, <3>4 DEF CheckPath, Goto, TypeOK, CheckedInv
      <3>5. CASE ReadEntry(c) \/ LoadFails(c)
        BY <2>3, <3>5 DEF ReadEntry, LoadFails, Goto, TypeOK, CheckedInv
      <3>6. QED
        BY <1>4, <3>1, <3>2, <3>3, <3>4, <3>5 DEF Load
    <2>4. QED
      BY <2>1, <2>3
  <1>5. ASSUME NEW c \in Calls, Resolve(c) PROVE At(d)'
    <2>1. CASE d # c
      BY <1>1, <1>5, <2>1, StepOwn DEF Own
    <2>2. CASE d = c
      BY <1>5, <2>2, ResolveStep DEF CheckedInv
    <2>3. QED
      BY <2>1, <2>2
  <1>6. QED
    BY <1>2, <1>3, <1>4, <1>5 DEF Next

LEMMA InvChecked == TypeOK /\ CheckedInv => CommandsChecked
  <1> SUFFICES ASSUME TypeOK, CheckedInv, NEW c \in Calls,
                      HasScript(c), script[c] \notin {None, Empty}
               PROVE  /\ TextOf[script[c]].size <= MaxSize
                      /\ Unblocked(TextOf[script[c]])
    BY DEF CommandsChecked
  <1>1. script[c] \in Scripts /\ TextOf[script[c]] \in Text
    BY PreparationAssumption DEF TypeOK
  <1>2. Valid(TextOf[script[c]])
    BY DEF CheckedInv
  <1>3. QED
    BY <1>1, <1>2, ValidUnblocked

(* No blocked command where the scan looks for commands gets past the      *)
(* check of step 2, in scripts of any length; sudo and su before another   *)
(* word, words behind several operators and what follows a line over 64    *)
(* KiB do (manager.go, script_validator.go).                               *)
THEOREM CommandsAreChecked == Spec => []CommandsChecked
  <1>1. Init => CheckedInv
    BY DEF Init, CheckedInv, HasScript
  <1>2. QED
    BY <1>1, InitType, NextType, CheckedNext, InvChecked, PTL DEF Spec

=============================================================================
