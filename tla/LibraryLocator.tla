---------------------------- MODULE LibraryLocator ----------------------------
(***************************************************************************)
(* Class shared_library_locator: named root directories and logical        *)
(* library names behind one mutex, shared by threads, over a file system   *)
(* that other programs change between any two of its steps.  A place is a  *)
(* file name in a canonical directory; it may be a link to another place.  *)
(***************************************************************************)
EXTENDS Integers, FiniteSets, SequencesExt

CONSTANTS
  Threads,
  Nobody,      \* the mutex is free
  RootNames,
  Dirs,        \* canonical directories, none inside another
  Alias,       \* a directory link that operators point from one of Dirs to another
  Libraries,   \* logical names
  Files,       \* file names, without ".."
  NativeName,  \* NativeName[f]: f as this platform spells a library
  None,
  Asked,       \* the calls callers make ...
  Mapped,      \* ... and the mappings they ask for
  Installed,   \* places that hold a file at first
  Changing,    \* places other programs change
  MaxChanges   \* bound on changes of the file system

Places == Dirs \X Files
Mappings == [root : RootNames, file : Files]
Requests ==
  [op : {"add_root"}, root : RootNames, dir : Dirs \cup {Alias}]
    \cup [op : {"load"}, library : Libraries]
    \cup [op : {"open_path"}, file : Files]
    \cup [op : {"open_absolute"}, place : Places]

ASSUME LocatorAssumption ==
  /\ Asked \subseteq Requests /\ Mapped \subseteq Mappings
  /\ Installed \subseteq Places /\ Changing \subseteq Places
  /\ NativeName \in [Files -> Files]
  /\ Nobody \notin Threads /\ None \notin Dirs /\ Alias \notin Dirs

VARIABLES
  roots, libraries,   \* roots_ and libraries_
  lock,               \* mutex_
  fs, deployed,       \* what each place holds; where Alias points
  changes,
  pc, request,        \* per thread: where it is in which call
  todo, found,        \* ... candidates left to probe; the path it works with
  quiet               \* ... nothing it reads has changed since the call began

shared == <<roots, libraries>>
world == <<fs, deployed, changes>>
locals == <<request, todo, found, quiet>>
locatorVars == <<shared, lock, world, pc, locals>>

Plain == [kind : {"absent", "file", "directory"}, to : {None}]
Links == [kind : {"link"}, to : Places]
Probes == [place : Places, roots : SUBSET Dirs]

Labels == {"idle", "canonical", "store", "resolve", "locked", "snapshot", "probe",
           "check", "open", "regular", "dlopen", "returned", "thrown"}

LocatorTypeOK ==
  /\ roots \in [RootNames -> Dirs \cup {None}]
  /\ libraries \in [Libraries -> Mappings \cup {None}]
  /\ lock \in Threads \cup {Nobody}
  /\ fs \in [Places -> Plain \cup Links]
  /\ deployed \in Dirs
  /\ pc \in [Threads -> Labels]
  /\ request \in [Threads -> Requests \cup {None}]
  /\ todo \in [Threads -> Seq(Probes)]
  /\ found \in [Threads -> Places \cup Dirs \cup {None}]
  /\ quiet \in [Threads -> BOOLEAN]

-----------------------------------------------------------------------------
(* The file system.  Links to links count as absent. *)

Follow(p) == IF fs[p].kind = "link" THEN fs[p].to ELSE p
Exists(p) == fs[Follow(p)].kind \in {"file", "directory"}
IsRegular(p) == fs[Follow(p)].kind = "file"
Target(d) == IF d = Alias THEN deployed ELSE d
DirOf(p) == p[1]

\* Variant: the directory part is lost.
NativeBare(p) == <<None, NativeName[p[2]]>>

Native(p) == <<p[1], NativeName[p[2]]>>

\* Another program replaces one entry, or points the directory link elsewhere.
Change ==
  /\ changes < MaxChanges /\ changes' = changes + 1
  /\ \/ \E p \in Changing : \E e \in (Plain \cup Links) \ {fs[p]} :
          fs' = [fs EXCEPT ![p] = e] /\ UNCHANGED deployed
     \/ \E d \in Dirs \ {deployed} : deployed' = d /\ UNCHANGED fs
  /\ quiet' = [t \in Threads |-> pc[t] = "idle"]
  /\ UNCHANGED <<shared, lock, pc, request, todo, found>>

-----------------------------------------------------------------------------
(* The calls. *)

LocatorInit ==
  /\ roots = [n \in RootNames |-> None] /\ libraries = [l \in Libraries |-> None]
  /\ lock = Nobody
  /\ fs = [p \in Places |-> [kind |-> IF p \in Installed THEN "file" ELSE "absent", to |-> None]]
  /\ deployed \in Dirs /\ changes = 0
  /\ pc = [t \in Threads |-> "idle"]
  /\ request = [t \in Threads |-> None]
  /\ todo = [t \in Threads |-> <<>>] /\ found = [t \in Threads |-> None]
  /\ quiet = [t \in Threads |-> TRUE]

Goto(t, label) == pc' = [pc EXCEPT ![t] = label]

Begin(t, r) ==
  /\ pc[t] = "idle"
  /\ Goto(t, CASE r.op = "add_root" -> "canonical"
               [] r.op = "load" -> "resolve"
               [] OTHER -> "snapshot")
  /\ request' = [request EXCEPT ![t] = r]
  /\ UNCHANGED <<shared, lock, world, todo, found, quiet>>

\* The caller has the result or the exception; locals are gone.
Return(t) ==
  /\ pc[t] \in {"returned", "thrown"}
  /\ Goto(t, "idle")
  /\ request' = [request EXCEPT ![t] = None]
  /\ found' = [found EXCEPT ![t] = None]
  /\ quiet' = [quiet EXCEPT ![t] = TRUE]
  /\ UNCHANGED <<shared, lock, world, todo>>

Throw(t) ==
  /\ Goto(t, "thrown")
  /\ todo' = [todo EXCEPT ![t] = <<>>] /\ found' = [found EXCEPT ![t] = None]

\* t has found the path p to open.
Found(t, p) ==
  /\ Goto(t, "open")
  /\ todo' = [todo EXCEPT ![t] = <<>>] /\ found' = [found EXCEPT ![t] = p]

\* The maps change under the calls of the other threads.
Disturb(t) == quiet' = [u \in Threads |-> quiet[u] /\ (u = t \/ pc[u] = "idle")]

\* add_root(): the directory is resolved before the mutex is taken.
CanonicalRoot(t) ==
  /\ pc[t] = "canonical"
  /\ found' = [found EXCEPT ![t] = Target(request[t].dir)]
  /\ Goto(t, "store")
  /\ UNCHANGED <<shared, lock, world, request, todo, quiet>>

\* Variant: try_emplace() alone, an existing root keeps its directory.
StoreRootOnce(t) ==
  /\ pc[t] = "store" /\ lock = Nobody
  /\ LET n == request[t].root
     IN  roots' = [roots EXCEPT ![n] = IF @ = None THEN found[t] ELSE @]
  /\ Goto(t, "returned") /\ Disturb(t)
  /\ UNCHANGED <<libraries, lock, world, request, todo, found>>

StoreRoot(t) ==
  /\ pc[t] = "store" /\ lock = Nobody
  /\ roots' = [roots EXCEPT ![request[t].root] = found[t]]
  /\ Goto(t, "returned") /\ Disturb(t)
  /\ UNCHANGED <<libraries, lock, world, request, todo, found>>

\* Variant: the root may be registered later.
MapLibraryEarly(t, l, m) ==
  /\ pc[t] = "idle" /\ lock = Nobody
  /\ libraries' = [libraries EXCEPT ![l] = m]
  /\ Disturb(t)
  /\ UNCHANGED <<roots, lock, world, pc, request, todo, found>>

\* map_library() is one critical section; an unknown root throws.
MapLibrary(t, l, m) ==
  /\ pc[t] = "idle" /\ lock = Nobody
  /\ roots[m.root] # None
  /\ libraries' = [libraries EXCEPT ![l] = m]
  /\ Disturb(t)
  /\ UNCHANGED <<roots, lock, world, pc, request, todo, found>>

-----------------------------------------------------------------------------
(* resolve() keeps the mutex while it asks the file system. *)

MappedPlace(l) == <<roots[libraries[l].root], libraries[l].file>>

\* Variant: the mutex protects the lookup only.
FindMappingOnly(t) ==
  /\ pc[t] = "resolve" /\ lock = Nobody
  /\ LET l == request[t].library
     IN  IF libraries[l] = None \/ roots[libraries[l].root] = None
         THEN Throw(t)
         ELSE found' = [found EXCEPT ![t] = MappedPlace(l)] /\ Goto(t, "locked") /\ UNCHANGED todo
  /\ UNCHANGED <<shared, lock, world, request, quiet>>

FindMapping(t) ==
  /\ pc[t] = "resolve" /\ lock = Nobody
  /\ LET l == request[t].library
     IN  IF libraries[l] = None \/ roots[libraries[l].root] = None
         THEN Throw(t) /\ UNCHANGED lock
         ELSE /\ lock' = t
              /\ found' = [found EXCEPT ![t] = MappedPlace(l)]
              /\ Goto(t, "locked") /\ UNCHANGED todo
  /\ UNCHANGED <<shared, world, request, quiet>>

\* Variant: the exception leaves the mutex locked.
ResolveMappedKeepsLock(t) ==
  /\ pc[t] = "locked"
  /\ IF Exists(found[t]) /\ DirOf(Follow(found[t])) = DirOf(found[t])
     THEN Found(t, Follow(found[t])) /\ lock' = Nobody
     ELSE Throw(t) /\ UNCHANGED lock
  /\ UNCHANGED <<shared, world, request, quiet>>

ResolveMapped(t) ==
  /\ pc[t] = "locked"
  /\ lock' = Nobody
  /\ IF Exists(found[t]) /\ DirOf(Follow(found[t])) = DirOf(found[t])
     THEN Found(t, Follow(found[t]))
     ELSE Throw(t)
  /\ UNCHANGED <<shared, world, request, quiet>>

-----------------------------------------------------------------------------
(* resolve_path() copies the roots and then probes without the mutex. *)

DecoratedNames(p) == IF Native(p) = p THEN <<p>> ELSE <<p, Native(p)>>

Registered == {n \in RootNames : roots[n] # None}
RegisteredDirs == {roots[n] : n \in Registered}

\* What is probed: root by root in the unspecified order of roots_, and under
\* each root its file names, one or two, in turn.
ProbesFor(r, order) ==
  IF r.op = "open_absolute"
  THEN LET c == DecoratedNames(r.place)
       IN  [i \in DOMAIN c |-> [place |-> c[i], roots |-> RegisteredDirs]]
  ELSE LET names == IF NativeName[r.file] = r.file THEN 1 ELSE 2
       IN  [i \in 1 .. names * Len(order) |->
              LET d == roots[order[1 + ((i - 1) \div names)]]
              IN  [place |-> DecoratedNames(<<d, r.file>>)[1 + ((i - 1) % names)], roots |-> {d}]]

Snapshot(t) ==
  /\ pc[t] = "snapshot" /\ lock = Nobody
  /\ \E order \in SetToSeqs(Registered) :
       todo' = [todo EXCEPT ![t] = ProbesFor(request[t], order)]
  /\ Goto(t, "probe")
  /\ UNCHANGED <<shared, lock, world, request, found, quiet>>

ProbeCandidate(t) ==
  /\ pc[t] = "probe" /\ todo[t] # <<>>
  /\ IF Exists(Head(todo[t]).place)
     THEN Goto(t, "check") /\ UNCHANGED todo
     ELSE todo' = [todo EXCEPT ![t] = Tail(@)] /\ UNCHANGED pc
  /\ UNCHANGED <<shared, lock, world, request, found, quiet>>

ProbeNothingLeft(t) ==
  /\ pc[t] = "probe" /\ todo[t] = <<>>
  /\ Throw(t)
  /\ UNCHANGED <<shared, lock, world, request, quiet>>

\* Variant: the first candidate that exists decides.
CheckCandidateOnce(t) ==
  /\ pc[t] = "check"
  /\ LET c == Head(todo[t])
     IN  IF Exists(c.place) /\ DirOf(Follow(c.place)) \in c.roots
         THEN Found(t, Follow(c.place))
         ELSE Throw(t)
  /\ UNCHANGED <<shared, lock, world, request, quiet>>

\* A candidate that vanished since it was probed ends the call; one outside
\* its root ends an absolute request and is passed over by a relative one.
CheckCandidate(t) ==
  /\ pc[t] = "check"
  /\ LET c == Head(todo[t])
     IN  IF Exists(c.place) /\ DirOf(Follow(c.place)) \in c.roots
         THEN Found(t, Follow(c.place))
         ELSE IF Exists(c.place) /\ request[t].op = "open_path"
              THEN todo' = [todo EXCEPT ![t] = Tail(@)] /\ Goto(t, "probe") /\ UNCHANGED found
              ELSE Throw(t)
  /\ UNCHANGED <<shared, lock, world, request, quiet>>

-----------------------------------------------------------------------------
(* shared_library::open() looks at the path three more times. *)

OpenCanonical(t) ==
  /\ pc[t] = "open"
  /\ IF Exists(found[t])
     THEN found' = [found EXCEPT ![t] = Follow(@)] /\ Goto(t, "regular") /\ UNCHANGED todo
     ELSE Throw(t)
  /\ UNCHANGED <<shared, lock, world, request, quiet>>

OpenRegular(t) ==
  /\ pc[t] = "regular"
  /\ IF IsRegular(found[t]) THEN Goto(t, "dlopen") /\ UNCHANGED <<todo, found>> ELSE Throw(t)
  /\ UNCHANGED <<shared, lock, world, request, quiet>>

\* found is then the file the loader mapped.
Load(t) ==
  /\ pc[t] = "dlopen"
  /\ IF IsRegular(found[t])
     THEN found' = [found EXCEPT ![t] = Follow(@)] /\ Goto(t, "returned") /\ UNCHANGED todo
     ELSE Throw(t)
  /\ UNCHANGED <<shared, lock, world, request, quiet>>

Advance(t) ==
  \/ CanonicalRoot(t) \/ StoreRoot(t)
  \/ FindMapping(t) \/ ResolveMapped(t)
  \/ Snapshot(t) \/ ProbeCandidate(t) \/ ProbeNothingLeft(t) \/ CheckCandidate(t)
  \/ OpenCanonical(t) \/ OpenRegular(t) \/ Load(t)

LocatorNext ==
  \/ \E t \in Threads :
       \/ \E r \in Asked : Begin(t, r)
       \/ \E l \in Libraries, m \in Mapped : MapLibrary(t, l, m)
       \/ Advance(t) \/ Return(t)
  \/ Change

\* A thread that can go on in a call does so.
LocatorSpec == LocatorInit /\ [][LocatorNext]_locatorVars
                 /\ \A t \in Threads : WF_locatorVars(Advance(t))

-----------------------------------------------------------------------------
(* Properties *)

\* A mapping never refers to a root that is not registered, so the second
\* lookup in resolve() cannot fail whatever the order of registrations.
MappedRootExists ==
  \A l \in Libraries : libraries[l] # None => roots[libraries[l].root] # None

\* resolve() answers from the maps as they are when it answers: between its
\* lookup and its check of the file no root and no mapping changes.
ResolveIsAtomic ==
  \A t \in Threads : pc[t] = "locked" => lock = t /\ found[t] = MappedPlace(request[t].library)

InRoot(p, ds) == Exists(p) /\ DirOf(Follow(p)) \in ds

\* The places a request may be answered from, with the directories allowed.
Allowed(r) ==
  CASE r.op = "load" ->
         IF libraries[r.library] = None THEN {}
         ELSE {<<MappedPlace(r.library), {roots[libraries[r.library].root]}>>}
    [] r.op = "open_path" ->
         {<<p, {DirOf(p)}>> : p \in UNION {ToSet(DecoratedNames(<<d, r.file>>)) : d \in RegisteredDirs}}
    [] r.op = "open_absolute" ->
         {<<p, RegisteredDirs>> : p \in ToSet(DecoratedNames(r.place))}

\* Those that lead to something inside their directories.
Good(r) == {a \in Allowed(r) : InRoot(a[1], a[2])}

\* t ends the call r as it would end alone, in the state it ends in.
SequentialAnswer(t, r) ==
  IF r.op = "add_root" THEN roots[r.root] = Target(r.dir)
  ELSE IF pc[t] = "returned"
       THEN \E a \in Good(r) : found[t] = Follow(a[1]) /\ IsRegular(a[1])
       ELSE \/ Good(r) = {}
            \/ \E a \in Good(r) : ~IsRegular(a[1])
            \/ r.op = "open_absolute" /\ \E a \in Allowed(r) : Exists(a[1]) /\ a \notin Good(r)

\* A call during which nothing changed gives the sequential answer: add_root
\* stored the directory meant; a load opened a regular file an allowed
\* candidate leads to inside its root; and it threw only if no allowed
\* candidate is inside its root, or one that exists cannot be loaded (a
\* directory of the requested name hides candidates after it, and a path
\* outside every root ends an absolute request).
UndisturbedCallIsSequential ==
  \A t \in Threads :
    quiet[t] /\ pc[t] \in {"returned", "thrown"} => SequentialAnswer(t, request[t])

\* Whoever takes the mutex gives it back, also when the file is missing.
MutexIsReleased == \A t \in Threads : lock = t ~> lock # t
=============================================================================
