-------------------------- MODULE LibraryLocatorProofs --------------------------
(***************************************************************************)
(* Proofs about class shared_library_locator, for any number of threads,   *)
(* roots, libraries and files, and any number of changes of the file       *)
(* system between the steps of its calls.                                  *)
(***************************************************************************)
EXTENDS LibraryLocator, FiniteSetTheorems, TLAPS

-----------------------------------------------------------------------------
(* What holds of every call. *)

RootRequests == [op : {"add_root"}, root : RootNames, dir : Dirs \cup {Alias}]
LoadRequests == [op : {"load"}, library : Libraries]
OpenRequests == [op : {"open_path"}, file : Files] \cup [op : {"open_absolute"}, place : Places]

\* Each label belongs to one kind of call and has the path the call works with.
InItsCall(t) ==
  /\ pc[t] \in {"canonical", "store"} => request[t] \in RootRequests
  /\ pc[t] \in {"resolve", "locked"} => request[t] \in LoadRequests
  /\ pc[t] \in {"snapshot", "probe", "check"} => request[t] \in OpenRequests
  /\ pc[t] \in {"open", "regular", "dlopen"} => request[t] \in LoadRequests \cup OpenRequests
  /\ pc[t] = "thrown" => request[t] \in LoadRequests \cup OpenRequests
  /\ pc[t] # "idle" => request[t] \in Requests
  /\ pc[t] = "store" => found[t] \in Dirs
  /\ pc[t] \in {"locked", "open", "regular", "dlopen"} => found[t] \in Places
  /\ pc[t] = "check" => todo[t] # <<>>

CallsInv == LocatorTypeOK /\ \A t \in Threads : InItsCall(t)

\* Only finitely many roots were ever registered.
RootsInv == IsFiniteSet(Registered) /\ MappedRootExists /\ ResolveIsAtomic

-----------------------------------------------------------------------------
(* What holds of a call while nothing it reads changes. *)

Candidate(c) == <<c.place, c.roots>>
Unprobed(t) == {Candidate(todo[t][i]) : i \in DOMAIN todo[t]}

\* The call r of t has come no further than it would have come alone.
OnCourse(t, r) ==
  /\ pc[t] = "store" => found[t] = Target(r.dir)
  /\ pc[t] = "locked" => libraries[r.library] # None
  /\ pc[t] \in {"probe", "check"} => Good(r) \subseteq Unprobed(t) /\ Unprobed(t) \subseteq Allowed(r)
  /\ pc[t] = "check" => Exists(Head(todo[t]).place)
  /\ pc[t] \in {"open", "regular"} => \E a \in Good(r) : found[t] = Follow(a[1])
  /\ pc[t] = "dlopen" => \E a \in Good(r) : found[t] = Follow(a[1]) /\ IsRegular(a[1])
  /\ pc[t] \in {"returned", "thrown"} => SequentialAnswer(t, r)

QuietInv ==
  \A t \in Threads, r \in Requests :
    quiet[t] /\ pc[t] # "idle" /\ request[t] = r => OnCourse(t, r)

-----------------------------------------------------------------------------
(* The file system *)

\* Following a path ends at a place, and following it again leads nowhere else.
LEMMA Following ==
  ASSUME LocatorTypeOK, NEW p \in Places
  PROVE  /\ Follow(p) \in Places
         /\ IsRegular(p) => Exists(p)
         /\ Exists(p) => /\ Follow(Follow(p)) = Follow(p) /\ Exists(Follow(p))
                         /\ IsRegular(Follow(p)) <=> IsRegular(p)
<1>1. fs[p] \in Plain \cup Links
  BY DEF LocatorTypeOK
<1>2. Follow(p) \in Places
  BY <1>1 DEF Follow, Links, Plain
<1>3. IsRegular(p) => Exists(p)
  BY DEF IsRegular, Exists
<1>4. Exists(p) => Follow(Follow(p)) = Follow(p)
  BY <1>2 DEF Exists, Follow
<1>5. Exists(p) => Exists(Follow(p)) /\ (IsRegular(Follow(p)) <=> IsRegular(p))
  BY <1>4 DEF Exists, IsRegular
<1> QED
  BY <1>2, <1>3, <1>4, <1>5

LEMMA DirOfPlace == ASSUME NEW p \in Places PROVE DirOf(p) \in Dirs
BY DEF Places, DirOf

\* A path and its native spelling are in one directory.
LEMMA DecoratedPlaces ==
  ASSUME NEW p \in Places
  PROVE  /\ Native(p) \in Places /\ DirOf(Native(p)) = DirOf(p)
         /\ ToSet(DecoratedNames(p)) = {p, Native(p)}
<1>1. p = <<p[1], p[2]>> /\ p[1] \in Dirs /\ p[2] \in Files
  BY DEF Places
<1>2. Native(p) \in Places /\ DirOf(Native(p)) = DirOf(p)
  BY <1>1, LocatorAssumption DEF Native, DirOf, Places
<1>3. CASE Native(p) = p
  <2>1. DecoratedNames(p) = <<p>>
    BY <1>3 DEF DecoratedNames
  <2>2. ToSet(<<p>>) = {p}
    BY DEF ToSet
  <2> QED
    BY <1>2, <1>3, <2>1, <2>2
<1>4. CASE Native(p) # p
  <2>1. DecoratedNames(p) = <<p, Native(p)>>
    BY <1>4 DEF DecoratedNames
  <2>2. ToSet(<<p, Native(p)>>) = {p, Native(p)}
    BY DEF ToSet
  <2> QED
    BY <1>2, <1>4, <2>1, <2>2
<1> QED
  BY <1>3, <1>4

-----------------------------------------------------------------------------
(* What is probed *)

LEMMA RequestKinds ==
  /\ Requests = RootRequests \cup LoadRequests \cup OpenRequests
  /\ \A r \in RootRequests : r.op = "add_root" /\ r.root \in RootNames /\ r.dir \in Dirs \cup {Alias}
  /\ \A r \in LoadRequests : r.op = "load" /\ r.library \in Libraries
  /\ \A r \in OpenRequests : \/ r.op = "open_path" /\ r.file \in Files
                             \/ r.op = "open_absolute" /\ r.place \in Places
BY DEF Requests, RootRequests, LoadRequests, OpenRequests

LEMMA RegisteredPlaces ==
  ASSUME LocatorTypeOK
  PROVE  /\ RegisteredDirs \subseteq Dirs /\ Registered \subseteq RootNames
         /\ \A n \in Registered : roots[n] \in Dirs
BY DEF RegisteredDirs, Registered, LocatorTypeOK

\* An order of the roots has each of them.
LEMMA OrderIsComplete ==
  ASSUME IsFiniteSet(Registered), NEW order \in SetToSeqs(Registered)
  PROVE  /\ order \in Seq(Registered) /\ Len(order) \in Nat /\ DOMAIN order = 1 .. Len(order)
         /\ \A n \in Registered : \E k \in 1 .. Len(order) : order[k] = n
<1> DEFINE c == Cardinality(Registered)
           D == 1 .. c
<1>1. c \in Nat
  BY FS_CardinalityType
<1>2. order \in [D -> Registered] /\ \A i, j \in D : i # j => order[i] # order[j]
  BY DEF SetToSeqs
<1> HIDE DEF c
<1>3. order \in Seq(Registered) /\ Len(order) = c
  BY <1>1, <1>2
<1>4. IsFiniteSet(D) /\ Cardinality(D) = IF 1 > c THEN 0 ELSE c - 1 + 1
  BY <1>1, FS_Interval
<1>5. IsFiniteSet(D) /\ Cardinality(D) = c
  BY <1>1, <1>4
<1> HIDE DEF D
<1>6. order \in Injection(D, Registered)
  BY <1>2 DEF Injection, IsInjective
<1>7. order \in Surjection(D, Registered)
  BY <1>5, <1>6, FS_Injection DEF c
<1>8. \A n \in Registered : \E k \in D : order[k] = n
  BY <1>7 DEF Surjection
<1> QED
  BY <1>1, <1>3, <1>8 DEF D

\* The spellings of a file under a directory.
LEMMA Spelled ==
  ASSUME NEW d, NEW f
  PROVE  LET names == DecoratedNames(<<d, f>>)
         IN  /\ NativeName[f] = f => names = <<<<d, f>>>> /\ DOMAIN names = 1 .. 1
             /\ NativeName[f] # f => /\ names = <<<<d, f>>, <<d, NativeName[f]>>>>
                                     /\ DOMAIN names = 1 .. 2
<1> DEFINE p == <<d, f>>
           q == <<d, NativeName[f]>>
<1>1. Native(p) = q /\ (NativeName[f] = f <=> q = p)
  BY DEF Native
<1> HIDE DEF p, q
<1>2. DOMAIN <<p>> = 1 .. 1 /\ DOMAIN <<p, q>> = 1 .. 2
  OBVIOUS
<1>3. DecoratedNames(p) = IF q = p THEN <<p>> ELSE <<p, q>>
  BY <1>1 DEF DecoratedNames
<1> QED
  BY <1>1, <1>2, <1>3 DEF p, q

\* What a relative request probes: every name under every root.
LEMMA RelativeProbes ==
  ASSUME LocatorTypeOK, IsFiniteSet(Registered), NEW r \in OpenRequests, r.op = "open_path",
         NEW order \in SetToSeqs(Registered)
  PROVE  LET probes == ProbesFor(r, order)
         IN  /\ probes \in Seq(Probes)
             /\ {Candidate(probes[i]) : i \in DOMAIN probes} = Allowed(r)
<1> DEFINE names == IF NativeName[r.file] = r.file THEN 1 ELSE 2
           len == names * Len(order)
           Dir(i) == roots[order[1 + ((i - 1) \div names)]]
           Probe(i) == [place |-> DecoratedNames(<<Dir(i), r.file>>)[1 + ((i - 1) % names)],
                        roots |-> {Dir(i)}]
           probes == ProbesFor(r, order)
<1>1. /\ r.file \in Files /\ names \in {1, 2} /\ Len(order) \in Nat /\ len \in Nat
      /\ \A d \in Dirs : <<d, r.file>> \in Places
  BY RequestKinds, OrderIsComplete DEF Places
<1>2. probes = [i \in 1 .. len |-> Probe(i)]
  BY DEF ProbesFor
<1>3. ASSUME NEW i \in 1 .. len
      PROVE  /\ Dir(i) \in RegisteredDirs
             /\ Probe(i).place \in ToSet(DecoratedNames(<<Dir(i), r.file>>))
  <2>1. 1 + ((i - 1) \div names) \in 1 .. Len(order) /\ 1 + ((i - 1) % names) \in 1 .. names
    BY <1>1
  <2>2. Dir(i) \in RegisteredDirs
    BY <2>1, OrderIsComplete DEF RegisteredDirs
  <2>3. <<Dir(i), r.file>> \in Places
    BY <1>1, <2>2, RegisteredPlaces
  <2>4. DOMAIN DecoratedNames(<<Dir(i), r.file>>) = 1 .. names
    BY Spelled
  <2> QED
    BY <2>1, <2>2, <2>4 DEF ToSet
<1>4. ASSUME NEW d \in RegisteredDirs, NEW p \in ToSet(DecoratedNames(<<d, r.file>>))
      PROVE  \E i \in 1 .. len : Probe(i) = [place |-> p, roots |-> {d}]
  <2>1. PICK k \in 1 .. Len(order) : roots[order[k]] = d
    BY OrderIsComplete DEF RegisteredDirs
  <2>2. PICK j \in 1 .. names : DecoratedNames(<<d, r.file>>)[j] = p
    BY Spelled DEF ToSet
  <2> DEFINE i == names * (k - 1) + j
  <2>3. i \in 1 .. len /\ (i - 1) \div names = k - 1 /\ (i - 1) % names = j - 1
    <3>1. CASE names = 1
      BY <1>1, <3>1
    <3>2. CASE names = 2
      BY <1>1, <3>2
    <3> QED
      BY <1>1, <3>1, <3>2
  <2>4. 1 + ((i - 1) \div names) = k /\ 1 + ((i - 1) % names) = j
    BY <1>1, <2>3
  <2> QED
    BY <2>1, <2>2, <2>3, <2>4
<1> HIDE DEF names, len
<1>5. ASSUME NEW d \in RegisteredDirs, NEW p \in ToSet(DecoratedNames(<<d, r.file>>))
      PROVE  p \in Places /\ DirOf(p) = d
  <2>1. <<d, r.file>> \in Places
    BY <1>1, RegisteredPlaces
  <2>2. DirOf(<<d, r.file>>) = d
    BY DEF DirOf
  <2> QED
    BY <2>1, <2>2, DecoratedPlaces
<1>6. \A a : a \in Allowed(r) <=> \E d \in RegisteredDirs :
                                    \E p \in ToSet(DecoratedNames(<<d, r.file>>)) : a = <<p, {d}>>
  <2> DEFINE ps == UNION {ToSet(DecoratedNames(<<d, r.file>>)) : d \in RegisteredDirs}
  <2>1. Allowed(r) = {<<p, {DirOf(p)}>> : p \in ps}
    BY DEF Allowed
  <2>2. \A p : p \in ps <=> \E d \in RegisteredDirs : p \in ToSet(DecoratedNames(<<d, r.file>>))
    OBVIOUS
  <2> HIDE DEF ps
  <2>3. \A a : a \in Allowed(r) <=> \E p \in ps : a = <<p, {DirOf(p)}>>
    BY <2>1
  <2>4. \A d \in RegisteredDirs : \A p \in ToSet(DecoratedNames(<<d, r.file>>)) :
          <<p, {DirOf(p)}>> = <<p, {d}>>
    BY <1>5
  <2>5. ASSUME NEW a \in Allowed(r)
        PROVE  \E d \in RegisteredDirs : \E p \in ToSet(DecoratedNames(<<d, r.file>>)) : a = <<p, {d}>>
    <3>1. PICK p \in ps : a = <<p, {DirOf(p)}>>
      BY <2>3
    <3>2. PICK d \in RegisteredDirs : p \in ToSet(DecoratedNames(<<d, r.file>>))
      BY <2>2
    <3>3. a = <<p, {d}>>
      BY <2>4, <3>1, <3>2
    <3> QED
      BY <3>2, <3>3
  <2>6. ASSUME NEW d \in RegisteredDirs, NEW p \in ToSet(DecoratedNames(<<d, r.file>>))
        PROVE  <<p, {d}>> \in Allowed(r)
    <3>1. p \in ps
      BY <2>2
    <3>2. <<p, {DirOf(p)}>> \in Allowed(r)
      BY <2>3, <3>1
    <3> QED
      BY <2>4, <3>2
  <2> QED
    BY <2>5, <2>6
<1> HIDE DEF Dir
<1>7. ASSUME NEW i \in 1 .. len PROVE Probe(i) \in Probes /\ Candidate(Probe(i)) \in Allowed(r)
  <2>1. Probe(i).place \in Places /\ Dir(i) \in Dirs
    BY <1>3, <1>5, RegisteredPlaces
  <2>2. Candidate(Probe(i)) = <<Probe(i).place, {Dir(i)}>>
    BY DEF Candidate
  <2> QED
    BY <1>3, <1>6, <2>1, <2>2 DEF Probes
<1>8. ASSUME NEW a \in Allowed(r) PROVE \E i \in 1 .. len : Candidate(Probe(i)) = a
  <2>1. PICK d \in RegisteredDirs : \E p \in ToSet(DecoratedNames(<<d, r.file>>)) : a = <<p, {d}>>
    BY <1>6
  <2>2. PICK q \in ToSet(DecoratedNames(<<d, r.file>>)) : a = <<q, {d}>>
    BY <2>1
  <2>3. PICK i \in 1 .. len : Probe(i) = [place |-> q, roots |-> {d}]
    BY <1>4
  <2> QED
    BY <2>2, <2>3 DEF Candidate
<1> HIDE DEF Probe
<1>9. DOMAIN probes = 1 .. len /\ probes \in Seq(Probes) /\ \A i \in 1 .. len : probes[i] = Probe(i)
  BY <1>1, <1>2, <1>7
<1> QED
  BY <1>7, <1>8, <1>9

\* What an absolute request probes: the place and its native spelling.
LEMMA AbsoluteProbes ==
  ASSUME LocatorTypeOK, NEW r \in OpenRequests, r.op = "open_absolute", NEW order
  PROVE  LET probes == ProbesFor(r, order)
         IN  /\ probes \in Seq(Probes)
             /\ {Candidate(probes[i]) : i \in DOMAIN probes} = Allowed(r)
<1> DEFINE c == DecoratedNames(r.place)
           probes == ProbesFor(r, order)
<1>1. r.place \in Places /\ c \in Seq(Places)
  <2>1. r.place \in Places
    BY RequestKinds
  <2>2. Native(r.place) \in Places
    BY <2>1, DecoratedPlaces
  <2>3. c = <<r.place>> \/ c = <<r.place, Native(r.place)>>
    BY DEF DecoratedNames
  <2>4. <<r.place>> \in Seq(Places) /\ <<r.place, Native(r.place)>> \in Seq(Places)
    BY <2>1, <2>2
  <2> HIDE DEF c
  <2> QED
    BY <2>1, <2>3, <2>4
<1>2. probes = [i \in DOMAIN c |-> [place |-> c[i], roots |-> RegisteredDirs]]
  BY DEF ProbesFor
<1>3. Allowed(r) = {<<p, RegisteredDirs>> : p \in ToSet(c)}
  BY DEF Allowed
<1> HIDE DEF c, probes
<1>4. probes \in Seq(Probes)
  <2>1. DOMAIN c = 1 .. Len(c) /\ Len(c) \in Nat /\ \A i \in 1 .. Len(c) : c[i] \in Places
    BY <1>1
  <2>2. \A p \in Places : [place |-> p, roots |-> RegisteredDirs] \in Probes
    BY RegisteredPlaces DEF Probes
  <2> HIDE DEF Probes
  <2> QED
    BY <1>2, <2>1, <2>2
<1>5. DOMAIN probes = DOMAIN c /\ \A i \in DOMAIN c : Candidate(probes[i]) = <<c[i], RegisteredDirs>>
  BY <1>2 DEF Candidate
<1> QED
  BY <1>3, <1>4, <1>5 DEF ToSet, probes

LEMMA SnapshotProbes ==
  ASSUME LocatorTypeOK, IsFiniteSet(Registered), NEW r \in OpenRequests,
         NEW order \in SetToSeqs(Registered)
  PROVE  LET probes == ProbesFor(r, order)
         IN  /\ probes \in Seq(Probes)
             /\ {Candidate(probes[i]) : i \in DOMAIN probes} = Allowed(r)
BY RelativeProbes, AbsoluteProbes, RequestKinds

-----------------------------------------------------------------------------
(* Every thread stays in its call. *)

ThreadStep(t) ==
  \/ \E r \in Asked : Begin(t, r)
  \/ \E l \in Libraries, m \in Mapped : MapLibrary(t, l, m)
  \/ Advance(t) \/ Return(t)

LEMMA CallsInit == LocatorInit => CallsInv
<1> SUFFICES ASSUME LocatorInit PROVE CallsInv
  OBVIOUS
<1>1. /\ roots \in [RootNames -> Dirs \cup {None}]
      /\ libraries \in [Libraries -> Mappings \cup {None}]
      /\ fs \in [Places -> Plain \cup Links]
  BY LocatorAssumption DEF LocatorInit, Plain
<1>2. LocatorTypeOK
  BY <1>1 DEF LocatorInit, LocatorTypeOK, Labels
<1>3. \A t \in Threads : InItsCall(t)
  BY DEF LocatorInit, InItsCall
<1> QED
  BY <1>2, <1>3 DEF CallsInv

\* A step of one thread leaves the locals of the others alone.
LEMMA OtherThreads ==
  ASSUME LocatorTypeOK, NEW t \in Threads, ThreadStep(t), NEW u \in Threads, u # t
  PROVE  pc'[u] = pc[u] /\ request'[u] = request[u] /\ todo'[u] = todo[u] /\ found'[u] = found[u]
BY DEF ThreadStep, LocatorTypeOK, Begin, Return, MapLibrary, Advance, CanonicalRoot, StoreRoot,
       FindMapping, ResolveMapped, Snapshot, ProbeCandidate, ProbeNothingLeft, CheckCandidate,
       OpenCanonical, OpenRegular, Load, Goto, Throw, Found

\* A call that throws, and one that has found its path.
LEMMA AfterThrow ==
  ASSUME LocatorTypeOK, NEW t \in Threads, Throw(t), UNCHANGED <<shared, world, request, quiet>>,
         lock' \in Threads \cup {Nobody}, request[t] \in LoadRequests \cup OpenRequests
  PROVE  LocatorTypeOK' /\ InItsCall(t)'
<1>1. pc'[t] = "thrown" /\ request'[t] = request[t]
  BY DEF LocatorTypeOK, Throw, Goto
<1>2. InItsCall(t)'
  BY <1>1, RequestKinds DEF InItsCall
<1> QED
  BY <1>2 DEF LocatorTypeOK, Throw, Goto, Labels, shared, world

LEMMA AfterFound ==
  ASSUME LocatorTypeOK, NEW t \in Threads, NEW p \in Places, Found(t, p),
         UNCHANGED <<shared, world, request, quiet>>,
         lock' \in Threads \cup {Nobody}, request[t] \in LoadRequests \cup OpenRequests
  PROVE  LocatorTypeOK' /\ InItsCall(t)'
<1>1. pc'[t] = "open" /\ request'[t] = request[t] /\ found'[t] = p
  BY DEF LocatorTypeOK, Found, Goto
<1>2. InItsCall(t)'
  BY <1>1, RequestKinds DEF InItsCall
<1> QED
  BY <1>2 DEF LocatorTypeOK, Found, Goto, Labels, shared, world

\* What the step of a thread may leave behind.
LEMMA OwnStep ==
  ASSUME CallsInv, IsFiniteSet(Registered), NEW t \in Threads, ThreadStep(t)
  PROVE  LocatorTypeOK' /\ InItsCall(t)'
<1>1. LocatorTypeOK /\ InItsCall(t)
  BY DEF CallsInv
<1>2. ASSUME NEW r \in Asked, Begin(t, r) PROVE LocatorTypeOK' /\ InItsCall(t)'
  <2>1. r \in Requests
    BY LocatorAssumption
  <2>2. LocatorTypeOK'
    BY <1>1, <1>2, <2>1 DEF LocatorTypeOK, Begin, Goto, Labels, shared, world
  <2>3. InItsCall(t)'
    BY <1>1, <1>2, <2>1, RequestKinds DEF LocatorTypeOK, InItsCall, Begin, Goto
  <2> QED
    BY <2>2, <2>3
<1>3. ASSUME NEW l \in Libraries, NEW m \in Mapped, MapLibrary(t, l, m)
      PROVE  LocatorTypeOK' /\ InItsCall(t)'
  <2>1. m \in Mappings
    BY LocatorAssumption
  <2>2. LocatorTypeOK'
    BY <1>1, <1>3, <2>1 DEF LocatorTypeOK, MapLibrary, Disturb, world
  <2>3. InItsCall(t)'
    BY <1>1, <1>3 DEF InItsCall, MapLibrary
  <2> QED
    BY <2>2, <2>3
<1>4. CASE Return(t)
  BY <1>1, <1>4 DEF LocatorTypeOK, InItsCall, Return, Goto, Labels, shared, world
<1>5. CASE CanonicalRoot(t)
  <2>1. Target(request[t].dir) \in Dirs
    BY <1>1, <1>5, RequestKinds DEF InItsCall, CanonicalRoot, Target, LocatorTypeOK
  <2> QED
    BY <1>1, <1>5, <2>1 DEF LocatorTypeOK, InItsCall, CanonicalRoot, Goto, Labels, shared, world
<1>6. CASE StoreRoot(t)
  BY <1>1, <1>6 DEF LocatorTypeOK, InItsCall, StoreRoot, Goto, Disturb, Labels, world
<1>7. CASE FindMapping(t)
  <2> DEFINE l == request[t].library
             mapped == libraries[l] # None /\ roots[libraries[l].root] # None
  <2>1. request[t] \in LoadRequests /\ l \in Libraries
    BY <1>1, <1>7, RequestKinds DEF InItsCall, FindMapping
  <2>2. CASE mapped
    <3>1. MappedPlace(l) \in Places
      BY <1>1, <2>1, <2>2 DEF LocatorTypeOK, Mappings, MappedPlace, Places
    <3>2. /\ pc' = [pc EXCEPT ![t] = "locked"] /\ found' = [found EXCEPT ![t] = MappedPlace(l)]
          /\ lock' = t /\ UNCHANGED <<shared, world, request, todo, quiet>>
      BY <1>7, <2>2 DEF FindMapping, Goto
    <3>3. LocatorTypeOK'
      BY <1>1, <3>1, <3>2 DEF LocatorTypeOK, Labels, shared, world
    <3> QED
      BY <1>1, <2>1, <3>1, <3>2, <3>3, RequestKinds DEF LocatorTypeOK, InItsCall
  <2>3. CASE ~mapped
    <3>1. Throw(t) /\ UNCHANGED <<shared, lock, world, request, quiet>>
      BY <1>7, <2>3 DEF FindMapping
    <3> QED
      BY <1>1, <2>1, <3>1, AfterThrow DEF LocatorTypeOK
  <2> QED
    BY <2>2, <2>3
<1>8. CASE ResolveMapped(t)
  <2>1. found[t] \in Places /\ request[t] \in LoadRequests /\ pc[t] = "locked"
    BY <1>1, <1>8 DEF InItsCall, ResolveMapped
  <2>2. /\ Throw(t) \/ Found(t, Follow(found[t]))
        /\ lock' = Nobody /\ UNCHANGED <<shared, world, request, quiet>>
    BY <1>8 DEF ResolveMapped
  <2> QED
    BY <1>1, <2>1, <2>2, Following, AfterThrow, AfterFound
<1>9. CASE Snapshot(t)
  <2>1. request[t] \in OpenRequests
    BY <1>1, <1>9 DEF InItsCall, Snapshot
  <2>2. PICK probes \in Seq(Probes) : todo' = [todo EXCEPT ![t] = probes]
    BY <1>1, <1>9, <2>1, SnapshotProbes DEF Snapshot
  <2> QED
    BY <1>1, <1>9, <2>1, <2>2 DEF LocatorTypeOK, InItsCall, Snapshot, Goto, Labels, shared, world
<1>10. CASE ProbeCandidate(t)
  <2>1. todo[t] # <<>> /\ Tail(todo[t]) \in Seq(Probes)
    BY <1>1, <1>10 DEF LocatorTypeOK, ProbeCandidate
  <2> QED
    BY <1>1, <1>10, <2>1 DEF LocatorTypeOK, InItsCall, ProbeCandidate, Goto, Labels, shared, world
<1>11. CASE ProbeNothingLeft(t)
  <2>1. request[t] \in OpenRequests /\ lock \in Threads \cup {Nobody}
    BY <1>1, <1>11 DEF InItsCall, LocatorTypeOK, ProbeNothingLeft
  <2> QED
    BY <1>1, <1>11, <2>1, AfterThrow DEF ProbeNothingLeft
<1>12. CASE CheckCandidate(t)
  <2> DEFINE c == Head(todo[t])
  <2>1. todo[t] # <<>> /\ request[t] \in OpenRequests /\ todo[t] \in Seq(Probes)
    BY <1>1, <1>12 DEF InItsCall, CheckCandidate, LocatorTypeOK
  <2>2. c \in Probes /\ Tail(todo[t]) \in Seq(Probes)
    BY <2>1
  <2>3. c.place \in Places /\ lock \in Threads \cup {Nobody}
    BY <1>1, <2>2 DEF Probes, LocatorTypeOK
  <2>4. /\ \/ Found(t, Follow(c.place))
           \/ Throw(t)
           \/ todo' = [todo EXCEPT ![t] = Tail(todo[t])] /\ Goto(t, "probe") /\ UNCHANGED found
        /\ UNCHANGED <<shared, lock, world, request, quiet>>
    BY <1>12 DEF CheckCandidate
  <2>5. CASE todo' = [todo EXCEPT ![t] = Tail(todo[t])] /\ Goto(t, "probe") /\ UNCHANGED found
    <3>1. LocatorTypeOK'
      BY <1>1, <2>2, <2>4, <2>5 DEF LocatorTypeOK, Goto, Labels, shared, world
    <3> QED
      BY <1>1, <2>1, <2>4, <2>5, <3>1, RequestKinds DEF LocatorTypeOK, InItsCall, Goto
  <2> QED
    BY <1>1, <2>1, <2>3, <2>4, <2>5, Following, AfterThrow, AfterFound
<1>13. CASE OpenCanonical(t)
  <2>1. /\ found[t] \in Places /\ request[t] \in LoadRequests \cup OpenRequests
        /\ lock \in Threads \cup {Nobody}
    BY <1>1, <1>13 DEF InItsCall, OpenCanonical, LocatorTypeOK
  <2>2. Follow(found[t]) \in Places
    BY <1>1, <2>1, Following
  <2>3. CASE Exists(found[t])
    <3>1. LocatorTypeOK'
      BY <1>1, <1>13, <2>2, <2>3 DEF LocatorTypeOK, OpenCanonical, Goto, Labels, shared, world
    <3> QED
      BY <1>1, <1>13, <2>1, <2>2, <2>3, <3>1, RequestKinds
         DEF LocatorTypeOK, InItsCall, OpenCanonical, Goto
  <2> QED
    BY <1>1, <1>13, <2>1, <2>3, AfterThrow DEF OpenCanonical
<1>14. CASE OpenRegular(t)
  <2>1. request[t] \in LoadRequests \cup OpenRequests /\ lock \in Threads \cup {Nobody}
    BY <1>1, <1>14 DEF InItsCall, OpenRegular, LocatorTypeOK
  <2>2. CASE IsRegular(found[t])
    BY <1>1, <1>14, <2>2 DEF LocatorTypeOK, InItsCall, OpenRegular, Goto, Labels, shared, world
  <2> QED
    BY <1>1, <1>14, <2>1, <2>2, AfterThrow DEF OpenRegular
<1>15. CASE Load(t)
  <2>1. /\ found[t] \in Places /\ request[t] \in LoadRequests \cup OpenRequests
        /\ lock \in Threads \cup {Nobody}
    BY <1>1, <1>15 DEF InItsCall, Load, LocatorTypeOK
  <2>2. Follow(found[t]) \in Places
    BY <1>1, <2>1, Following
  <2>3. CASE IsRegular(found[t])
    <3>1. LocatorTypeOK'
      BY <1>1, <1>15, <2>2, <2>3 DEF LocatorTypeOK, Load, Goto, Labels, shared, world
    <3> QED
      BY <1>1, <1>15, <2>1, <2>2, <2>3, <3>1, RequestKinds
         DEF LocatorTypeOK, InItsCall, Load, Goto
  <2> QED
    BY <1>1, <1>15, <2>1, <2>3, AfterThrow DEF Load
<1> QED
  BY <1>2, <1>3, <1>4, <1>5, <1>6, <1>7, <1>8, <1>9, <1>10, <1>11, <1>12, <1>13, <1>14, <1>15
     DEF ThreadStep, Advance

LEMMA CallsStep ==
  CallsInv /\ IsFiniteSet(Registered) /\ [LocatorNext]_locatorVars => CallsInv'
<1> SUFFICES ASSUME CallsInv, IsFiniteSet(Registered), [LocatorNext]_locatorVars PROVE CallsInv'
  OBVIOUS
<1>1. ASSUME NEW u \in Threads, pc'[u] = pc[u], request'[u] = request[u], todo'[u] = todo[u],
             found'[u] = found[u]
      PROVE  InItsCall(u)'
  BY <1>1 DEF CallsInv, InItsCall
<1>2. ASSUME NEW t \in Threads, ThreadStep(t) PROVE CallsInv'
  BY <1>1, <1>2, OwnStep, OtherThreads DEF CallsInv
<1>3. CASE Change
  <2>1. /\ quiet' \in [Threads -> BOOLEAN]
        /\ fs' \in [Places -> Plain \cup Links] /\ deployed' \in Dirs
    <3>1. CASE UNCHANGED deployed /\ \E p \in Changing : \E e \in (Plain \cup Links) \ {fs[p]} :
                                       fs' = [fs EXCEPT ![p] = e]
      BY <1>3, <3>1, LocatorAssumption DEF CallsInv, LocatorTypeOK, Change
    <3>2. CASE UNCHANGED fs /\ \E d \in Dirs \ {deployed} : deployed' = d
      BY <1>3, <3>2 DEF CallsInv, LocatorTypeOK, Change
    <3> QED
      BY <1>3, <3>1, <3>2 DEF Change
  <2>2. LocatorTypeOK'
    BY <1>3, <2>1 DEF CallsInv, LocatorTypeOK, Change, shared
  <2> QED
    BY <1>1, <1>3, <2>2 DEF CallsInv, Change
<1>4. CASE UNCHANGED locatorVars
  BY <1>1, <1>4 DEF CallsInv, LocatorTypeOK, locatorVars, shared, world, locals
<1> QED
  BY <1>2, <1>3, <1>4 DEF LocatorNext, ThreadStep

\* What add_root() and map_library() do to the maps.
LEMMA MapsStep ==
  CallsInv /\ RootsInv /\ [LocatorNext]_locatorVars => RootsInv'
<1> SUFFICES ASSUME CallsInv, RootsInv, [LocatorNext]_locatorVars PROVE RootsInv'
  OBVIOUS
<1>1. LocatorTypeOK /\ MappedRootExists /\ ResolveIsAtomic /\ IsFiniteSet(Registered)
  BY DEF CallsInv, RootsInv
<1>2. ASSUME UNCHANGED shared PROVE IsFiniteSet(Registered)' /\ MappedRootExists'
  BY <1>1, <1>2 DEF shared, Registered, MappedRootExists
<1>3. ASSUME lock = Nobody PROVE \A t \in Threads : pc[t] # "locked"
  BY <1>1, <1>3, LocatorAssumption DEF ResolveIsAtomic
<1>4. ASSUME NEW t \in Threads, StoreRoot(t) PROVE RootsInv'
  <2> DEFINE n == request[t].root
  <2>1. n \in RootNames /\ found[t] \in Dirs /\ found[t] # None
    BY <1>4, RequestKinds, LocatorAssumption DEF CallsInv, InItsCall, StoreRoot
  <2>2. \A m \in RootNames : roots'[m] = IF m = n THEN found[t] ELSE roots[m]
    BY <1>1, <1>4, <2>1 DEF StoreRoot, LocatorTypeOK
  <2>3. Registered' = Registered \cup {n}
    BY <2>1, <2>2 DEF Registered
  <2>4. IsFiniteSet(Registered)'
    BY <1>1, <2>3, FS_AddElement
  <2>5. MappedRootExists'
    BY <1>1, <1>4, <2>1, <2>2 DEF MappedRootExists, StoreRoot, LocatorTypeOK, Mappings
  <2>6. \A u \in Threads : pc'[u] # "locked"
    BY <1>1, <1>3, <1>4 DEF StoreRoot, Goto, LocatorTypeOK
  <2> QED
    BY <2>4, <2>5, <2>6 DEF RootsInv, ResolveIsAtomic
<1>5. ASSUME NEW t \in Threads, NEW l \in Libraries, NEW m \in Mapped, MapLibrary(t, l, m)
      PROVE  RootsInv'
  <2>1. IsFiniteSet(Registered)' /\ MappedRootExists'
    BY <1>1, <1>5 DEF MapLibrary, Registered, MappedRootExists, LocatorTypeOK
  <2>2. \A u \in Threads : pc'[u] # "locked"
    BY <1>3, <1>5 DEF MapLibrary
  <2> QED
    BY <2>1, <2>2 DEF RootsInv, ResolveIsAtomic
<1>6. ASSUME NEW t \in Threads, ThreadStep(t), UNCHANGED shared,
             pc'[t] = "locked" => lock' = t /\ found'[t] = MappedPlace(request'[t].library),
             lock' = lock \/ lock = Nobody \/ pc[t] = "locked"
      PROVE  RootsInv'
  <2>1. \A l : MappedPlace(l)' = MappedPlace(l)
    BY <1>6 DEF MappedPlace, shared
  <2>2. ASSUME NEW u \in Threads, u # t, pc'[u] = "locked"
        PROVE  lock' = u /\ found'[u] = MappedPlace(request[u].library) /\ request'[u] = request[u]
    BY <1>1, <1>3, <1>6, <2>2, OtherThreads DEF ResolveIsAtomic
  <2>3. ResolveIsAtomic'
    BY <1>6, <2>1, <2>2 DEF ResolveIsAtomic, MappedPlace, shared
  <2> QED
    BY <1>2, <1>6, <2>3 DEF RootsInv
<1>7. ASSUME NEW t \in Threads, FindMapping(t) PROVE RootsInv'
  <2>1. ThreadStep(t) /\ UNCHANGED shared /\ lock = Nobody
    BY <1>7 DEF ThreadStep, Advance, FindMapping
  <2>2. pc'[t] = "locked" => lock' = t /\ found'[t] = MappedPlace(request'[t].library)
    BY <1>1, <1>7 DEF FindMapping, Goto, Throw, MappedPlace, shared, LocatorTypeOK
  <2> QED
    BY <1>6, <2>1, <2>2
<1>8. ASSUME NEW t \in Threads, ThreadStep(t), ~FindMapping(t), UNCHANGED shared PROVE RootsInv'
  <2>1. pc'[t] # "locked" /\ (lock' = lock \/ pc[t] = "locked")
    BY <1>1, <1>8 DEF ThreadStep, LocatorTypeOK, Begin, Return, MapLibrary, Advance, CanonicalRoot,
       StoreRoot, ResolveMapped, Snapshot, ProbeCandidate, ProbeNothingLeft, CheckCandidate,
       OpenCanonical, OpenRegular, Load, Goto, Throw, Found
  <2> QED
    BY <1>6, <1>8, <2>1
<1>9. CASE Change \/ UNCHANGED locatorVars
  <2>1. UNCHANGED <<shared, lock, pc, request, found>>
    BY <1>9 DEF Change, locatorVars, locals
  <2> QED
    BY <1>1, <1>2, <2>1 DEF RootsInv, ResolveIsAtomic, MappedPlace, shared
<1>10. ASSUME NEW t \in Threads, ThreadStep(t)
       PROVE  \/ UNCHANGED shared \/ StoreRoot(t)
              \/ \E l \in Libraries, m \in Mapped : MapLibrary(t, l, m)
  BY <1>10 DEF ThreadStep, Advance, Begin, Return, CanonicalRoot, FindMapping, ResolveMapped,
               Snapshot, ProbeCandidate, ProbeNothingLeft, CheckCandidate, OpenCanonical,
               OpenRegular, Load
<1> QED
  BY <1>4, <1>5, <1>7, <1>8, <1>9, <1>10 DEF LocatorNext, ThreadStep

-----------------------------------------------------------------------------
(* What the locator promises of its maps. *)

LEMMA MapsInit == LocatorInit => RootsInv
<1> SUFFICES ASSUME LocatorInit PROVE RootsInv
  OBVIOUS
<1>1. Registered = {}
  BY DEF LocatorInit, Registered
<1> QED
  BY <1>1, FS_EmptySet DEF RootsInv, MappedRootExists, ResolveIsAtomic, LocatorInit

LEMMA CallsAndMaps == LocatorSpec => [](CallsInv /\ RootsInv)
<1>1. LocatorInit => CallsInv /\ RootsInv
  BY CallsInit, MapsInit
<1>2. CallsInv /\ RootsInv /\ [LocatorNext]_locatorVars => (CallsInv /\ RootsInv)'
  BY CallsStep, MapsStep DEF RootsInv
<1> QED
  BY <1>1, <1>2, PTL DEF LocatorSpec

\* Each thread works with what its place in the call calls for: a root's directory
\* is a directory, a path to open is a place, probes stay under registered roots.
THEOREM LocatorIsTyped == LocatorSpec => []LocatorTypeOK
<1>1. CallsInv => LocatorTypeOK
  BY DEF CallsInv
<1> QED
  BY <1>1, CallsAndMaps, PTL

\* Whatever add_root() and map_library() do in whatever order and from whatever
\* threads, the root of a mapping is registered.
THEOREM MappedRootsExist == LocatorSpec => []MappedRootExists
<1>1. RootsInv => MappedRootExists
  BY DEF RootsInv
<1> QED
  BY <1>1, CallsAndMaps, PTL

\* resolve() holds the mutex over a candidate that is the mapping's own, however
\* many threads register roots and libraries beside it.
THEOREM ResolveAnswersAtOnce == LocatorSpec => []ResolveIsAtomic
<1>1. RootsInv => ResolveIsAtomic
  BY DEF RootsInv
<1> QED
  BY <1>1, CallsAndMaps, PTL

-----------------------------------------------------------------------------
(* The undisturbed call: nothing others do reaches it. *)

World == <<roots, libraries, fs, deployed>>

\* The answers a request may have depend on maps and files alone.
LEMMA SameWorld ==
  ASSUME UNCHANGED World
  PROVE  /\ \A p : Follow(p)' = Follow(p) /\ Exists(p)' = Exists(p) /\ IsRegular(p)' = IsRegular(p)
         /\ \A r : Allowed(r)' = Allowed(r) /\ Good(r)' = Good(r)
         /\ \A d : Target(d)' = Target(d)
<1>1. \A p : Follow(p)' = Follow(p)
  BY DEF World, Follow
<1>2. \A p : Exists(p)' = Exists(p) /\ IsRegular(p)' = IsRegular(p)
  BY <1>1 DEF World, Exists, IsRegular
<1>3. RegisteredDirs' = RegisteredDirs /\ \A l : MappedPlace(l)' = MappedPlace(l)
  BY DEF World, RegisteredDirs, Registered, MappedPlace
<1>4. \A r : Allowed(r)' = Allowed(r)
  BY <1>3 DEF Allowed, World
<1>5. \A p, ds : InRoot(p, ds)' <=> InRoot(p, ds)
  BY <1>1, <1>2 DEF InRoot
<1>6. \A r : Good(r)' = Good(r)
  BY <1>4, <1>5 DEF Good
<1>7. \A d : Target(d)' = Target(d)
  BY DEF Target, World
<1> QED
  BY <1>1, <1>2, <1>4, <1>6, <1>7

\* A call on course stays on it while another thread steps.
LEMMA Undisturbed ==
  ASSUME UNCHANGED World, NEW u \in Threads, NEW r \in Requests, OnCourse(u, r),
         pc'[u] = pc[u], todo'[u] = todo[u], found'[u] = found[u]
  PROVE  OnCourse(u, r)'
<1>1. Unprobed(u)' = Unprobed(u)
  BY DEF Unprobed
<1>2. SequentialAnswer(u, r) => SequentialAnswer(u, r)'
  BY SameWorld DEF SequentialAnswer, World
<1>3. Head(todo[u])' = Head(todo[u])
  OBVIOUS
<1> QED
  BY <1>1, <1>2, <1>3, SameWorld DEF OnCourse, World

\* What disturbs a call says so.
LEMMA QuietStep ==
  ASSUME CallsInv, NEW t \in Threads, ThreadStep(t), NEW u \in Threads, quiet'[u], pc'[u] # "idle"
  PROVE  /\ u # t => UNCHANGED World
         /\ pc[u] # "idle" => quiet[u]
         /\ StoreRoot(t) \/ UNCHANGED World
<1>1. LocatorTypeOK
  BY DEF CallsInv
<1>2. ASSUME NEW l \in Libraries, NEW m \in Mapped, MapLibrary(t, l, m) PROVE FALSE
  BY <1>1, <1>2 DEF MapLibrary, Disturb, LocatorTypeOK
<1>3. CASE StoreRoot(t)
  <2>1. quiet[u] /\ (u = t \/ pc[u] = "idle")
    BY <1>3 DEF StoreRoot, Disturb
  <2>2. u = t
    BY <1>1, <2>1, OtherThreads
  <2> QED
    BY <1>3, <2>1, <2>2
<1>4. CASE Return(t)
  BY <1>1, <1>4 DEF Return, Goto, LocatorTypeOK, World, shared, world
<1>5. CASE ~StoreRoot(t) /\ ~Return(t)
  BY <1>1, <1>2, <1>5
     DEF ThreadStep, Begin, Advance, CanonicalRoot, FindMapping, ResolveMapped, Snapshot,
         ProbeCandidate, ProbeNothingLeft, CheckCandidate, OpenCanonical, OpenRegular, Load,
         World, shared, world
<1> QED
  BY <1>3, <1>4, <1>5

\* What it leads to: a place is as good as the path that leads there.
LEMMA GoodPlaces ==
  ASSUME LocatorTypeOK, MappedRootExists, NEW r \in LoadRequests \cup OpenRequests, NEW a \in Good(r)
  PROVE  /\ a[1] \in Places /\ Exists(a[1]) /\ a \in Allowed(r)
         /\ Follow(Follow(a[1])) = Follow(a[1]) /\ Exists(Follow(a[1]))
         /\ IsRegular(Follow(a[1])) <=> IsRegular(a[1])
<1>1. a \in Allowed(r) /\ InRoot(a[1], a[2])
  BY DEF Good
<1>2. a[1] \in Places
  <2>1. CASE r \in LoadRequests
    <3>1. r.op = "load" /\ r.library \in Libraries
      BY <2>1, RequestKinds
    <3>2. libraries[r.library] # None /\ a[1] = MappedPlace(r.library)
      BY <1>1, <3>1 DEF Allowed
    <3> QED
      BY <3>1, <3>2 DEF MappedRootExists, MappedPlace, LocatorTypeOK, Mappings, Places
  <2>2. CASE r \in OpenRequests /\ r.op = "open_path"
    <3>1. r.file \in Files
      BY <2>2, RequestKinds
    <3>2. PICK d \in RegisteredDirs : a[1] \in ToSet(DecoratedNames(<<d, r.file>>))
      BY <1>1, <2>2 DEF Allowed
    <3>3. <<d, r.file>> \in Places
      BY <3>1, <3>2, RegisteredPlaces DEF Places
    <3> QED
      BY <3>2, <3>3, DecoratedPlaces
  <2>3. CASE r \in OpenRequests /\ r.op = "open_absolute"
    <3>1. r.place \in Places /\ a[1] \in ToSet(DecoratedNames(r.place))
      BY <1>1, <2>3, RequestKinds DEF Allowed
    <3> QED
      BY <3>1, DecoratedPlaces
  <2> QED
    BY <2>1, <2>2, <2>3, RequestKinds
<1> QED
  BY <1>1, <1>2, Following DEF InRoot

\* Why an undisturbed call may throw.
Reason(r) ==
  \/ Good(r) = {}
  \/ \E a \in Good(r) : ~IsRegular(a[1])
  \/ r.op = "open_absolute" /\ \E a \in Allowed(r) : Exists(a[1]) /\ a \notin Good(r)

LEMMA ThrownOnCourse ==
  ASSUME LocatorTypeOK, UNCHANGED World, NEW t \in Threads, Throw(t),
         NEW r \in LoadRequests \cup OpenRequests, Reason(r)
  PROVE  OnCourse(t, r)'
<1>1. pc'[t] = "thrown"
  BY DEF Throw, Goto, LocatorTypeOK
<1>2. Reason(r)'
  BY SameWorld DEF Reason
<1>3. SequentialAnswer(t, r)'
  BY <1>1, <1>2, RequestKinds DEF SequentialAnswer, Reason
<1> QED
  BY <1>1, <1>3 DEF OnCourse

LEMMA FoundOnCourse ==
  ASSUME LocatorTypeOK, UNCHANGED World, NEW t \in Threads, NEW r, NEW a \in Good(r),
         Found(t, Follow(a[1]))
  PROVE  OnCourse(t, r)'
<1>1. pc'[t] = "open" /\ found'[t] = Follow(a[1])
  BY DEF Found, Goto, LocatorTypeOK
<1> QED
  BY <1>1, SameWorld DEF OnCourse

\* Probing one candidate leaves the others.
LEMMA HeadAndTail ==
  ASSUME NEW s \in Seq(Probes), s # <<>>
  PROVE  {Candidate(s[i]) : i \in DOMAIN s} =
           {Candidate(Head(s))} \cup {Candidate(Tail(s)[i]) : i \in DOMAIN Tail(s)}
<1>1. /\ Len(s) \in Nat /\ Len(s) >= 1 /\ DOMAIN s = 1 .. Len(s) /\ Head(s) = s[1]
      /\ DOMAIN Tail(s) = 1 .. Len(s) - 1 /\ \A i \in 1 .. Len(s) - 1 : Tail(s)[i] = s[i + 1]
  OBVIOUS
<1>2. ASSUME NEW i \in 1 .. Len(s), i # 1 PROVE \E j \in 1 .. Len(s) - 1 : Tail(s)[j] = s[i]
  <2>1. i - 1 \in 1 .. Len(s) - 1 /\ (i - 1) + 1 = i
    BY <1>1, <1>2
  <2> QED
    BY <1>1, <2>1
<1>3. ASSUME NEW j \in 1 .. Len(s) - 1 PROVE \E i \in 1 .. Len(s) : Tail(s)[j] = s[i]
  BY <1>1
<1>4. 1 \in 1 .. Len(s)
  BY <1>1
<1> QED
  BY <1>1, <1>2, <1>3, <1>4

LEMMA ProbeTail ==
  ASSUME CallsInv, UNCHANGED World, NEW t \in Threads, NEW r, pc[t] \in {"probe", "check"},
         OnCourse(t, r), todo[t] # <<>>, pc'[t] = "probe",
         todo'[t] = Tail(todo[t]),
         ~InRoot(Head(todo[t]).place, Head(todo[t]).roots)
  PROVE  OnCourse(t, r)'
<1> DEFINE c == Head(todo[t])
           rest == {Candidate(Tail(todo[t])[i]) : i \in DOMAIN Tail(todo[t])}
<1>1. todo[t] \in Seq(Probes)
  BY DEF CallsInv, LocatorTypeOK
<1>2. Unprobed(t) = {Candidate(c)} \cup rest /\ Unprobed(t)' = rest
  BY <1>1, HeadAndTail DEF Unprobed
<1>3. Good(r) \subseteq Unprobed(t) /\ Unprobed(t) \subseteq Allowed(r)
  BY DEF OnCourse
<1>4. Candidate(c) \notin Good(r)
  BY DEF Candidate, Good
<1> HIDE DEF c, rest
<1>5. Good(r)' \subseteq Unprobed(t)' /\ Unprobed(t)' \subseteq Allowed(r)'
  BY <1>2, <1>3, <1>4, SameWorld
<1> QED
  BY <1>5 DEF OnCourse

\* The steps of an undisturbed call keep it on course.
LEMMA CourseKept ==
  ASSUME CallsInv, RootsInv, NEW t \in Threads, ThreadStep(t), quiet'[t], NEW r \in Requests,
         pc[t] # "idle", pc'[t] # "idle", request[t] = r, OnCourse(t, r)
  PROVE  OnCourse(t, r)'
<1>1. /\ LocatorTypeOK /\ MappedRootExists /\ ResolveIsAtomic /\ IsFiniteSet(Registered)
      /\ InItsCall(t)
  BY DEF CallsInv, RootsInv
<1>2. CASE StoreRoot(t)
  <2>1. /\ pc[t] = "store" /\ pc'[t] = "returned" /\ roots'[r.root] = found[t]
        /\ UNCHANGED deployed /\ r.op = "add_root"
    BY <1>1, <1>2, RequestKinds DEF StoreRoot, InItsCall, Goto, LocatorTypeOK, world
  <2>2. SequentialAnswer(t, r)'
    BY <2>1 DEF SequentialAnswer, OnCourse, Target
  <2> QED
    BY <2>1, <2>2 DEF OnCourse
<1>3. ASSUME ~StoreRoot(t) PROVE UNCHANGED World
  BY <1>3, QuietStep
<1>4. ASSUME ~StoreRoot(t), Throw(t), r \in LoadRequests \cup OpenRequests, Reason(r)
      PROVE  OnCourse(t, r)'
  BY <1>1, <1>3, <1>4, ThrownOnCourse
<1>5. CASE CanonicalRoot(t)
  <2>1. /\ ~StoreRoot(t) /\ pc'[t] = "store" /\ found'[t] = Target(r.dir)
    BY <1>1, <1>5 DEF CanonicalRoot, StoreRoot, Goto, LocatorTypeOK
  <2> QED
    BY <1>3, <2>1, SameWorld DEF OnCourse
<1>6. CASE FindMapping(t)
  <2>1. ~StoreRoot(t) /\ r \in LoadRequests /\ r.op = "load" /\ r.library \in Libraries
    BY <1>1, <1>6, RequestKinds DEF FindMapping, StoreRoot, InItsCall
  <2>2. CASE libraries[r.library] = None
    <3>1. Throw(t)
      BY <1>6, <2>2 DEF FindMapping
    <3>2. Reason(r)
      BY <2>1, <2>2 DEF Reason, Good, Allowed
    <3> QED
      BY <1>4, <2>1, <3>1, <3>2
  <2>3. CASE libraries[r.library] # None
    <3>1. pc'[t] = "locked" /\ UNCHANGED libraries
      BY <1>1, <1>6, <2>1, <2>3 DEF FindMapping, MappedRootExists, Goto, LocatorTypeOK, shared
    <3> QED
      BY <2>3, <3>1 DEF OnCourse
  <2> QED
    BY <2>2, <2>3
<1>7. CASE ResolveMapped(t)
  <2> DEFINE a == <<MappedPlace(r.library), {roots[libraries[r.library].root]}>>
             inside == Exists(found[t]) /\ DirOf(Follow(found[t])) = DirOf(found[t])
  <2>1. /\ ~StoreRoot(t) /\ r \in LoadRequests /\ r.op = "load"
        /\ libraries[r.library] # None /\ found[t] = MappedPlace(r.library)
    BY <1>1, <1>7, RequestKinds DEF ResolveMapped, StoreRoot, InItsCall, OnCourse, ResolveIsAtomic
  <2>2. Allowed(r) = {a}
    BY <2>1 DEF Allowed
  <2>3. a[1] = found[t] /\ a[2] = {DirOf(found[t])}
    BY <2>1 DEF MappedPlace, DirOf
  <2> HIDE DEF a
  <2>4. CASE inside
    <3>1. a \in Good(r)
      BY <2>2, <2>3, <2>4 DEF Good, InRoot
    <3>2. Found(t, Follow(a[1]))
      BY <1>7, <2>3, <2>4 DEF ResolveMapped
    <3> QED
      BY <1>1, <1>3, <2>1, <3>1, <3>2, FoundOnCourse
  <2>5. CASE ~inside
    <3>1. Good(r) = {}
      BY <2>2, <2>3, <2>5 DEF Good, InRoot
    <3>2. Throw(t)
      BY <1>7, <2>5 DEF ResolveMapped
    <3> QED
      BY <1>4, <2>1, <3>1, <3>2 DEF Reason
  <2> QED
    BY <2>4, <2>5
<1>8. CASE Snapshot(t)
  <2>1. ~StoreRoot(t) /\ r \in OpenRequests /\ pc'[t] = "probe"
    BY <1>1, <1>8 DEF Snapshot, StoreRoot, InItsCall, Goto, LocatorTypeOK
  <2>2. PICK order \in SetToSeqs(Registered) : todo'[t] = ProbesFor(r, order)
    BY <1>1, <1>8 DEF Snapshot, LocatorTypeOK
  <2>3. Unprobed(t)' = Allowed(r)
    BY <1>1, <2>1, <2>2, SnapshotProbes DEF Unprobed
  <2>4. Good(r)' \subseteq Unprobed(t)' /\ Unprobed(t)' \subseteq Allowed(r)'
    BY <1>3, <2>1, <2>3, SameWorld DEF Good
  <2> QED
    BY <2>1, <2>4 DEF OnCourse
<1>9. CASE ProbeCandidate(t)
  <2>1. ~StoreRoot(t) /\ pc[t] = "probe" /\ todo[t] # <<>>
    BY <1>9 DEF ProbeCandidate, StoreRoot
  <2>2. CASE Exists(Head(todo[t]).place)
    <3>1. pc'[t] = "check" /\ UNCHANGED todo
      BY <1>1, <1>9, <2>2 DEF ProbeCandidate, Goto, LocatorTypeOK
    <3>2. Unprobed(t)' = Unprobed(t) /\ Exists(Head(todo[t]).place)'
      BY <1>3, <2>1, <2>2, <3>1, SameWorld DEF Unprobed
    <3>3. Good(r)' \subseteq Unprobed(t)' /\ Unprobed(t)' \subseteq Allowed(r)'
      BY <1>3, <2>1, <3>2, SameWorld DEF OnCourse
    <3> QED
      BY <3>1, <3>2, <3>3 DEF OnCourse
  <2>3. CASE ~Exists(Head(todo[t]).place)
    <3>1. pc'[t] = "probe" /\ todo'[t] = Tail(todo[t])
      BY <1>1, <1>9, <2>1, <2>3 DEF ProbeCandidate, LocatorTypeOK
    <3>2. ~InRoot(Head(todo[t]).place, Head(todo[t]).roots)
      BY <2>3 DEF InRoot
    <3> QED
      BY <1>3, <2>1, <3>1, <3>2, ProbeTail
  <2> QED
    BY <2>2, <2>3
<1>10. CASE ProbeNothingLeft(t)
  <2>1. ~StoreRoot(t) /\ r \in OpenRequests /\ Throw(t) /\ pc[t] = "probe" /\ todo[t] = <<>>
    BY <1>1, <1>10 DEF ProbeNothingLeft, StoreRoot, InItsCall
  <2>2. Unprobed(t) = {}
    BY <2>1 DEF Unprobed
  <2>3. Reason(r)
    BY <2>1, <2>2 DEF OnCourse, Reason
  <2> QED
    BY <1>4, <2>1, <2>3
<1>11. CASE CheckCandidate(t)
  <2> DEFINE c == Head(todo[t])
             a == Candidate(c)
  <2>1. /\ ~StoreRoot(t) /\ r \in OpenRequests /\ pc[t] = "check"
        /\ todo[t] # <<>> /\ todo[t] \in Seq(Probes) /\ Exists(c.place)
    BY <1>1, <1>11 DEF CheckCandidate, StoreRoot, InItsCall, LocatorTypeOK, OnCourse
  <2>2. a \in Allowed(r)
    BY <2>1, HeadAndTail DEF OnCourse, Unprobed
  <2>3. a[1] = c.place /\ a[2] = c.roots
    BY DEF Candidate
  <2>4. a \in Good(r) <=> DirOf(Follow(c.place)) \in c.roots
    BY <2>1, <2>2, <2>3 DEF Good, InRoot
  <2> HIDE DEF a
  <2>5. CASE DirOf(Follow(c.place)) \in c.roots
    <3>1. Found(t, Follow(a[1]))
      BY <1>11, <2>1, <2>3, <2>5 DEF CheckCandidate
    <3> QED
      BY <1>1, <1>3, <2>1, <2>4, <2>5, <3>1, FoundOnCourse
  <2>6. CASE DirOf(Follow(c.place)) \notin c.roots /\ r.op = "open_path"
    <3>1. pc'[t] = "probe" /\ todo'[t] = Tail(todo[t])
      BY <1>1, <1>11, <2>1, <2>6 DEF CheckCandidate, Goto, LocatorTypeOK
    <3>2. ~InRoot(c.place, c.roots)
      BY <2>6 DEF InRoot
    <3> QED
      BY <1>3, <2>1, <3>1, <3>2, ProbeTail
  <2>7. CASE DirOf(Follow(c.place)) \notin c.roots /\ r.op # "open_path"
    <3>1. r.op = "open_absolute" /\ Throw(t)
      BY <1>11, <2>1, <2>7, RequestKinds DEF CheckCandidate
    <3>2. Reason(r)
      BY <2>1, <2>2, <2>3, <2>4, <2>7, <3>1 DEF Reason
    <3> QED
      BY <1>4, <2>1, <3>1, <3>2
  <2> QED
    BY <2>5, <2>6, <2>7
<1>12. ASSUME OpenCanonical(t) \/ OpenRegular(t) \/ Load(t)
       PROVE  /\ ~StoreRoot(t) /\ r \in LoadRequests \cup OpenRequests /\ r.op # "add_root"
              /\ \E a \in Good(r) : found[t] = Follow(a[1]) /\ (Load(t) => IsRegular(a[1]))
  BY <1>1, <1>12, RequestKinds DEF OpenCanonical, OpenRegular, Load, StoreRoot, InItsCall, OnCourse
<1>13. CASE OpenCanonical(t)
  <2>1. PICK a \in Good(r) : found[t] = Follow(a[1])
    BY <1>12, <1>13
  <2>2. Exists(found[t]) /\ Follow(found[t]) = Follow(a[1])
    BY <1>1, <1>12, <1>13, <2>1, GoodPlaces
  <2>3. pc'[t] = "regular" /\ found'[t] = Follow(a[1])
    BY <1>1, <1>13, <2>2 DEF OpenCanonical, Goto, LocatorTypeOK
  <2> QED
    BY <1>3, <1>12, <1>13, <2>3, SameWorld DEF OnCourse
<1>14. CASE OpenRegular(t)
  <2>1. PICK a \in Good(r) : found[t] = Follow(a[1])
    BY <1>12, <1>14
  <2>2. IsRegular(found[t]) <=> IsRegular(a[1])
    BY <1>1, <1>12, <1>14, <2>1, GoodPlaces
  <2>3. CASE IsRegular(a[1])
    <3>1. pc'[t] = "dlopen" /\ UNCHANGED found
      BY <1>1, <1>14, <2>2, <2>3 DEF OpenRegular, Goto, LocatorTypeOK
    <3> QED
      BY <1>3, <1>12, <1>14, <2>1, <2>3, <3>1, SameWorld DEF OnCourse
  <2>4. CASE ~IsRegular(a[1])
    <3>1. Throw(t)
      BY <1>14, <2>2, <2>4 DEF OpenRegular
    <3> QED
      BY <1>4, <1>12, <1>14, <2>4, <3>1 DEF Reason
  <2> QED
    BY <2>3, <2>4
<1>15. CASE Load(t)
  <2>1. PICK a \in Good(r) : found[t] = Follow(a[1]) /\ IsRegular(a[1])
    BY <1>12, <1>15
  <2>2. IsRegular(found[t]) /\ Follow(found[t]) = Follow(a[1])
    BY <1>1, <1>12, <1>15, <2>1, GoodPlaces
  <2>3. pc'[t] = "returned" /\ found'[t] = Follow(a[1])
    BY <1>1, <1>15, <2>2 DEF Load, Goto, LocatorTypeOK
  <2>4. SequentialAnswer(t, r)'
    BY <1>3, <1>12, <1>15, <2>1, <2>3, SameWorld DEF SequentialAnswer
  <2> QED
    BY <2>3, <2>4 DEF OnCourse
<1>16. Advance(t)
  BY <1>1 DEF ThreadStep, Begin, MapLibrary, Return, Goto, LocatorTypeOK
<1> QED
  BY <1>2, <1>5, <1>6, <1>7, <1>8, <1>9, <1>10, <1>11, <1>13, <1>14, <1>15, <1>16 DEF Advance

LEMMA CourseBegun ==
  ASSUME LocatorTypeOK, NEW t \in Threads, ThreadStep(t), pc[t] = "idle", pc'[t] # "idle", NEW r
  PROVE  OnCourse(t, r)'
<1>1. pc'[t] \in {"canonical", "resolve", "snapshot"}
  BY DEF ThreadStep, Begin, MapLibrary, Return, Goto, LocatorTypeOK, Advance, CanonicalRoot,
         StoreRoot, FindMapping, ResolveMapped, Snapshot, ProbeCandidate, ProbeNothingLeft,
         CheckCandidate, OpenCanonical, OpenRegular, Load
<1> QED
  BY <1>1 DEF OnCourse

LEMMA QuietInvStep ==
  CallsInv /\ RootsInv /\ QuietInv /\ [LocatorNext]_locatorVars => QuietInv'
<1> SUFFICES ASSUME CallsInv, RootsInv, QuietInv, [LocatorNext]_locatorVars,
                    NEW u \in Threads, NEW r \in Requests,
                    quiet'[u], pc'[u] # "idle", request'[u] = r
             PROVE  OnCourse(u, r)'
  BY DEF QuietInv
<1>1. LocatorTypeOK
  BY DEF CallsInv
<1>2. ASSUME NEW t \in Threads, ThreadStep(t), t # u PROVE OnCourse(u, r)'
  <2>1. /\ pc'[u] = pc[u] /\ request'[u] = request[u] /\ todo'[u] = todo[u] /\ found'[u] = found[u]
        /\ UNCHANGED World
    BY <1>1, <1>2, OtherThreads, QuietStep
  <2>2. OnCourse(u, r)
    BY <1>2, <2>1, QuietStep DEF QuietInv
  <2> QED
    BY <2>1, <2>2, Undisturbed
<1>3. ASSUME ThreadStep(u) PROVE OnCourse(u, r)'
  <2>1. CASE pc[u] = "idle"
    BY <1>1, <1>3, <2>1, CourseBegun
  <2>2. CASE pc[u] # "idle"
    <3>1. request[u] = r
      <4>1. ~Return(u)
        BY <1>1 DEF Return, Goto, LocatorTypeOK
      <4> QED
        BY <1>3, <2>2, <4>1
           DEF ThreadStep, Begin, MapLibrary, Advance, CanonicalRoot, StoreRoot, FindMapping,
               ResolveMapped, Snapshot, ProbeCandidate, ProbeNothingLeft, CheckCandidate,
               OpenCanonical, OpenRegular, Load
    <3>2. OnCourse(u, r)
      BY <1>3, <2>2, <3>1, QuietStep DEF QuietInv
    <3> QED
      BY <1>3, <2>2, <3>1, <3>2, CourseKept
  <2> QED
    BY <2>1, <2>2
<1>4. CASE Change
  BY <1>4 DEF Change
<1>5. CASE UNCHANGED locatorVars
  <2>1. UNCHANGED World /\ UNCHANGED <<quiet, pc, request, todo, found>>
    BY <1>5 DEF locatorVars, locals, shared, world, World
  <2> QED
    BY <2>1, Undisturbed DEF QuietInv
<1> QED
  BY <1>2, <1>3, <1>4, <1>5 DEF LocatorNext, ThreadStep

\* A call that nothing disturbed answers as it would alone, whatever its other
\* threads are doing to their own calls: what it opened is a regular file that an
\* allowed candidate leads to, and it threw for a reason that still holds.
THEOREM CallsAreSequential == LocatorSpec => []UndisturbedCallIsSequential
<1>1. LocatorInit => QuietInv
  BY DEF LocatorInit, QuietInv
<1>2. CallsInv /\ QuietInv => UndisturbedCallIsSequential
  <2> SUFFICES ASSUME CallsInv, QuietInv, NEW t \in Threads, quiet[t],
                      pc[t] \in {"returned", "thrown"}
               PROVE  SequentialAnswer(t, request[t])
    BY DEF UndisturbedCallIsSequential
  <2>1. request[t] \in Requests /\ OnCourse(t, request[t])
    BY DEF CallsInv, InItsCall, QuietInv
  <2> QED
    BY <2>1 DEF OnCourse
<1> QED
  BY <1>1, <1>2, QuietInvStep, CallsAndMaps, PTL DEF LocatorSpec
=============================================================================
