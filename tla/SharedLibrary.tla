---------------------------- MODULE SharedLibrary ----------------------------
(***************************************************************************)
(* Class shared_library: an object owns at most one reference to an image  *)
(* the dynamic loader has mapped.  Threads use different objects at the    *)
(* same time; dlclose() of the last reference runs the finalisers of the   *)
(* image, and these may call back into the objects of their thread.  So    *)
(* close(), the destructor and move assignment are two steps or three: the *)
(* object gives its handle up, the loader unloads, the call goes on.       *)
(***************************************************************************)
EXTENDS Integers, FiniteSets, SequencesExt

CONSTANTS
  Threads,
  Objects,   \* storage for shared_library objects
  Images,    \* the libraries, by canonical path
  None,      \* the null handle and the empty path
  MaxRefs,   \* bound on the references the loader counts for one image
  MaxDepth,  \* bound on loader calls nested in finalisers, per thread
  MaxKept    \* bound on the dlclose() calls that fail, per image

ASSUME LibraryAssumption ==
  /\ None \notin Images /\ None \notin Objects
  /\ IsFiniteSet(Threads) /\ IsFiniteSet(Objects)
  /\ MaxRefs \in Nat /\ MaxDepth \in Nat /\ MaxKept \in Nat

VARIABLES
  handle,   \* handle_
  path,     \* resolved_path_
  alive,    \* objects constructed and not yet destroyed
  calls,    \* calls[t]: the calls of thread t that are inside the loader, innermost last
  refs,     \* the loader's reference count of each image
  kept      \* references that stayed because dlclose() failed

libVars == <<handle, path, alive, calls, refs, kept>>

\* A call waiting for dlclose(closing_handle); unloading: finalisers are running.
Call == [op : {"close", "release", "assign"}, this : Objects, other : Objects \cup {None},
         image : Images, unloading : BOOLEAN]

LibTypeOK ==
  /\ handle \in [Objects -> Images \cup {None}]
  /\ path \in [Objects -> Images \cup {None}]
  /\ alive \subseteq Objects
  /\ calls \in [Threads -> Seq(Call)]
  /\ refs \in [Images -> Nat] /\ kept \in [Images -> Nat]

LibInit ==
  /\ handle = [o \in Objects |-> None] /\ path = [o \in Objects |-> None]
  /\ alive = {}
  /\ calls = [t \in Threads |-> <<>>]
  /\ refs = [i \in Images |-> 0] /\ kept = [i \in Images |-> 0]

InUse(t) == UNION {{c.this, c.other} : c \in ToSet(calls[t])}

\* Objects whose destructor or assignment has yet to finish.
Unfinished(t) == UNION {{c.this, c.other} : c \in {d \in ToSet(calls[t]) : d.op # "close"}}

\* Thread t runs code of the program: outside the loader or in a finaliser.
Running(t) == calls[t] # <<>> => Last(calls[t]).unloading

\* An object belongs to one thread at a time, and nobody uses it while its
\* destructor or an assignment from or to it is in progress.
MayUse(t, o) ==
  /\ Running(t)
  /\ o \notin Unfinished(t)
  /\ \A u \in Threads \ {t} : o \notin InUse(u)

-----------------------------------------------------------------------------
(* Construction, opening and moving. *)

Construct(t, o) ==
  /\ MayUse(t, o) /\ o \notin alive
  /\ alive' = alive \cup {o}
  /\ UNCHANGED <<handle, path, calls, refs, kept>>

\* A path that is missing, not a regular file or not a library throws before
\* there is an object.
Open(t, o, i) ==
  /\ MayUse(t, o) /\ o \notin alive /\ refs[i] < MaxRefs
  /\ refs' = [refs EXCEPT ![i] = @ + 1]
  /\ alive' = alive \cup {o}
  /\ handle' = [handle EXCEPT ![o] = i]
  /\ path' = [path EXCEPT ![o] = i]
  /\ UNCHANGED <<calls, kept>>

\* Variant: the source keeps its handle.
TransferCopies(o, p) ==
  /\ handle' = [handle EXCEPT ![o] = handle[p]]
  /\ path' = [path EXCEPT ![o] = path[p], ![p] = None]

\* Path and handle of p become those of o.
Transfer(o, p) ==
  /\ handle' = [handle EXCEPT ![o] = handle[p], ![p] = None]
  /\ path' = [path EXCEPT ![o] = path[p], ![p] = None]

MoveConstruct(t, o, p) ==
  /\ MayUse(t, o) /\ MayUse(t, p) /\ o \notin alive /\ p \in alive
  /\ alive' = alive \cup {o}
  /\ Transfer(o, p)
  /\ UNCHANGED <<calls, refs, kept>>

-----------------------------------------------------------------------------
(* Closing. *)

\* Variant: the handle is cleared, the path is not.
GiveUpHandleOnly(t, op, o, p) ==
  /\ handle[o] # None /\ Len(calls[t]) < MaxDepth
  /\ calls' = [calls EXCEPT ![t] = Append(@, [op |-> op, this |-> o, other |-> p,
                                               image |-> handle[o], unloading |-> FALSE])]
  /\ handle' = [handle EXCEPT ![o] = None] /\ path' = path
  /\ UNCHANGED <<alive, refs, kept>>

\* The object is emptied before the loader is called.
GiveUp(t, op, o, p) ==
  /\ handle[o] # None /\ Len(calls[t]) < MaxDepth
  /\ calls' = [calls EXCEPT ![t] = Append(@, [op |-> op, this |-> o, other |-> p,
                                               image |-> handle[o], unloading |-> FALSE])]
  /\ handle' = [handle EXCEPT ![o] = None] /\ path' = [path EXCEPT ![o] = None]
  /\ UNCHANGED <<alive, refs, kept>>

\* close() and release_noexcept() of an object without a handle.
Clear(o) == handle[o] = None /\ path' = [path EXCEPT ![o] = None]

Close(t, o) ==
  /\ MayUse(t, o) /\ o \in alive
  /\ \/ GiveUp(t, "close", o, None)
     \/ Clear(o) /\ UNCHANGED <<handle, alive, calls, refs, kept>>

\* Variant: the destructor leaves the reference to the loader.
DestroyForgets(t, o) ==
  /\ MayUse(t, o) /\ o \in alive
  /\ handle' = [handle EXCEPT ![o] = None] /\ path' = [path EXCEPT ![o] = None]
  /\ alive' = alive \ {o}
  /\ UNCHANGED <<calls, refs, kept>>

Destroy(t, o) ==
  /\ MayUse(t, o) /\ o \in alive
  /\ \/ GiveUp(t, "release", o, None)
     \/ Clear(o) /\ alive' = alive \ {o} /\ UNCHANGED <<handle, calls, refs, kept>>

\* operator=: nothing for self-assignment, else release first.
MoveAssign(t, o, p) ==
  /\ MayUse(t, o) /\ MayUse(t, p) /\ {o, p} \subseteq alive
  /\ o # p
  /\ \/ GiveUp(t, "assign", o, p)
     \/ handle[o] = None /\ Transfer(o, p) /\ UNCHANGED <<alive, calls, refs, kept>>

\* The innermost loader call of t returns and the member function ends.
Return(t) ==
  LET c == Last(calls[t])
  IN  /\ calls' = [calls EXCEPT ![t] = Front(@)]
      /\ alive' = IF c.op = "release" THEN alive \ {c.this} ELSE alive
      /\ IF c.op = "assign" THEN Transfer(c.this, c.other) ELSE UNCHANGED <<handle, path>>

\* The reference goes; the last one takes the image with it.
Dlclose(t) ==
  /\ ~Running(t)
  /\ LET i == Last(calls[t]).image
     IN  /\ refs' = [refs EXCEPT ![i] = @ - 1]
         /\ IF refs[i] = 1
            THEN /\ calls' = [calls EXCEPT ![t][Len(calls[t])].unloading = TRUE]
                 /\ UNCHANGED <<handle, path, alive>>
            ELSE Return(t)
  /\ UNCHANGED kept

\* close() then throws, release_noexcept() does not; the object stays empty.
DlcloseFails(t) ==
  /\ ~Running(t) /\ kept[Last(calls[t]).image] < MaxKept
  /\ kept' = [kept EXCEPT ![Last(calls[t]).image] = @ + 1]
  /\ Return(t)
  /\ UNCHANGED refs

FinalisersEnd(t) ==
  /\ calls[t] # <<>> /\ Last(calls[t]).unloading
  /\ Return(t)
  /\ UNCHANGED <<refs, kept>>

LibNext == \E t \in Threads :
  \/ \E o \in Objects : Construct(t, o) \/ Close(t, o) \/ Destroy(t, o)
  \/ \E o \in Objects, i \in Images : Open(t, o, i)
  \/ \E o, p \in Objects : MoveConstruct(t, o, p) \/ MoveAssign(t, o, p)
  \/ Dlclose(t) \/ DlcloseFails(t) \/ FinalisersEnd(t)

LibSpec == LibInit /\ [][LibNext]_libVars

-----------------------------------------------------------------------------
(* Properties *)

Owners(i) == {o \in Objects : handle[o] = i}

\* Threads about to give a reference to image i back.
Closers(i) == {t \in Threads : ~Running(t) /\ Last(calls[t]).image = i}

\* Every reference the loader counts has exactly one owner: an object, a
\* call about to give it back, or nobody because dlclose() failed.  So no
\* reference is closed twice, none is lost by a move, and an object with a
\* handle refers to a mapped image, whatever finalisers do.
EveryReferenceOwned ==
  \A i \in Images : refs[i] = Cardinality(Owners(i)) + Cardinality(Closers(i)) + kept[i]

\* path() names the image the handle refers to and is empty without one, also
\* for moved-from and closed objects.
PathNamesTheImage == path = handle

\* Libraries are unloaded through RAII: when every object is gone, only the
\* references stay that the loader refused to give up.
UnloadedThroughRAII ==
  alive = {} /\ (\A t \in Threads : calls[t] = <<>>) => refs = kept
=============================================================================
