---------------------------- MODULE BuildProofs ----------------------------
(***************************************************************************)
(* Proofs about Build, for any set of builds, stacks, edits and kills.     *)
(***************************************************************************)
EXTENDS Build, TLAPS

-----------------------------------------------------------------------------
(* Scratch directories. *)

Places ==
  {"idle", "done", "failed", "killed", "kernel", "ksrc", "kbuild", "kcopy", "ksum",
   "key", "restore", "restoring", "unpacking", "agent", "adrop", "adropsum", "abuild",
   "asum", "asha", "images", "join", "base", "assemble", "assembling", "assembled",
   "pack", "write", "writing", "store", "publish"}

\* Where a process works in its scratch directory.
Working == {"kbuild", "kcopy", "abuild", "asum", "images", "base", "assemble",
            "assembling", "assembled", "pack"}

\* Only the kernel's source and the base are downloaded; a bake keeps its work
\* directory from the first image to the seal, the join with the downloads
\* included; `tdvmm doctor` has none.  The directory of a dead process may go.
ScratchInv ==
  /\ pc \in [Procs -> Places]
  /\ fetch \in [Procs -> Fetches \cup {None}]
  /\ \A p \in Procs :
       /\ fetch[p] # None => pc[p] \in {"ksrc", "images", "join"}
       /\ p \notin dead =>
            /\ fetch[p] \in {"open", "write"} \/ pc[p] \in Working => p \in scratch
            /\ p \in Builders /\ pc[p] = "join" => p \in scratch
       /\ pc[p] \in Working \ {"kbuild", "kcopy", "abuild", "asum"} => p \in Builders

\* What every action of a process does with its place.
USE DEF At, To, Places, Fetches

LEMMA NoneIsNoString ==
  /\ \A s \in Fetches : s # None
  /\ None # Pinned /\ Torn # Pinned
  BY BuildAssumption DEF BuildAssumption, Pinned

LEMMA ScratchInit == Init => ScratchInv
  BY NoneIsNoString DEF Init, ScratchInv, Working

\* A process that comes to rest leaves the others as they were.
LEMMA ScratchLeave ==
  ASSUME ScratchInv, NEW p \in Procs, NEW where \in Ended, Leave(p, where), UNCHANGED dead
  PROVE  ScratchInv'
  BY NoneIsNoString DEF ScratchInv, Leave, Ended, Working

\* The sweep spares whoever is there.
LEMMA ScratchSweep ==
  ASSUME ScratchInv, NEW p \in Procs, FullBake(p),
         pc[p] \in {"key", "restore", "restoring", "unpacking"}, UNCHANGED <<fetch, dead>>
  PROVE  ScratchInv'
  BY NoneIsNoString DEF ScratchInv, FullBake, Swept, Alive, Ended, Working

LEMMA ScratchFetch ==
  ASSUME ScratchInv, NEW p \in Procs, Fetch(p)
  PROVE  ScratchInv'
<1> USE NoneIsNoString DEF ScratchInv, Working
<1>1. CASE FetchCheck(p)
  BY <1>1 DEF FetchCheck, Verdict
<1>2. CASE FetchOpen(p)
  BY <1>2 DEF FetchOpen
<1>3. CASE FetchClose(p)
  BY <1>3, BuildAssumption DEF FetchClose, HasWork, BuildAssumption, Procs
<1>4. CASE FetchVerify(p)
  BY <1>4 DEF FetchVerify, Verdict
<1> QED
  BY <1>1, <1>2, <1>3, <1>4 DEF Fetch

LEMMA ScratchKernel ==
  ASSUME ScratchInv, NEW p \in Procs, EnsureKernel(p)
  PROVE  ScratchInv'
<1> USE NoneIsNoString DEF ScratchInv, Working
<1>1. CASE KernelCheck(p)
  BY <1>1 DEF KernelCheck
<1>2. CASE KernelSource(p)
  <2>1. CASE fetch[p] = "bad"
    BY <1>2, <2>1, ScratchLeave DEF KernelSource, Fails, Ended
  <2>2. CASE fetch[p] # "bad"
    BY <1>2, <2>2 DEF KernelSource
  <2> QED
    BY <2>1, <2>2
<1>3. CASE KernelOpen(p)
  BY <1>3 DEF KernelOpen
<1>4. CASE KernelClose(p)
  BY <1>4 DEF KernelClose
<1>5. CASE KernelVerify(p)
  <2>1. CASE kernel.data = Pinned
    BY <1>5, <2>1 DEF KernelVerify
  <2>2. CASE kernel.data # Pinned
    BY <1>5, <2>2, ScratchLeave DEF KernelVerify, Fails, Ended
  <2> QED
    BY <2>1, <2>2
<1> QED
  BY <1>1, <1>2, <1>3, <1>4, <1>5 DEF EnsureKernel

LEMMA ScratchAgent ==
  ASSUME ScratchInv, NEW p \in Procs, EnsureAgent(p)
  PROVE  ScratchInv'
<1> USE NoneIsNoString DEF ScratchInv, Working
<1>1. CASE AgentCheck(p)
  BY <1>1 DEF AgentCheck
<1>2. CASE AgentDrop(p)
  BY <1>2 DEF AgentDrop
<1>3. CASE AgentRename(p)
  BY <1>3 DEF AgentRename
<1>4. CASE AgentSidecar(p)
  BY <1>4 DEF AgentSidecar
<1>5. CASE AgentSha(p)
  <2>1. CASE p \in Builders /\ agentBin = None
    BY <1>5, <2>1, ScratchLeave DEF AgentSha, Fails, Ended
  <2>2. CASE ~(p \in Builders /\ agentBin = None)
    BY <1>5, <2>2, BuildAssumption DEF AgentSha, BuildAssumption, Procs
  <2> QED
    BY <2>1, <2>2
<1> QED
  BY <1>1, <1>2, <1>3, <1>4, <1>5 DEF EnsureAgent

LEMMA ScratchJoin ==
  ASSUME ScratchInv, NEW p \in Procs, Join(p)
  PROVE  ScratchInv'
<1>1. CASE Fails(p) \/ Leave(p, "done")
  BY <1>1, ScratchLeave DEF Join, Fails, Ended
<1>2. CASE ~(Fails(p) \/ Leave(p, "done"))
  BY <1>2, NoneIsNoString DEF Join, ScratchInv, Working
<1> QED
  BY <1>1, <1>2

LEMMA ScratchBake ==
  ASSUME ScratchInv, NEW p \in Builders, Bake(p)
  PROVE  ScratchInv'
<1> USE NoneIsNoString DEF ScratchInv, Working, Procs
<1>1. CASE Key(p)
  <2>1. CASE FullBake(p)
    BY <1>1, <2>1, ScratchSweep DEF Key
  <2>2. CASE To(p, "restore") /\ UNCHANGED scratch
    BY <1>1, <2>2 DEF Key
  <2> QED
    BY <1>1, <2>1, <2>2 DEF Key
<1>2. CASE RestoreOpen(p)
  BY <1>2 DEF RestoreOpen
<1>14. CASE RestoreNext(p)
  BY <1>14 DEF RestoreNext
<1>3. CASE RestoreClose(p)
  BY <1>3, ScratchLeave DEF RestoreClose, Ended
<1>15. CASE RestoreFails(p)
  BY <1>15, ScratchSweep DEF RestoreFails
<1>4. CASE Images(p)
  BY <1>4 DEF Images
<1>5. CASE Base(p)
  <2>1. CASE Fails(p)
    BY <1>5, <2>1, ScratchLeave DEF Base, Fails, Ended
  <2>2. CASE To(p, "assemble") /\ UNCHANGED <<fetch, scratch>>
    BY <1>5, <2>2 DEF Base
  <2> QED
    BY <1>5, <2>1, <2>2 DEF Base
<1>6. CASE AssembleOpen(p)
  BY <1>6 DEF AssembleOpen
<1>7. CASE AssembleClose(p)
  BY <1>7 DEF AssembleClose
<1>8. CASE BaseStore(p)
  BY <1>8 DEF BaseStore
<1>9. CASE Pack(p)
  BY <1>9 DEF Pack
<1>10. CASE WriteOpen(p)
  BY <1>10 DEF WriteOpen
<1>11. CASE WriteClose(p)
  BY <1>11 DEF WriteClose
<1>12. CASE StoreCopy(p)
  <2>1. CASE Leave(p, "done")
    BY <1>12, <2>1, ScratchLeave DEF StoreCopy, Ended
  <2>2. CASE To(p, "publish") /\ UNCHANGED <<fetch, scratch>>
    BY <1>12, <2>2 DEF StoreCopy
  <2> QED
    BY <1>12, <2>1, <2>2 DEF StoreCopy
<1>13. CASE Publish(p)
  BY <1>13, ScratchLeave DEF Publish, Ended
<1> QED
  BY <1>1, <1>2, <1>3, <1>4, <1>5, <1>6, <1>7, <1>8, <1>9, <1>10, <1>11, <1>12, <1>13,
     <1>14, <1>15 DEF Bake

\* What moves, dead or alive: the process itself, or its container.
LEMMA MovesAre ==
  ASSUME NEW p \in Procs, Moves(p)
  PROVE  Start(p) \/ Fetch(p) \/ Step(p) \/ Kill(p)
  BY DEF Moves, Child, Fetch, Step, Bake

LEMMA ScratchNext == ScratchInv /\ [Next]_vars => ScratchInv'
<1> SUFFICES ASSUME ScratchInv, [Next]_vars
             PROVE  ScratchInv'
  OBVIOUS
<1>1. ASSUME NEW p \in Procs, Start(p)
      PROVE  ScratchInv'
  BY <1>1, NoneIsNoString DEF Start, ScratchInv, Working
<1>3. ASSUME NEW p \in Procs, Step(p)
      PROVE  ScratchInv'
  <2>1. CASE Failure(p)
    BY <2>1, ScratchLeave DEF Failure, Fails, Ended
  <2> QED
    BY <1>3, <2>1, ScratchKernel, ScratchAgent, ScratchJoin, ScratchBake DEF Step
<1>4. ASSUME NEW p \in Procs, Kill(p)
      PROVE  ScratchInv'
  BY <1>4, NoneIsNoString DEF Kill, ScratchInv, Working
<1>5. ASSUME UNCHANGED <<pc, fetch, scratch, dead>>
      PROVE  ScratchInv'
  BY <1>5 DEF ScratchInv
<1>6. ASSUME NEW n \in Names, Edit(n)
      PROVE  ScratchInv'
  BY <1>5, <1>6 DEF Edit
<1>7. CASE Reads
  BY <1>5, <1>7 DEF Reads, ReadManifest, RunArtifact, VerifyArtifact, Reader
<1>8. CASE UNCHANGED vars
  BY <1>5, <1>8 DEF vars
<1> QED
  BY <1>1, <1>3, <1>4, <1>6, <1>7, <1>8, ScratchFetch, MovesAre DEF Next

\* While a build works or downloads in its scratch directory, that directory is
\* there: no sweep of another build takes it (sweep_stale_scratch, ScratchDir).
THEOREM ScratchOwned == Spec => []ScratchIsOwned
<1>1. ScratchInv => ScratchIsOwned
  BY DEF ScratchInv, ScratchIsOwned, Working
<1> QED
  BY <1>1, ScratchInit, ScratchNext, PTL DEF Spec
-----------------------------------------------------------------------------
(* Types. *)

Sum == {None, Torn, Pinned}
Version == Nat \cup {None}
Owner == Procs \cup {None}
Archives == [name : Names, lock : Version, images : Version, base : Sum]
ArchiveData == Archives \cup {None, Torn}
Artifacts == [name : Names, lock : Version, kernel : Sum, initramfs : ArchiveData]
ArtifactData == Artifacts \cup {None, Torn}
Keys == [name : Names, tree : Nat, kernel : Sum]
BakeEntries == [key : Keys, art : ArtifactData, initramfs : ArchiveData]
Memory ==
  [doc : Version, ctx : Version, key : Keys \cup {None}, nocache : BOOLEAN,
   hit : BOOLEAN, seg : Sum, art : ArtifactData, tmp : BakeEntries \cup {None}]

FileOf(C) == [data : C, last : Owner, want : C]
OutputOf(C) == [man : C, data : C, last : Owner, want : C]

TypeInv ==
  /\ stack \in [Builders -> Names]
  /\ src \in [Names -> Nat]
  /\ me \in [Procs -> Memory]
  /\ kernel \in FileOf(Sum)
  /\ download \in [{"source", "base"} -> FileOf(Sum)]
  /\ base \in Sum
  /\ initramfs \in [Names -> FileOf(ArchiveData)]
  /\ art \in [Names -> OutputOf(ArtifactData)]
  /\ bake \subseteq BakeEntries

LEMMA OpenedFile ==
  ASSUME NEW C, Torn \in C, NEW c \in C, NEW f \in FileOf(C), NEW p \in Procs
  PROVE  /\ Opened(f, p, c) \in FileOf(C)
         /\ Opened(f, p, c).data = Torn /\ Opened(f, p, c).last = p
  BY DEF Opened, FileOf, Owner

LEMMA ClosedFile ==
  ASSUME NEW C, {None, Torn} \subseteq C, NEW c \in C, NEW f \in FileOf(C), NEW p \in Procs
  PROVE  /\ Closed(f, p, c) \in FileOf(C)
         /\ f.last = p => Closed(f, p, c).data = c
  BY DEF Closed, FileOf, Owner

\* An artifact is opened with its manifest written.
LEMMA BegunOutput ==
  ASSUME NEW C, Torn \in C, NEW f \in OutputOf(C), NEW p \in Procs, NEW m \in C
  PROVE  /\ Begun(f, p, m) \in OutputOf(C)
         /\ Begun(f, p, m).man = m
         /\ Begun(f, p, m).data = Torn /\ Begun(f, p, m).last = p
  BY DEF Begun, Opened, OutputOf, Owner

LEMMA ClosedOutput ==
  ASSUME NEW C, {None, Torn} \subseteq C, NEW c \in C, NEW f \in OutputOf(C), NEW p \in Procs
  PROVE  /\ Closed(f, p, c) \in OutputOf(C)
         /\ Closed(f, p, c).man = f.man
         /\ Closed(f, p, c).data \in {c, f.data, Torn}
         /\ f.last = p => Closed(f, p, c).data = c
  BY DEF Closed, OutputOf, Owner

LEMMA EmptyMemory == Empty \in Memory
  BY DEF Empty, Memory, Version, Sum, ArtifactData

LEMMA TypeInit == Init => TypeInv
<1> SUFFICES ASSUME Init
             PROVE  TypeInv
  OBVIOUS
<1>1. stack \in [Builders -> Names] /\ src \in [Names -> Nat] /\ me \in [Procs -> Memory]
  BY EmptyMemory, BuildAssumption DEF Init, BuildAssumption
<1>2. NoFile \in FileOf(ArchiveData)
  BY DEF NoFile, FileOf, Owner, ArchiveData
<1>3. \A d \in Sum : [NoFile EXCEPT !.data = d] \in FileOf(Sum)
  BY DEF NoFile, FileOf, Sum, Owner
<1>4. /\ kernel \in FileOf(Sum) /\ base \in Sum
      /\ download \in [{"source", "base"} -> FileOf(Sum)]
  <2>1. PICK made \in Sum, k \in Sum :
          /\ kernel = [NoFile EXCEPT !.data = k]
          /\ download = [w \in {"source", "base"} |-> [NoFile EXCEPT !.data = made]]
          /\ base = None
    BY DEF Init, Sum
  <2> QED
    BY <1>3, <2>1 DEF Sum
<1>5. NoArtifact \in OutputOf(ArtifactData)
  BY DEF NoArtifact, OutputOf, ArtifactData, Owner
<1> QED
  BY <1>1, <1>2, <1>4, <1>5 DEF Init, TypeInv

\* A process that ends, fails or is killed holds nothing.
LEMMA TypeLeave ==
  ASSUME TypeInv, NEW p \in Procs, NEW where, Leave(p, where)
  PROVE  me' \in [Procs -> Memory]
  BY EmptyMemory DEF TypeInv, Leave, Holds

\* Nothing that has a type here changes.
LEMMA TypeSame ==
  ASSUME TypeInv, me' \in [Procs -> Memory],
         UNCHANGED <<stack, src, kernel, download, base, initramfs, art, bake>>
  PROVE  TypeInv'
  BY DEF TypeInv

\* A step of one process leaves what another one holds, and where it is.
Alone(p) ==
  \A q \in Procs \ {p} : pc'[q] = pc[q] /\ fetch'[q] = fetch[q] /\ me'[q] = me[q]

LEMMA AloneLeave ==
  ASSUME TypeInv, ScratchInv, NEW p \in Procs, NEW where, Leave(p, where)
  PROVE  Alone(p)
  BY DEF Alone, Leave, Holds, TypeInv, ScratchInv

LEMMA AloneMoves ==
  ASSUME TypeInv, ScratchInv, NEW p \in Procs,
         (\E where : To(p, where)) \/ UNCHANGED pc,
         (\E f : fetch' = [fetch EXCEPT ![p] = f]) \/ UNCHANGED fetch,
         (\E m : Holds(p, m)) \/ UNCHANGED me
  PROVE  Alone(p)
  BY DEF Alone, Holds, TypeInv, ScratchInv

LEMMA AloneFetch ==
  ASSUME TypeInv, ScratchInv, NEW p \in Procs, Fetch(p)
  PROVE  Alone(p)
<1>1. /\ \E f : fetch' = [fetch EXCEPT ![p] = f]
      /\ UNCHANGED <<pc, me>>
  BY Zenon DEF Fetch, FetchCheck, FetchOpen, FetchClose, FetchVerify
<1> QED
  BY <1>1, AloneMoves

LEMMA AloneKernel ==
  ASSUME TypeInv, ScratchInv, NEW p \in Procs, EnsureKernel(p)
  PROVE  Alone(p)
<1>1. CASE KernelCheck(p)
  BY <1>1 DEF KernelCheck, Alone, ScratchInv, TypeInv
<1>2. CASE KernelSource(p)
  BY <1>2, AloneLeave DEF KernelSource, Fails, Alone, ScratchInv, TypeInv
<1>3. CASE KernelOpen(p) \/ KernelClose(p)
  BY <1>3 DEF KernelOpen, KernelClose, Alone, ScratchInv, TypeInv
<1>4. CASE KernelVerify(p)
  BY <1>4, AloneLeave DEF KernelVerify, Fails, Alone, ScratchInv, TypeInv
<1> QED
  BY <1>1, <1>2, <1>3, <1>4 DEF EnsureKernel

LEMMA AloneAgent ==
  ASSUME TypeInv, ScratchInv, NEW p \in Procs, EnsureAgent(p)
  PROVE  Alone(p)
<1>1. CASE AgentCheck(p) \/ AgentDrop(p) \/ AgentRename(p) \/ AgentSidecar(p)
  BY <1>1 DEF AgentCheck, AgentDrop, AgentRename, AgentSidecar, Alone, ScratchInv, TypeInv
<1>2. CASE AgentSha(p)
  BY <1>2, AloneLeave DEF AgentSha, Fails, Alone, ScratchInv, TypeInv
<1> QED
  BY <1>1, <1>2 DEF EnsureAgent

LEMMA AloneBake ==
  ASSUME TypeInv, ScratchInv, NEW p \in Builders, Bake(p)
  PROVE  Alone(p)
<1> USE DEF Procs
<1>1. CASE Key(p)
  <2>1. /\ \E m : Holds(p, m)
        /\ \E where : To(p, where)
        /\ UNCHANGED fetch
    BY <1>1, Zenon DEF Key, FullBake
  <2> QED
    BY <2>1, AloneMoves
<1>2. CASE RestoreOpen(p) \/ AssembleOpen(p) \/ AssembleClose(p) \/ BaseStore(p)
             \/ WriteOpen(p) \/ WriteClose(p)
  BY <1>2 DEF RestoreOpen, AssembleOpen, AssembleClose, BaseStore, WriteOpen, WriteClose,
              Alone, ScratchInv, TypeInv
<1>3. CASE RestoreNext(p) \/ RestoreClose(p) \/ RestoreFails(p)
  BY <1>3, AloneLeave DEF RestoreNext, RestoreClose, RestoreFails, FullBake, Alone,
                          ScratchInv, TypeInv
<1>4. CASE Images(p) \/ Pack(p)
  <2>1. /\ \E m : Holds(p, m)
        /\ \E where : To(p, where)
        /\ UNCHANGED fetch
    BY <1>4, Zenon DEF Images, Pack
  <2> QED
    BY <2>1, AloneMoves
<1>5. CASE Base(p)
  <2>1. CASE Fails(p)
    BY <2>1, AloneLeave DEF Fails
  <2>2. CASE ~Fails(p)
    <3>1. /\ \E m : Holds(p, m)
          /\ \E where : To(p, where)
          /\ UNCHANGED fetch
      BY <1>5, <2>2, Zenon DEF Base
    <3> QED
      BY <3>1, AloneMoves
  <2> QED
    BY <2>1, <2>2
<1>6. CASE StoreCopy(p)
  <2>1. CASE Leave(p, "done")
    BY <2>1, AloneLeave
  <2>2. CASE ~Leave(p, "done")
    <3>1. /\ \E m : Holds(p, m)
          /\ \E where : To(p, where)
          /\ UNCHANGED fetch
      BY <1>6, <2>2, Zenon DEF StoreCopy
    <3> QED
      BY <3>1, AloneMoves
  <2> QED
    BY <2>1, <2>2
<1>7. CASE Publish(p)
  BY <1>7, AloneLeave DEF Publish
<1> QED
  BY <1>1, <1>2, <1>3, <1>4, <1>5, <1>6, <1>7 DEF Bake

LEMMA AloneStep ==
  ASSUME TypeInv, ScratchInv, NEW p \in Procs, Start(p) \/ Fetch(p) \/ Step(p) \/ Kill(p)
  PROVE  Alone(p)
<1>1. CASE Start(p)
  BY <1>1 DEF Start, Holds, Alone, ScratchInv, TypeInv
<1>2. CASE Kill(p)
  BY <1>2 DEF Kill, Holds, Alone, ScratchInv, TypeInv
<1>3. CASE Failure(p) \/ Join(p)
  BY <1>3, AloneLeave DEF Failure, Join, Fails, Alone, ScratchInv, TypeInv
<1> QED
  BY <1>1, <1>2, <1>3, AloneFetch, AloneKernel, AloneAgent, AloneBake DEF Step

LEMMA TypeFetch ==
  ASSUME TypeInv, NEW p \in Procs, Fetch(p)
  PROVE  TypeInv'
<1>1. /\ Wanted(p) \in {"source", "base"}
      /\ {None, Torn} \subseteq Sum /\ Torn \in Sum /\ Pinned \in Sum
  BY DEF Wanted, Sum
<1>2. CASE FetchCheck(p) \/ FetchVerify(p)
  BY <1>2 DEF FetchCheck, FetchVerify, TypeInv, cacheVars, outVars
<1>3. CASE FetchOpen(p)
  <2>1. Opened(download[Wanted(p)], p, Pinned) \in FileOf(Sum)
    BY <1>1, OpenedFile DEF TypeInv
  <2> QED
    BY <1>1, <1>3, <2>1 DEF FetchOpen, TypeInv, outVars
<1>4. CASE FetchClose(p)
  <2>1. Closed(download[Wanted(p)], p, Pinned) \in FileOf(Sum)
    BY <1>1, ClosedFile DEF TypeInv
  <2> QED
    BY <1>1, <1>4, <2>1 DEF FetchClose, TypeInv, outVars
<1> QED
  BY <1>2, <1>3, <1>4 DEF Fetch

LEMMA TypeKernel ==
  ASSUME TypeInv, NEW p \in Procs, EnsureKernel(p)
  PROVE  TypeInv'
<1> USE DEF cacheVars, outVars
<1>1. {None, Torn} \subseteq Sum /\ Torn \in Sum /\ Pinned \in Sum
  BY DEF Sum
<1>2. CASE KernelCheck(p)
  BY <1>2 DEF KernelCheck, TypeInv
<1>3. CASE KernelSource(p)
  <2>1. CASE fetch[p] = "bad"
    BY <1>3, <2>1, TypeLeave, TypeSame DEF KernelSource, Fails
  <2>2. CASE fetch[p] # "bad"
    BY <1>3, <2>2 DEF KernelSource, TypeInv
  <2> QED
    BY <2>1, <2>2
<1>4. CASE KernelOpen(p)
  BY <1>1, <1>4, OpenedFile DEF KernelOpen, TypeInv
<1>5. CASE KernelClose(p)
  BY <1>1, <1>5, ClosedFile DEF KernelClose, TypeInv
<1>6. CASE KernelVerify(p)
  <2>1. CASE kernel.data = Pinned
    BY <1>6, <2>1 DEF KernelVerify, TypeInv
  <2>2. CASE kernel.data # Pinned
    BY <1>6, <2>2, TypeLeave, TypeSame DEF KernelVerify, Fails
  <2> QED
    BY <2>1, <2>2
<1> QED
  BY <1>2, <1>3, <1>4, <1>5, <1>6 DEF EnsureKernel

LEMMA TypeAgent ==
  ASSUME TypeInv, NEW p \in Procs, EnsureAgent(p)
  PROVE  TypeInv'
<1> USE DEF cacheVars, outVars
<1>1. CASE AgentCheck(p) \/ AgentDrop(p) \/ AgentRename(p) \/ AgentSidecar(p)
  BY <1>1 DEF AgentCheck, AgentDrop, AgentRename, AgentSidecar, TypeInv
<1>2. CASE AgentSha(p)
  <2>1. CASE p \in Builders /\ agentBin = None
    BY <1>2, <2>1, TypeLeave, TypeSame DEF AgentSha, Fails
  <2>2. CASE ~(p \in Builders /\ agentBin = None)
    BY <1>2, <2>2 DEF AgentSha, TypeInv
  <2> QED
    BY <2>1, <2>2
<1> QED
  BY <1>1, <1>2 DEF EnsureAgent

\* An entry is copied before it is published.
Copied == \A p \in Procs : pc[p] = "publish" => me[p].tmp \in BakeEntries

LEMMA CopiedEntry ==
  ASSUME TypeInv, NEW p \in Builders, me[p].key # None
  PROVE  [key |-> me[p].key, art |-> art[stack[p]].data,
          initramfs |-> initramfs[stack[p]].data] \in BakeEntries
<1>1. stack[p] \in Names /\ me[p] \in Memory
  BY DEF TypeInv, Procs
<1> QED
  BY <1>1 DEF BakeEntries, Memory, TypeInv, FileOf, OutputOf

LEMMA CopiedStep ==
  ASSUME TypeInv, ScratchInv, Copied, NEW p \in Procs,
         Start(p) \/ Fetch(p) \/ Step(p) \/ Kill(p)
  PROVE  Copied'
<1> SUFFICES pc'[p] = "publish" => me'[p].tmp \in BakeEntries
  BY AloneStep DEF Alone, Copied
<1> USE DEF ScratchInv, Leave, Fails
<1>1. CASE Start(p) \/ Kill(p) \/ Failure(p) \/ Join(p)
  BY <1>1 DEF Start, Kill, Failure, Join, Copied
<1>2. CASE Fetch(p)
  BY <1>2 DEF Fetch, FetchCheck, FetchOpen, FetchClose, FetchVerify, Copied
<1>3. CASE EnsureKernel(p)
  BY <1>3 DEF EnsureKernel, KernelCheck, KernelSource, KernelOpen, KernelClose, KernelVerify
<1>4. CASE EnsureAgent(p)
  BY <1>4 DEF EnsureAgent, AgentCheck, AgentDrop, AgentRename, AgentSidecar, AgentSha
<1>5. CASE p \in Builders /\ StoreCopy(p)
  <2> DEFINE t == [key |-> me[p].key, art |-> art[stack[p]].data,
                   initramfs |-> initramfs[stack[p]].data]
  <2>1. CASE Leave(p, "done")
    BY <2>1
  <2>2. CASE ~Leave(p, "done")
    <3>1. me[p].key # None /\ Holds(p, [me[p] EXCEPT !.tmp = t])
      BY <1>5, <2>2 DEF StoreCopy
    <3>2. t \in BakeEntries
      BY <1>5, <3>1, CopiedEntry
    <3> HIDE DEF t
    <3> QED
      BY <3>1, <3>2 DEF TypeInv, Memory, Holds
  <2> QED
    BY <2>1, <2>2
<1>6. CASE p \in Builders /\ Bake(p) /\ ~StoreCopy(p)
  <2>1. CASE Key(p)
    <3>1. To(p, "restore") \/ To(p, "agent")
      BY <2>1, Zenon DEF Key, FullBake
    <3> QED
      BY <3>1
  <2>2. CASE ~Key(p)
    BY <1>6, <2>2 DEF Bake, FullBake, RestoreOpen, RestoreNext, RestoreClose, RestoreFails,
       Images, Base, AssembleOpen, AssembleClose, BaseStore, Pack, WriteOpen, WriteClose, Publish
  <2> QED
    BY <2>1, <2>2
<1> QED
  BY <1>1, <1>2, <1>3, <1>4, <1>5, <1>6 DEF Step

LEMMA TypeBake ==
  ASSUME TypeInv, Copied, NEW p \in Builders, Bake(p)
  PROVE  TypeInv'
<1> USE DEF cacheVars, outVars, Procs
<1>1. /\ stack[p] \in Names /\ me[p] \in Memory
      /\ {None, Torn} \subseteq ArchiveData /\ {None, Torn} \subseteq ArtifactData
      /\ Torn \in ArchiveData /\ Torn \in ArtifactData
  BY DEF TypeInv, ArchiveData, ArtifactData
<1>2. ASSUME NEW m \in Memory, Holds(p, m),
             UNCHANGED <<stack, src, kernel, download, base, initramfs, art, bake>>
      PROVE  TypeInv'
  BY <1>2 DEF TypeInv, Holds
<1>3. CASE Key(p)
  <2>1. PICK cache : LET key == IF cache = "off" THEN None ELSE CacheKey(stack[p])
                     IN  Holds(p, [me[p] EXCEPT !.key = key, !.nocache = cache = "no-cache"])
    BY <1>3 DEF Key
  <2>2. CacheKey(stack[p]) \in Keys
    BY <1>1 DEF CacheKey, Keys, TypeInv, FileOf
  <2>3. PICK b \in BOOLEAN, k \in Keys \cup {None} :
          Holds(p, [me[p] EXCEPT !.key = k, !.nocache = b])
    BY <2>1, <2>2, Zenon
  <2>4. [me[p] EXCEPT !.key = k, !.nocache = b] \in Memory
    BY <1>1 DEF Memory
  <2> QED
    BY <1>2, <1>3, <2>3, <2>4 DEF Key
<1>4. ASSUME NEW e \in Baked(me[p].key)
      PROVE  e.art \in ArtifactData /\ e.initramfs \in ArchiveData
  BY DEF Baked, TypeInv, BakeEntries
<1>16. CASE RestoreOpen(p)
  <2>1. PICK e \in Baked(me[p].key) : art' = [art EXCEPT ![stack[p]] = Begun(@, p, e.art)]
    BY <1>16 DEF RestoreOpen
  <2>2. Begun(art[stack[p]], p, e.art) \in OutputOf(ArtifactData)
    BY <1>1, <1>4, BegunOutput DEF TypeInv
  <2> QED
    BY <1>16, <2>1, <2>2 DEF RestoreOpen, TypeInv
<1>17. CASE RestoreNext(p)
  <2>1. PICK e \in Baked(me[p].key) :
          /\ art' = [art EXCEPT ![stack[p]] = Closed(@, p, e.art)]
          /\ initramfs' = [initramfs EXCEPT ![stack[p]] = Opened(@, p, e.initramfs)]
    BY <1>17 DEF RestoreNext
  <2>2. /\ Closed(art[stack[p]], p, e.art) \in OutputOf(ArtifactData)
        /\ Opened(initramfs[stack[p]], p, e.initramfs) \in FileOf(ArchiveData)
    BY <1>1, <1>4, ClosedOutput, OpenedFile DEF TypeInv
  <2> QED
    BY <1>17, <2>1, <2>2 DEF RestoreNext, TypeInv
<1>5. CASE RestoreClose(p)
  <2>1. PICK e \in Baked(me[p].key) :
          initramfs' = [initramfs EXCEPT ![stack[p]] = Closed(@, p, e.initramfs)]
    BY <1>5 DEF RestoreClose
  <2>2. Closed(initramfs[stack[p]], p, e.initramfs) \in FileOf(ArchiveData)
    BY <1>1, <1>4, ClosedFile DEF TypeInv
  <2>3. me' \in [Procs -> Memory]
    BY <1>5, TypeLeave DEF RestoreClose
  <2> QED
    BY <1>5, <2>1, <2>2, <2>3 DEF RestoreClose, TypeInv
<1>18. CASE RestoreFails(p)
  BY <1>18 DEF RestoreFails, TypeInv
<1>6. CASE Images(p)
  <2>1. [me[p] EXCEPT !.ctx = src[stack[p]]] \in Memory
    BY <1>1 DEF Memory, TypeInv, Version
  <2> QED
    BY <1>2, <1>6, <2>1 DEF Images
<1>7. CASE Base(p)
  <2>1. CASE Fails(p)
    BY <1>7, <2>1, TypeLeave, TypeSame DEF Base, Fails
  <2>2. CASE ~Fails(p)
    <3>1. PICK hit \in BOOLEAN :
            Holds(p, [me[p] EXCEPT !.hit = hit,
                        !.seg = IF hit THEN base ELSE download["base"].data])
      BY <1>7, <2>2, Zenon DEF Base
    <3>2. PICK s \in Sum : Holds(p, [me[p] EXCEPT !.hit = hit, !.seg = s])
      BY <3>1 DEF TypeInv, FileOf
    <3>3. [me[p] EXCEPT !.hit = hit, !.seg = s] \in Memory
      BY <1>1 DEF Memory
    <3> QED
      BY <1>2, <1>7, <3>2, <3>3 DEF Base
  <2> QED
    BY <2>1, <2>2
<1>19. Archive(stack[p], me[p]) \in ArchiveData
  BY <1>1 DEF Archive, ArchiveData, Archives, Memory
<1>8. CASE AssembleOpen(p)
  <2>1. Opened(initramfs[stack[p]], p, Archive(stack[p], me[p])) \in FileOf(ArchiveData)
    BY <1>1, <1>19, OpenedFile DEF TypeInv
  <2> QED
    BY <1>8, <2>1 DEF AssembleOpen, TypeInv
<1>9. CASE AssembleClose(p)
  <2>2. Closed(initramfs[stack[p]], p, Archive(stack[p], me[p])) \in FileOf(ArchiveData)
    BY <1>1, <1>19, ClosedFile DEF TypeInv
  <2> QED
    BY <1>9, <2>2 DEF AssembleClose, TypeInv
<1>10. CASE BaseStore(p)
  BY <1>1, <1>10 DEF BaseStore, TypeInv, Memory
<1>11. CASE Pack(p)
  <2> DEFINE a == Seal(stack[p], me[p].doc, kernel.data, initramfs[stack[p]].data)
  <2>1. a \in ArtifactData
    BY <1>1 DEF Seal, ArtifactData, Artifacts, TypeInv, FileOf, Memory
  <2>2. Holds(p, [me[p] EXCEPT !.art = a])
    BY <1>11 DEF Pack
  <2> HIDE DEF a
  <2>3. [me[p] EXCEPT !.art = a] \in Memory
    BY <1>1, <2>1 DEF Memory
  <2> QED
    BY <1>2, <1>11, <2>2, <2>3 DEF Pack
<1>12. CASE WriteOpen(p)
  <2>1. Begun(art[stack[p]], p, me[p].art) \in OutputOf(ArtifactData)
    BY <1>1, BegunOutput DEF TypeInv, Memory
  <2> QED
    BY <1>12, <2>1 DEF WriteOpen, TypeInv
<1>13. CASE WriteClose(p)
  <2>1. Closed(art[stack[p]], p, me[p].art) \in OutputOf(ArtifactData)
    BY <1>1, ClosedOutput DEF TypeInv, Memory
  <2> QED
    BY <1>13, <2>1 DEF WriteClose, TypeInv
<1>14. CASE StoreCopy(p)
  <2> DEFINE t == [key |-> me[p].key, art |-> art[stack[p]].data,
                   initramfs |-> initramfs[stack[p]].data]
  <2>1. CASE Leave(p, "done")
    BY <1>14, <2>1, TypeLeave, TypeSame DEF StoreCopy
  <2>2. CASE ~Leave(p, "done")
    <3>1. me[p].key # None /\ Holds(p, [me[p] EXCEPT !.tmp = t])
      BY <1>14, <2>2 DEF StoreCopy
    <3>2. t \in BakeEntries
      BY <1>1, <3>1 DEF BakeEntries, Memory, TypeInv, FileOf, OutputOf
    <3> HIDE DEF t
    <3>3. [me[p] EXCEPT !.tmp = t] \in Memory
      BY <1>1, <3>2 DEF Memory
    <3> QED
      BY <1>2, <1>14, <3>1, <3>3 DEF StoreCopy
  <2> QED
    BY <2>1, <2>2
<1>15. CASE Publish(p)
  <2>1. pc[p] = "publish" /\ me' \in [Procs -> Memory]
    BY <1>15, TypeLeave DEF Publish
  <2> QED
    BY <1>15, <2>1 DEF Publish, TypeInv, Copied
<1> QED
  BY <1>3, <1>5, <1>6, <1>7, <1>8, <1>9, <1>10, <1>11, <1>12, <1>13, <1>14, <1>15,
     <1>16, <1>17, <1>18 DEF Bake

\* The invariant that gives every file and every process's memory its type.
Typed == TypeInv /\ ScratchInv /\ Copied

LEMMA TypedStep ==
  ASSUME Typed, NEW p \in Procs, Start(p) \/ Fetch(p) \/ Step(p) \/ Kill(p)
  PROVE  TypeInv'
<1> USE DEF Typed, cacheVars, outVars
<1>1. CASE Start(p)
  <2>1. CASE UNCHANGED me
    BY <1>1, <2>1, TypeSame DEF Start, TypeInv
  <2>2. CASE ~UNCHANGED me
    <3>1. PICK v \in Version : Holds(p, [me[p] EXCEPT !.doc = v])
      BY <1>1, <2>2 DEF Start, TypeInv, Version, Procs
    <3>2. [me[p] EXCEPT !.doc = v] \in Memory
      BY DEF TypeInv, Memory
    <3> QED
      BY <1>1, <3>1, <3>2, TypeSame DEF Start, Holds, TypeInv
  <2> QED
    BY <2>1, <2>2
<1>2. CASE Kill(p)
  BY <1>2, EmptyMemory, TypeSame DEF Kill, Holds, TypeInv
<1>3. CASE Failure(p)
  BY <1>3, TypeLeave, TypeSame DEF Failure, Fails
<1>4. CASE Join(p)
  <2>1. CASE Fails(p) \/ Leave(p, "done")
    BY <1>4, <2>1, TypeLeave, TypeSame DEF Join, Fails
  <2>2. CASE UNCHANGED me
    BY <1>4, <2>2, TypeSame DEF Join, TypeInv
  <2> QED
    BY <1>4, <2>1, <2>2 DEF Join
<1> QED
  BY <1>1, <1>2, <1>3, <1>4, TypeFetch, TypeKernel, TypeAgent, TypeBake DEF Step

\* Edits and readers leave files, memory and places alone.
LEMMA TypedNext == Typed /\ [Next]_vars => Typed'
<1> SUFFICES ASSUME Typed, [Next]_vars
             PROVE  Typed'
  OBVIOUS
<1>1. ScratchInv'
  BY ScratchNext DEF Typed
<1>2. ASSUME NEW p \in Procs, Start(p) \/ Fetch(p) \/ Step(p) \/ Kill(p)
      PROVE  Typed'
  BY <1>1, <1>2, CopiedStep, TypedStep DEF Typed
<1>3. ASSUME NEW n \in Names, Edit(n)
      PROVE  Typed'
  BY <1>1, <1>3 DEF Edit, Typed, TypeInv, Copied, cacheVars, outVars
<1>4. ASSUME NEW r, Reader(r)
      PROVE  Typed'
  BY <1>1, <1>4 DEF Reader, Typed, TypeInv, Copied, cacheVars, outVars
<1>6. CASE Reads
  BY <1>4, <1>6 DEF Reads, ReadManifest, RunArtifact, VerifyArtifact
<1>7. CASE UNCHANGED vars
  BY <1>1, <1>7 DEF vars, Typed, TypeInv, Copied, cacheVars, outVars
<1> QED
  BY <1>2, <1>3, <1>6, <1>7, MovesAre DEF Next

\* Every file holds what some step writes there, whoever else writes it: the
\* kernel and the downloads are missing, torn or pinned, a bake entry has its
\* three parts, an artifact a manifest, members and its last writer.
THEOREM BuildTyped == Spec => []Typed
<1>1. Init => Typed
  BY TypeInit, ScratchInit DEF Init, Typed, Copied
<1> QED
  BY <1>1, TypedNext, PTL DEF Spec
-----------------------------------------------------------------------------
(* What a reader vouches for. *)

Readers ==
  [pc : {"idle", "read"}, name : Names \cup {None}, man : ArtifactData,
   vouched : ArtifactData]

\* What can stand where an artifact is expected.
Known == sealed \cup {None, Torn}

\* A manifest is that of a sealed artifact wherever it is: in the hands of a
\* build, in the store, in an entry of the cache, with a reader.
SealedInv ==
  /\ runner \in Readers
  /\ runner.pc = "read" => runner.name \in Names
  /\ \A p \in Procs : me[p].art \in Known
  /\ \A p \in Procs : pc[p] = "publish" => me[p].tmp.art \in Known
  /\ \A n \in Names : art[n].man \in Known /\ art[n].data \in Known
  /\ \A e \in bake : e.art \in Known
  /\ runner.man \in Known
  /\ runner.vouched \in sealed \cup {None}

LEMMA SealedInit == Init => SealedInv
<1> SUFFICES ASSUME Init
             PROVE  SealedInv
  OBVIOUS
<1>1. NoReader \in Readers
  BY DEF NoReader, Readers, ArtifactData
<1> QED
  BY <1>1 DEF Init, SealedInv, Known, Empty, NoArtifact, NoReader

\* A process keeps, copies or drops the artifact it holds, and the store and the
\* cache stay as they are.
LEMMA SealedKeep ==
  ASSUME Typed, SealedInv, NEW p \in Procs, Alone(p), me'[p].art \in {me[p].art, None},
         pc'[p] = "publish" => me'[p].tmp.art \in Known,
         UNCHANGED <<art, bake, runner, sealed>>
  PROVE  SealedInv'
  BY DEF SealedInv, Known, Alone

\* A process ends, however it ends.
LEMMA SealedLeave ==
  ASSUME Typed, SealedInv, NEW p \in Procs, NEW where, Leave(p, where), where # "publish",
         UNCHANGED <<art, bake, runner, sealed>>
  PROVE  SealedInv'
<1>1. me'[p].art = None /\ pc'[p] # "publish"
  BY DEF Leave, Holds, Empty, Typed, TypeInv, ScratchInv
<1> QED
  BY <1>1, AloneLeave, SealedKeep DEF Typed

LEMMA SealedPrepare ==
  ASSUME Typed, SealedInv, NEW p \in Procs,
         \/ Start(p) \/ Kill(p) \/ Fetch(p) \/ Failure(p) \/ EnsureKernel(p)
         \/ EnsureAgent(p) \/ Join(p)
  PROVE  SealedInv'
<1> USE DEF cacheVars, outVars
<1>1. Alone(p)
  BY AloneStep DEF Typed, Step
<1>2. ASSUME UNCHANGED <<me, art, bake, runner, sealed>>, pc'[p] \in {pc[p]} \cup (Places \ {"publish"})
      PROVE  SealedInv'
  BY <1>1, <1>2, SealedKeep DEF SealedInv
<1>3. CASE Start(p)
  <2>1. me'[p].art = me[p].art /\ pc'[p] # "publish"
    BY <1>3 DEF Start, Holds, Typed, TypeInv, ScratchInv, Memory
  <2> QED
    BY <1>1, <1>3, <2>1, SealedKeep DEF Start
<1>4. CASE Kill(p)
  <2>1. CASE HasChild(p)
    BY <1>2, <1>4, <2>1 DEF Kill
  <2>2. CASE ~HasChild(p)
    <3>1. me'[p].art = None /\ pc'[p] # "publish"
      BY <1>4, <2>2 DEF Kill, Holds, Empty, Typed, TypeInv, ScratchInv
    <3> QED
      BY <1>1, <1>4, <3>1, SealedKeep DEF Kill
  <2> QED
    BY <2>1, <2>2
<1>5. CASE Fetch(p)
  BY <1>2, <1>5 DEF Fetch, FetchCheck, FetchOpen, FetchClose, FetchVerify
<1>6. CASE Failure(p)
  BY <1>6, SealedLeave DEF Failure, Fails
<1>7. CASE EnsureKernel(p)
  <2>1. CASE Fails(p)
    BY <1>7, <2>1, SealedLeave DEF Fails, EnsureKernel, KernelCheck, KernelSource,
       KernelOpen, KernelClose, KernelVerify
  <2>2. CASE ~Fails(p)
    BY <1>2, <1>7, <2>2 DEF EnsureKernel, KernelCheck, KernelSource, KernelOpen,
       KernelClose, KernelVerify, Typed, ScratchInv
  <2> QED
    BY <2>1, <2>2
<1>8. CASE EnsureAgent(p)
  <2>1. CASE Fails(p)
    BY <1>8, <2>1, SealedLeave DEF Fails, EnsureAgent, AgentCheck, AgentDrop,
       AgentRename, AgentSidecar, AgentSha
  <2>2. CASE ~Fails(p)
    BY <1>2, <1>8, <2>2 DEF EnsureAgent, AgentCheck, AgentDrop, AgentRename,
       AgentSidecar, AgentSha, Typed, ScratchInv
  <2> QED
    BY <2>1, <2>2
<1>9. CASE Join(p)
  <2>1. CASE Fails(p) \/ Leave(p, "done")
    BY <1>9, <2>1, SealedLeave DEF Fails, Join
  <2>2. CASE ~(Fails(p) \/ Leave(p, "done"))
    BY <1>2, <1>9, <2>2 DEF Join, Typed, ScratchInv
  <2> QED
    BY <2>1, <2>2
<1> QED
  BY <1>3, <1>4, <1>5, <1>6, <1>7, <1>8, <1>9

LEMMA SealedBake ==
  ASSUME Typed, SealedInv, NEW p \in Builders, Bake(p)
  PROVE  SealedInv'
<1> USE DEF cacheVars, outVars, Procs
<1>1. /\ Alone(p) /\ stack[p] \in Names /\ me[p] \in Memory
      /\ art[stack[p]] \in OutputOf(ArtifactData)
      /\ Torn \in ArtifactData /\ {None, Torn} \subseteq ArtifactData
  BY AloneBake DEF Typed, TypeInv, ArtifactData
<1>2. ASSUME UNCHANGED <<me, bake, runner, sealed>>, pc'[p] \in Places \ {"publish"},
             NEW f, f.man \in Known, f.data \in Known,
             art' = [art EXCEPT ![stack[p]] = f]
      PROVE  SealedInv'
  <2>1. \A n \in Names : art'[n].man \in Known /\ art'[n].data \in Known
    BY <1>1, <1>2 DEF Typed, TypeInv, SealedInv
  <2> QED
    BY <1>1, <1>2, <2>1 DEF SealedInv, Alone, Known
<1>3. CASE Key(p)
  <2>1. PICK b, k : Holds(p, [me[p] EXCEPT !.key = k, !.nocache = b])
    BY <1>3, Zenon DEF Key
  <2>2. me'[p].art = me[p].art
    BY <1>1, <2>1 DEF Holds, Memory, Typed, TypeInv
  <2>3. To(p, "restore") \/ To(p, "agent")
    BY <1>3, Zenon DEF Key, FullBake
  <2>4. pc'[p] # "publish"
    BY <2>3 DEF Typed, ScratchInv
  <2> QED
    BY <1>1, <1>3, <2>2, <2>4, SealedKeep DEF Key
<1>4. CASE RestoreOpen(p)
  <2>1. PICK e \in Baked(me[p].key) :
          art' = [art EXCEPT ![stack[p]] = Begun(art[stack[p]], p, e.art)]
    BY <1>4 DEF RestoreOpen
  <2>2. e.art \in Known /\ e.art \in ArtifactData
    BY DEF Baked, SealedInv, Typed, TypeInv, BakeEntries
  <2> DEFINE f == Begun(art[stack[p]], p, e.art)
  <2>3. f.man \in Known /\ f.data \in Known
    BY <1>1, <2>2, BegunOutput DEF Known
  <2>4. pc'[p] \in Places \ {"publish"} /\ UNCHANGED <<me, bake, runner, sealed>>
    BY <1>4 DEF RestoreOpen, Typed, ScratchInv
  <2> QED
    BY <1>2, <2>1, <2>3, <2>4
<1>5. CASE RestoreNext(p)
  <2>1. PICK e \in Baked(me[p].key) :
          art' = [art EXCEPT ![stack[p]] = Closed(art[stack[p]], p, e.art)]
    BY <1>5 DEF RestoreNext
  <2>2. e.art \in Known /\ e.art \in ArtifactData
    BY DEF Baked, SealedInv, Typed, TypeInv, BakeEntries
  <2> DEFINE f == Closed(art[stack[p]], p, e.art)
  <2>3. f.man \in Known /\ f.data \in Known
    BY <1>1, <2>2, ClosedOutput DEF Known, SealedInv
  <2>4. pc'[p] \in Places \ {"publish"} /\ UNCHANGED <<me, bake, runner, sealed>>
    BY <1>5 DEF RestoreNext, Typed, ScratchInv
  <2> QED
    BY <1>2, <2>1, <2>3, <2>4
<1>14. CASE RestoreClose(p)
  BY <1>14, SealedLeave DEF RestoreClose
<1>15. CASE RestoreFails(p)
  <2>1. pc'[p] # "publish" /\ UNCHANGED <<art, me, bake, runner, sealed>>
    BY <1>15 DEF RestoreFails, FullBake, Typed, ScratchInv
  <2> QED
    BY <1>1, <2>1, SealedKeep
<1>6. CASE Images(p)
  <2>1. me'[p].art = me[p].art /\ pc'[p] # "publish"
    BY <1>1, <1>6 DEF Images, Holds, Memory, Typed, TypeInv, ScratchInv
  <2> QED
    BY <1>1, <1>6, <2>1, SealedKeep DEF Images
<1>7. CASE Base(p)
  <2>1. CASE Fails(p)
    BY <1>7, <2>1, SealedLeave DEF Base, Fails
  <2>2. CASE ~Fails(p)
    <3>1. PICK hit, s : Holds(p, [me[p] EXCEPT !.hit = hit, !.seg = s])
      BY <1>7, <2>2, Zenon DEF Base
    <3>2. me'[p].art = me[p].art
      BY <1>1, <3>1 DEF Holds, Memory, Typed, TypeInv
    <3>3. pc'[p] # "publish"
      BY <1>7, <2>2 DEF Base, Typed, ScratchInv
    <3> QED
      BY <1>1, <1>7, <3>2, <3>3, SealedKeep DEF Base
  <2> QED
    BY <2>1, <2>2
<1>8. CASE AssembleOpen(p) \/ AssembleClose(p) \/ BaseStore(p)
  <2>1. pc'[p] # "publish" /\ UNCHANGED <<art, me, bake, runner, sealed>>
    BY <1>8 DEF AssembleOpen, AssembleClose, BaseStore, Typed, ScratchInv
  <2> QED
    BY <1>1, <2>1, SealedKeep
<1>9. CASE Pack(p)
  <2> DEFINE a == Seal(stack[p], me[p].doc, kernel.data, initramfs[stack[p]].data)
  <2>1. Holds(p, [me[p] EXCEPT !.art = a]) /\ sealed' = sealed \cup {a}
    BY <1>9 DEF Pack
  <2> HIDE DEF a
  <2>2. me'[p].art = a /\ pc'[p] # "publish" /\ UNCHANGED <<art, bake, runner>>
    BY <1>1, <1>9, <2>1 DEF Pack, Holds, Memory, Typed, TypeInv, ScratchInv
  <2>3. \A q \in Procs : me'[q].art \in Known'
    BY <1>1, <2>1, <2>2 DEF SealedInv, Alone, Known
  <2>4. \A q \in Procs : pc'[q] = "publish" => me'[q].tmp.art \in Known'
    BY <1>1, <2>1, <2>2 DEF SealedInv, Alone, Known
  <2> QED
    BY <2>1, <2>2, <2>3, <2>4 DEF SealedInv, Known
<1>10. CASE WriteOpen(p)
  <2> DEFINE f == Begun(art[stack[p]], p, me[p].art)
  <2>1. f.man \in Known /\ f.data \in Known
    <3>1. me[p].art \in Known /\ me[p].art \in ArtifactData
      BY <1>1 DEF SealedInv, Memory
    <3> QED
      BY <1>1, <3>1, BegunOutput DEF Known
  <2>2. /\ art' = [art EXCEPT ![stack[p]] = f]
        /\ pc'[p] \in Places \ {"publish"} /\ UNCHANGED <<me, bake, runner, sealed>>
    BY <1>10 DEF WriteOpen, Typed, ScratchInv
  <2> QED
    BY <1>2, <2>1, <2>2
<1>11. CASE WriteClose(p)
  <2> DEFINE f == Closed(art[stack[p]], p, me[p].art)
  <2>1. f.man \in Known /\ f.data \in Known
    BY <1>1, ClosedOutput DEF Known, SealedInv, Memory
  <2>2. /\ art' = [art EXCEPT ![stack[p]] = f]
        /\ pc'[p] \in Places \ {"publish"} /\ UNCHANGED <<me, bake, runner, sealed>>
    BY <1>11 DEF WriteClose, Typed, ScratchInv
  <2> QED
    BY <1>2, <2>1, <2>2
<1>12. CASE StoreCopy(p)
  <2> DEFINE t == [key |-> me[p].key, art |-> art[stack[p]].data,
                   initramfs |-> initramfs[stack[p]].data]
  <2>1. CASE Leave(p, "done")
    BY <1>12, <2>1, SealedLeave DEF StoreCopy
  <2>2. CASE ~Leave(p, "done")
    <3>1. Holds(p, [me[p] EXCEPT !.tmp = t])
      BY <1>12, <2>2 DEF StoreCopy
    <3>2. t.art \in Known
      BY <1>1 DEF SealedInv
    <3> HIDE DEF t
    <3>3. me'[p].art = me[p].art /\ me'[p].tmp = t
      BY <1>1, <3>1 DEF Holds, Memory, Typed, TypeInv
    <3> QED
      BY <1>1, <1>12, <3>2, <3>3, SealedKeep DEF StoreCopy
  <2> QED
    BY <2>1, <2>2
<1>13. CASE Publish(p)
  <2>1. me'[p].art = None /\ pc'[p] # "publish" /\ UNCHANGED <<art, runner, sealed>>
    BY <1>13 DEF Publish, Leave, Holds, Empty, Typed, TypeInv, ScratchInv
  <2>2. \A e \in bake' : e.art \in Known
    BY <1>13 DEF Publish, SealedInv
  <2> QED
    BY <1>1, <2>1, <2>2 DEF SealedInv, Alone, Known
<1> QED
  BY <1>3, <1>4, <1>5, <1>6, <1>7, <1>8, <1>9, <1>10, <1>11, <1>12, <1>13,
     <1>14, <1>15 DEF Bake

LEMMA SealedReader ==
  ASSUME Typed, SealedInv, Reads
  PROVE  SealedInv'
<1>1. ASSUME NEW r \in Readers, Reader(r), r.man \in Known,
             r.vouched \in sealed \cup {None}, r.pc = "read" => r.name \in Names
      PROVE  SealedInv'
  BY <1>1 DEF Reader, SealedInv, Known, cacheVars, outVars
<1>2. \A n \in Names : art[n].man \in ArtifactData /\ Entries(n) \in ArtifactData
  BY DEF Typed, TypeInv, OutputOf, Entries
<1>3. ASSUME NEW d \in ArtifactData, d \in sealed \cup {None}, Reader(Vouches(d))
      PROVE  SealedInv'
  <2>1. /\ Vouches(d) \in Readers /\ Vouches(d).man = None
        /\ Vouches(d).vouched = d /\ Vouches(d).pc = "idle"
    BY DEF Vouches, NoReader, Readers, ArtifactData
  <2> QED
    BY <1>1, <1>3, <2>1 DEF Known
<1>4. None \in ArtifactData
  BY DEF ArtifactData
<1>5. ASSUME NEW n \in Names, ReadManifest(n)
      PROVE  SealedInv'
  <2> DEFINE r == [pc |-> "read", name |-> n, man |-> art[n].man, vouched |-> None]
  <2>1. r \in Readers /\ r.man = art[n].man /\ r.vouched = None /\ r.name = n
    BY <1>2, <1>4 DEF Readers
  <2>2. Reader(r)
    BY <1>5 DEF ReadManifest
  <2> HIDE DEF r
  <2> QED
    BY <1>1, <2>1, <2>2 DEF SealedInv
<1>6. ASSUME runner.pc = "read", Verifies(runner.man, Entries(runner.name))
      PROVE  Entries(runner.name) \in ArtifactData /\ Entries(runner.name) \in sealed \cup {None}
  BY <1>2, <1>6 DEF Verifies, SealedInv, Known
<1>7. CASE RunArtifact
  <2>1. CASE Reader(NoReader)
    <3>1. /\ NoReader \in Readers /\ NoReader.man = None
          /\ NoReader.vouched = None /\ NoReader.pc = "idle"
      BY <1>4 DEF NoReader, Readers
    <3> QED
      BY <1>1, <2>1, <3>1 DEF Known
  <2> QED
    BY <1>3, <1>6, <1>7, <2>1 DEF RunArtifact
<1>8. CASE VerifyArtifact
  BY <1>3, <1>4, <1>6, <1>8 DEF VerifyArtifact, VerifyReport
<1> QED
  BY <1>5, <1>7, <1>8 DEF Reads

\* Whatever is built, restored, killed or rewritten under a reader, an artifact
\* that verifies is one that some build sealed (cmd_run, verify_members, verify).
THEOREM SealedVouched == Spec => []VerifiedRunsBootSealed
<1>1. Typed /\ SealedInv /\ [Next]_vars => SealedInv'
  <2> SUFFICES ASSUME Typed, SealedInv, [Next]_vars
               PROVE  SealedInv'
    OBVIOUS
  <2>1. ASSUME NEW p \in Procs, Start(p) \/ Fetch(p) \/ Step(p) \/ Kill(p)
        PROVE  SealedInv'
    BY <2>1, SealedPrepare, SealedBake DEF Step
  <2>2. ASSUME NEW n \in Names, Edit(n)
        PROVE  SealedInv'
    BY <2>2 DEF Edit, SealedInv, Known, cacheVars, outVars
  <2>3. CASE UNCHANGED vars
    BY <2>3 DEF vars, SealedInv, Known, cacheVars, outVars
  <2> QED
    BY <2>1, <2>2, <2>3, SealedReader, MovesAre DEF Next
<1>2. SealedInv => VerifiedRunsBootSealed
  BY DEF SealedInv, VerifiedRunsBootSealed
<1> QED
  BY <1>1, <1>2, SealedInit, BuildTyped, PTL DEF Spec
-----------------------------------------------------------------------------
(* The bake cache, for the builds under which nothing of theirs changed. *)

\* Where a full bake is: from its last image, from its base segment, with its
\* archive written, with its artifact sealed.
Written == {"store", "publish"}
Sealing == {"write", "writing"} \cup Written
Archived == {"assembled", "pack"} \cup Sealing
Based == {"assemble", "assembling"} \cup Archived
Imaged == {"join", "base"} \cup Based
Restoring == {"restore", "restoring", "unpacking"}
Keyed == Restoring \cup {"agent", "adrop", "adropsum", "abuild", "asum", "asha", "images"}
         \cup Imaged

\* What a build has found, has made or restores is what a fresh bake of its
\* sources finds, makes and leaves; an entry it restores may be a suspect one.
Made(p) ==
  LET n == stack[p]
      f == Fresh(n, src[n])
  IN /\ pc[p] \in Keyed \cup {"key"} => kernel.data = Pinned
     /\ pc[p] = "base" \/ (pc[p] \in {"images", "join"} /\ fetch[p] = "ok") =>
          download["base"].data = Pinned
     /\ me[p].doc = src[n]
     /\ pc[p] \in Keyed => me[p].key \in {None, f.key}
     /\ pc[p] \in Restoring => me[p].key = f.key
     /\ pc[p] \in Imaged => me[p].ctx = src[n]
     /\ pc[p] \in Based => me[p].seg = Pinned
     /\ pc[p] \in {"unpacking", "assembling"} => initramfs[n].last = p
     /\ pc[p] \in Archived => initramfs[n].data = f.initramfs
     /\ pc[p] \in Sealing => me[p].art = f.art
     /\ pc[p] \in {"restoring", "writing"} => art[n].last = p
     /\ pc[p] \in {"writing"} \cup Written => art[n].man = f.art
     /\ pc[p] \in Written => art[n].data = f.art
     /\ pc[p] \in {"restoring", "unpacking"} /\ me[p].key \notin suspectKeys =>
          art[n].man = f.art
     /\ pc[p] = "unpacking" /\ me[p].key \notin suspectKeys => art[n].data = f.art
     /\ pc[p] = "publish" => me[p].tmp = f

\* The base segment is made of pinned parts unless a disturbed build left it.
SoundBase == ~suspectBase => base \in {None, Pinned}

FreshInv ==
  /\ SoundBase /\ FreshUnlessDisturbed
  /\ \A p \in Builders : Alive(p) /\ p \notin disturbed => Made(p)

LEMMA FreshKey ==
  ASSUME NEW n, NEW v
  PROVE  Fresh(n, v).key = [name |-> n, tree |-> v, kernel |-> Pinned]
  BY DEF Fresh

LEMMA FreshInputs ==
  ASSUME NEW n, NEW v
  PROVE  /\ Fresh(n, v).key.name = n
         /\ Fresh(n, v).key.tree = v
  BY DEF Fresh

LEMMA FreshArchive ==
  ASSUME NEW n, NEW v
  PROVE  Fresh(n, v).initramfs =
           [name |-> n, lock |-> v, images |-> v, base |-> Pinned]
  BY DEF Fresh

LEMMA FreshArtifact ==
  ASSUME NEW n, NEW v
  PROVE  Fresh(n, v).art =
           [name |-> n, lock |-> v, kernel |-> Pinned, initramfs |-> Fresh(n, v).initramfs]
  BY DEF Fresh

LEMMA FreshWhole ==
  ASSUME NEW n, NEW v
  PROVE  Fresh(n, v) = [key |-> Fresh(n, v).key, art |-> Fresh(n, v).art,
                        initramfs |-> Fresh(n, v).initramfs]
  BY DEF Fresh

\* A build that is not in `by` and stays undisturbed sees nothing of the step.
LEMMA MadeOthers ==
  ASSUME Typed, FreshInv, NEW by, Record(by), stack' = stack, dead \subseteq dead',
         NEW q \in Builders, q \notin by, (Alive(q) /\ q \notin disturbed)',
         pc'[q] = pc[q] /\ fetch'[q] = fetch[q] /\ me'[q] = me[q]
  PROVE  Made(q)'
<1> DEFINE n == stack[q]
<1>1. Alive(q) /\ q \notin disturbed /\ suspectKeys \subseteq suspectKeys'
  BY DEF Alive, Record
<1>2. ~ChangesUnder(q)
  BY <1>1 DEF Record
<1>3. /\ kernel' = kernel /\ download'["base"] = download["base"]
      /\ src'[n] = src[n] /\ initramfs'[n] = initramfs[n] /\ art'[n] = art[n]
  BY <1>2 DEF ChangesUnder
<1>4. stack'[q] = n /\ Made(q)
  BY <1>1 DEF FreshInv
<1> QED
  BY <1>1, <1>3, <1>4 DEF Made

\* The invariant after a step of p, from what p has made and what it leaves in
\* the caches.
LEMMA FreshKeep ==
  ASSUME Typed, FreshInv, NEW p \in Procs, Alone(p), Record({p}), stack' = stack,
         dead \subseteq dead',
         p \in Builders /\ (Alive(p) /\ p \notin disturbed)' => Made(p)',
         base' = base \/ p \in disturbed \/ base' \in {None, Pinned},
         \A e \in bake' \ bake : p \in disturbed \/ e = Fresh(e.key.name, e.key.tree)
  PROVE  FreshInv'
<1>1. ASSUME NEW q \in Builders, q # p, (Alive(q) /\ q \notin disturbed)'
      PROVE  Made(q)'
  BY <1>1, MadeOthers DEF Alone, Procs
<1>2. SoundBase'
  BY DEF FreshInv, SoundBase, Record
<1>3. FreshUnlessDisturbed'
  <2> SUFFICES ASSUME NEW e \in bake', e.key \notin suspectKeys'
               PROVE  e = Fresh(e.key.name, e.key.tree)
    BY DEF FreshUnlessDisturbed
  <2>1. suspectKeys \subseteq suspectKeys'
    BY DEF Record
  <2>2. CASE e \in bake
    BY <2>1, <2>2 DEF FreshInv, FreshUnlessDisturbed
  <2>3. CASE e \notin bake
    BY <2>3 DEF Record
  <2> QED
    BY <2>2, <2>3
<1> QED
  BY <1>1, <1>2, <1>3 DEF FreshInv

\* Steps of a build that make nothing: up to the images, to the base, to the seal.
LEMMA MadeMoves ==
  ASSUME Typed, NEW p \in Builders, Made(p), me'[p] = me[p],
         UNCHANGED <<stack, src, art, initramfs>>, suspectKeys \subseteq suspectKeys',
         pc'[p] \in Keyed \cup {"key"} => kernel'.data = Pinned,
         pc'[p] = "base" \/ (pc'[p] \in {"images", "join"} /\ fetch'[p] = "ok") =>
           download'["base"].data = Pinned,
         \/ pc'[p] = pc[p]
         \/ pc'[p] \in {"kernel", "ksrc", "kbuild", "kcopy", "ksum", "key"}
         \/ pc[p] \in Keyed /\ pc'[p] \in {"agent", "adrop", "adropsum", "abuild",
                                           "asum", "asha", "images"}
         \/ pc[p] = "join" /\ pc'[p] = "base"
         \/ pc[p] = "assembled" /\ pc'[p] = "pack"
  PROVE  Made(p)'
  BY DEF Made, Restoring, Keyed, Imaged, Based, Archived, Sealing, Written

\* The kernel has its pin once it is checked, the downloads theirs once they are.
LEMMA MadeFetch ==
  ASSUME Typed, NEW p \in Builders, Made(p), Fetch(p), suspectKeys \subseteq suspectKeys'
  PROVE  Made(p)'
<1> USE NoneIsNoString DEF cacheVars, outVars, Procs
<1>1. /\ UNCHANGED <<stack, src, art, initramfs, kernel, me, pc>> /\ fetch[p] # None
      /\ fetch[p] \in {"check", "open", "write", "verify"}
  BY DEF Fetch, FetchCheck, FetchOpen, FetchClose, FetchVerify
<1>2. pc[p] \in {"ksrc", "images", "join"}
  BY <1>1 DEF Typed, ScratchInv
<1>3. pc[p] \in {"images", "join"} /\ fetch'[p] = "ok" => download'["base"].data = Pinned
  BY <1>1 DEF Fetch, FetchCheck, FetchOpen, FetchClose, FetchVerify, Verdict, Wanted,
              Typed, ScratchInv
<1>4. pc[p] \in Keyed \cup {"key"} => kernel.data = Pinned
  BY DEF Made
<1> QED
  BY <1>1, <1>2, <1>3, <1>4, MadeMoves

LEMMA MadePrepare ==
  ASSUME Typed, NEW p \in Builders, Made(p), suspectKeys \subseteq suspectKeys',
         pc'[p] \notin Ended,
         Failure(p) \/ EnsureKernel(p) \/ EnsureAgent(p) \/ Join(p)
  PROVE  Made(p)'
<1> USE BuildAssumption DEF cacheVars, outVars, Procs, BuildAssumption
<1>1. pc[p] \in Keyed \cup {"key"} => kernel.data = Pinned
  BY DEF Made
<1>2. CASE Failure(p)
  BY <1>2 DEF Failure, Fails, Leave, Ended, Typed, ScratchInv
<1>3. CASE EnsureKernel(p)
  <2>1. /\ UNCHANGED <<stack, src, art, initramfs>> /\ me'[p] = me[p]
        /\ pc'[p] \in {"ksrc", "kbuild", "kcopy", "ksum", "key"}
        /\ pc'[p] = "key" => kernel'.data = Pinned
    BY <1>3 DEF EnsureKernel, KernelCheck, KernelSource, KernelOpen, KernelClose,
       KernelVerify, Fails, Leave, Ended, Typed, ScratchInv
  <2>2. pc'[p] \notin Keyed
    BY <2>1 DEF Keyed, Restoring, Imaged, Based, Archived, Sealing, Written
  <2> QED
    BY <2>1, <2>2, MadeMoves
<1>4. CASE EnsureAgent(p)
  <2>1. /\ UNCHANGED <<stack, src, art, initramfs, kernel>> /\ me'[p] = me[p]
        /\ pc[p] \in {"agent", "adrop", "adropsum", "abuild", "asum", "asha"}
        /\ pc'[p] \in {"adrop", "adropsum", "abuild", "asum", "asha", "images"}
        /\ pc'[p] = "images" => fetch'[p] = "check"
    BY <1>4 DEF EnsureAgent, AgentCheck, AgentDrop, AgentRename, AgentSidecar, AgentSha,
       Fails, Leave, Ended, Typed, ScratchInv
  <2>2. pc[p] \in Keyed
    BY <2>1 DEF Keyed
  <2> QED
    BY <1>1, <2>1, <2>2, MadeMoves
<1>5. CASE Join(p)
  <2>1. /\ UNCHANGED <<stack, src, art, initramfs, kernel, download>> /\ me'[p] = me[p]
        /\ pc[p] = "join" /\ fetch[p] = "ok" /\ pc'[p] = "base"
    BY <1>5 DEF Join, Fails, Leave, Ended, Typed, ScratchInv
  <2>2. pc[p] \in Keyed /\ download["base"].data = Pinned
    BY <2>1 DEF Keyed, Imaged, Made
  <2> QED
    BY <1>1, <2>1, <2>2, MadeMoves
<1> QED
  BY <1>2, <1>3, <1>4, <1>5

\* An entry with the key of a build is what that build would make, unless it is
\* a suspect one.
LEMMA FreshEntry ==
  ASSUME Typed, FreshUnlessDisturbed, NEW p \in Builders, Made(p), pc[p] \in Restoring,
         NEW e \in Baked(me[p].key)
  PROVE  /\ me[p].key \notin suspectKeys => e = Fresh(stack[p], src[stack[p]])
         /\ e.art \in ArtifactData /\ e.initramfs \in ArchiveData
<1>1. e \in bake /\ e.key = me[p].key /\ e.key = Fresh(stack[p], src[stack[p]]).key
  BY DEF Baked, Made
<1>2. e.key.name = stack[p] /\ e.key.tree = src[stack[p]]
  <2> DEFINE f == Fresh(stack[p], src[stack[p]])
  <2>1. f.key.name = stack[p] /\ f.key.tree = src[stack[p]]
    BY FreshInputs
  <2> QED
    BY <1>1, <2>1, Zenon
<1>3. me[p].key \notin suspectKeys => e = Fresh(stack[p], src[stack[p]])
  BY <1>1, <1>2 DEF FreshUnlessDisturbed
<1>4. e.art \in ArtifactData /\ e.initramfs \in ArchiveData
  BY <1>1 DEF Typed, TypeInv, BakeEntries
<1> QED
  BY <1>3, <1>4

LEMMA MadeRestore ==
  ASSUME Typed, FreshUnlessDisturbed, NEW p \in Builders, Made(p),
         suspectKeys \subseteq suspectKeys', pc'[p] \notin Ended,
         Key(p) \/ RestoreOpen(p) \/ RestoreNext(p) \/ RestoreClose(p) \/ RestoreFails(p)
  PROVE  Made(p)'
<1> USE DEF cacheVars, outVars, Procs
<1> DEFINE n == stack[p]
           f == Fresh(n, src[n])
<1>1. n \in Names /\ me[p] \in Memory
  BY DEF Typed, TypeInv
<1>2. UNCHANGED <<stack, src, kernel, download>> /\ kernel.data = Pinned
  BY DEF Key, RestoreOpen, RestoreNext, RestoreClose, RestoreFails, Made, Keyed, Restoring
<1>3. /\ art[n] \in OutputOf(ArtifactData) /\ {None, Torn} \subseteq ArtifactData
      /\ initramfs[n] \in FileOf(ArchiveData) /\ {None, Torn} \subseteq ArchiveData
  BY <1>1 DEF Typed, TypeInv, ArtifactData, ArchiveData
<1>4. CASE Key(p)
  <2>1. CacheKey(n) = f.key
    BY <1>2, FreshKey DEF CacheKey
  <2>2. PICK b, k :
          /\ k \in {None, f.key}
          /\ Holds(p, [me[p] EXCEPT !.key = k, !.nocache = b])
          /\ (k = f.key /\ To(p, "restore")) \/ To(p, "agent")
    <3> HIDE DEF f
    <3>1. PICK cache \in {"on", "no-cache", "off"} :
            LET key == IF cache = "off" THEN None ELSE f.key
            IN /\ Holds(p, [me[p] EXCEPT !.key = key, !.nocache = cache = "no-cache"])
               /\ IF cache = "on" /\ Baked(key) # {}
                  THEN To(p, "restore") /\ UNCHANGED scratch
                  ELSE FullBake(p)
      BY <1>4, <2>1 DEF Key
    <3>2. CASE cache = "on" /\ Baked(f.key) # {}
      BY <3>1, <3>2, Zenon
    <3>3. CASE ~(cache = "on" /\ Baked(f.key) # {})
      BY <3>1, <3>3, Zenon DEF FullBake
    <3> QED
      BY <3>2, <3>3
  <2>3. me'[p].key = k /\ me'[p].doc = me[p].doc
    BY <1>1, <2>2 DEF Holds, Memory, Typed, TypeInv
  <2>4. (pc'[p] = "restore" /\ k = f.key) \/ pc'[p] = "agent"
    BY <2>2 DEF Typed, ScratchInv
  <2> QED
    BY <1>2, <2>2, <2>3, <2>4
       DEF Made, Restoring, Keyed, Imaged, Based, Archived, Sealing, Written
<1>5. CASE RestoreOpen(p)
  <2>1. PICK e \in Baked(me[p].key) : art' = [art EXCEPT ![n] = Begun(art[n], p, e.art)]
    BY <1>5 DEF RestoreOpen
  <2>2. /\ pc[p] = "restore" /\ pc'[p] = "restoring" /\ me'[p] = me[p]
        /\ pc[p] \in Restoring
    BY <1>5 DEF RestoreOpen, Typed, ScratchInv, Restoring
  <2>3. (me[p].key \notin suspectKeys => e = f) /\ e.art \in ArtifactData
    BY <2>2, FreshEntry
  <2>4. art'[n].man = e.art /\ art'[n].last = p
    <3> HIDE DEF f
    <3>1. art'[n] = Begun(art[n], p, e.art)
      BY <1>1, <2>1 DEF Typed, TypeInv
    <3> QED
      BY <1>3, <2>3, <3>1, BegunOutput
  <2> QED
    BY <1>2, <2>2, <2>3, <2>4
       DEF Made, Restoring, Keyed, Imaged, Based, Archived, Sealing, Written
<1>6. CASE RestoreNext(p)
  <2>1. PICK e \in Baked(me[p].key) :
          /\ art' = [art EXCEPT ![n] = Closed(art[n], p, e.art)]
          /\ initramfs' = [initramfs EXCEPT ![n] = Opened(initramfs[n], p, e.initramfs)]
    BY <1>6 DEF RestoreNext
  <2>2. /\ pc[p] = "restoring" /\ pc'[p] = "unpacking" /\ me'[p] = me[p]
        /\ pc[p] \in Restoring
    BY <1>6 DEF RestoreNext, Typed, ScratchInv, Restoring
  <2>3. /\ me[p].key \notin suspectKeys => e = f
        /\ e.art \in ArtifactData /\ e.initramfs \in ArchiveData
    BY <2>2, FreshEntry
  <2>4. art[n].last = p
    BY <2>2 DEF Made
  <2>5. art'[n].man = art[n].man /\ art'[n].data = e.art /\ initramfs'[n].last = p
    <3> HIDE DEF f
    <3>1. /\ art'[n] = Closed(art[n], p, e.art)
          /\ initramfs'[n] = Opened(initramfs[n], p, e.initramfs)
      BY <1>1, <2>1 DEF Typed, TypeInv
    <3>2. art'[n].man = art[n].man /\ art'[n].data = e.art
      BY <1>3, <2>3, <2>4, <3>1, ClosedOutput
    <3>3. initramfs'[n].last = p
      BY <1>3, <2>3, <3>1, OpenedFile
    <3> QED
      BY <3>2, <3>3
  <2> QED
    BY <1>2, <2>2, <2>3, <2>5
       DEF Made, Restoring, Keyed, Imaged, Based, Archived, Sealing, Written
<1>7. CASE RestoreClose(p)
  BY <1>7 DEF RestoreClose, Leave, Ended, Typed, ScratchInv
<1>8. CASE RestoreFails(p)
  <2>1. /\ pc[p] \in Restoring /\ pc[p] \in Keyed /\ pc'[p] = "agent" /\ me'[p] = me[p]
        /\ UNCHANGED <<art, initramfs>>
    BY <1>8 DEF RestoreFails, FullBake, Typed, ScratchInv, Keyed, Restoring
  <2> QED
    BY <1>2, <2>1, MadeMoves
<1> QED
  BY <1>4, <1>5, <1>6, <1>7, <1>8

\* From the images to the archive.
LEMMA MadeAssemble ==
  ASSUME Typed, SoundBase, NEW p \in Builders, Made(p),
         suspectKeys \subseteq suspectKeys', pc'[p] \notin Ended, ~Inherits(p),
         Images(p) \/ Base(p) \/ AssembleOpen(p) \/ AssembleClose(p) \/ BaseStore(p)
  PROVE  Made(p)'
<1> USE DEF cacheVars, outVars, Procs
<1> DEFINE n == stack[p]
           f == Fresh(n, src[n])
<1>1. n \in Names /\ me[p] \in Memory
  BY DEF Typed, TypeInv
<1>2. UNCHANGED <<stack, src, art, kernel, download>> /\ kernel.data = Pinned
  BY DEF Images, Base, AssembleOpen, AssembleClose, BaseStore, Made, Keyed, Imaged, Based,
         Archived
<1>3. initramfs[n] \in FileOf(ArchiveData) /\ {None, Torn} \subseteq ArchiveData
  BY <1>1 DEF Typed, TypeInv, ArchiveData
<1>4. Archive(n, me[p]) \in ArchiveData
  BY <1>1 DEF Archive, ArchiveData, Archives, Memory
<1>5. CASE Images(p)
  <2>1. /\ me'[p].ctx = src[n] /\ me'[p].key = me[p].key /\ me'[p].doc = me[p].doc
        /\ pc[p] = "images" /\ pc'[p] = "join" /\ fetch'[p] = fetch[p]
    BY <1>1, <1>5 DEF Images, Holds, Memory, Typed, TypeInv, ScratchInv
  <2> QED
    BY <1>2, <2>1
       DEF Made, Restoring, Keyed, Imaged, Based, Archived, Sealing, Written
<1>6. CASE Base(p)
  <2>1. ~Fails(p)
    BY DEF Fails, Leave, Ended, Typed, ScratchInv
  <2>2. PICK hit \in BOOLEAN :
          /\ hit => base # None
          /\ Holds(p, [me[p] EXCEPT !.hit = hit,
                         !.seg = IF hit THEN base ELSE download["base"].data])
          /\ To(p, "assemble")
    BY <1>6, <2>1, Zenon DEF Base
  <2>3. download["base"].data = Pinned /\ pc[p] = "base" /\ pc'[p] = "assemble"
    BY <1>6, <2>2 DEF Base, Made, Typed, ScratchInv
  <2>4. me'[p].hit = hit
    BY <1>1, <2>2 DEF Holds, Memory, Typed, TypeInv
  <2>5. hit => base = Pinned
    BY <2>2, <2>3, <2>4 DEF Inherits, SoundBase
  <2>6. Holds(p, [me[p] EXCEPT !.hit = hit, !.seg = Pinned])
    BY <2>2, <2>3, <2>5
  <2>7. /\ me'[p].seg = Pinned /\ me'[p].key = me[p].key /\ me'[p].doc = me[p].doc
        /\ me'[p].ctx = me[p].ctx
    BY <1>1, <2>6 DEF Holds, Memory, Typed, TypeInv
  <2> QED
    BY <1>2, <2>3, <2>7
       DEF Made, Restoring, Keyed, Imaged, Based, Archived, Sealing, Written
<1>7. CASE AssembleOpen(p)
  <2>1. /\ pc[p] = "assemble" /\ pc'[p] = "assembling" /\ me'[p] = me[p]
        /\ initramfs'[n] = Opened(initramfs[n], p, Archive(n, me[p]))
    BY <1>1, <1>7 DEF AssembleOpen, Typed, TypeInv, ScratchInv
  <2>2. initramfs'[n].last = p
    BY <1>3, <1>4, <2>1, OpenedFile
  <2> QED
    BY <1>2, <2>1, <2>2
       DEF Made, Restoring, Keyed, Imaged, Based, Archived, Sealing, Written
<1>8. CASE AssembleClose(p)
  <2>1. /\ pc[p] = "assembling" /\ pc'[p] = "assembled" /\ me'[p] = me[p]
        /\ initramfs'[n] = Closed(initramfs[n], p, Archive(n, me[p]))
    BY <1>1, <1>8 DEF AssembleClose, Typed, TypeInv, ScratchInv
  <2>2. /\ me[p].doc = src[n] /\ me[p].ctx = src[n] /\ me[p].seg = Pinned
        /\ initramfs[n].last = p
    BY <2>1 DEF Made, Imaged, Based
  <2>3. Archive(n, me[p]) = f.initramfs
    BY <2>2, FreshArchive DEF Archive
  <2>4. initramfs'[n].data = f.initramfs
    BY <1>3, <1>4, <2>1, <2>2, <2>3, ClosedFile
  <2> QED
    BY <1>2, <2>1, <2>4
       DEF Made, Restoring, Keyed, Imaged, Based, Archived, Sealing, Written
<1>9. CASE BaseStore(p)
  <2>1. /\ pc[p] = "assembled" /\ pc'[p] = "pack" /\ me'[p] = me[p]
        /\ UNCHANGED initramfs
    BY <1>9 DEF BaseStore, Typed, ScratchInv
  <2> QED
    BY <1>2, <2>1, MadeMoves
<1> QED
  BY <1>5, <1>6, <1>7, <1>8, <1>9

\* From the seal to the entry of the cache.
LEMMA MadePack ==
  ASSUME Typed, NEW p \in Builders, Made(p), suspectKeys \subseteq suspectKeys',
         pc'[p] \notin Ended,
         Pack(p) \/ WriteOpen(p) \/ WriteClose(p) \/ StoreCopy(p) \/ Publish(p)
  PROVE  Made(p)'
<1> USE DEF cacheVars, outVars, Procs
<1> DEFINE n == stack[p]
           f == Fresh(n, src[n])
<1>1. n \in Names /\ me[p] \in Memory
  BY DEF Typed, TypeInv
<1>2. UNCHANGED <<stack, src, kernel, download, initramfs>> /\ kernel.data = Pinned
  BY DEF Pack, WriteOpen, WriteClose, StoreCopy, Publish, Made, Keyed, Imaged, Based,
         Archived, Sealing, Written
<1>3. /\ art[n] \in OutputOf(ArtifactData) /\ {None, Torn} \subseteq ArtifactData
      /\ me[p].art \in ArtifactData
  BY <1>1 DEF Typed, TypeInv, ArtifactData, Memory
<1>4. CASE Pack(p)
  <2> DEFINE a == Seal(n, me[p].doc, kernel.data, initramfs[n].data)
  <2>1. pc[p] = "pack" /\ pc'[p] = "write" /\ UNCHANGED art
    BY <1>4 DEF Pack, Typed, ScratchInv
  <2>2. me[p].doc = src[n] /\ initramfs[n].data = f.initramfs
    BY <2>1 DEF Made, Archived
  <2>3. a = f.art
    BY <1>2, <2>2, FreshArtifact DEF Seal
  <2>4. Holds(p, [me[p] EXCEPT !.art = f.art])
    BY <1>4, <2>3 DEF Pack
  <2>5. /\ me'[p].art = f.art /\ me'[p].key = me[p].key /\ me'[p].doc = me[p].doc
        /\ me'[p].ctx = me[p].ctx /\ me'[p].seg = me[p].seg
    <3> HIDE DEF f
    <3> QED
      BY <1>1, <2>4 DEF Holds, Memory, Typed, TypeInv
  <2> QED
    BY <1>2, <2>1, <2>5
       DEF Made, Restoring, Keyed, Imaged, Based, Archived, Sealing, Written
<1>5. CASE WriteOpen(p)
  <2>1. /\ pc[p] = "write" /\ pc'[p] = "writing" /\ me'[p] = me[p]
        /\ art'[n] = Begun(art[n], p, me[p].art)
    BY <1>1, <1>5 DEF WriteOpen, Typed, TypeInv, ScratchInv
  <2>2. art'[n].man = me[p].art /\ art'[n].last = p
    BY <1>3, <2>1, BegunOutput
  <2> QED
    BY <1>2, <2>1, <2>2
       DEF Made, Restoring, Keyed, Imaged, Based, Archived, Sealing, Written
<1>6. CASE WriteClose(p)
  <2>1. /\ pc[p] = "writing" /\ pc'[p] = "store" /\ me'[p] = me[p]
        /\ art'[n] = Closed(art[n], p, me[p].art)
    BY <1>1, <1>6 DEF WriteClose, Typed, TypeInv, ScratchInv
  <2>2. art[n].last = p
    BY <2>1 DEF Made
  <2>3. art'[n].man = art[n].man /\ art'[n].data = me[p].art
    BY <1>3, <2>1, <2>2, ClosedOutput
  <2> QED
    BY <1>2, <2>1, <2>3
       DEF Made, Restoring, Keyed, Imaged, Based, Archived, Sealing, Written
<1>7. CASE StoreCopy(p)
  <2>1. pc[p] = "store" /\ UNCHANGED art
    BY <1>7 DEF StoreCopy
  <2>2. ~Leave(p, "done")
    BY DEF Leave, Ended, Typed, ScratchInv
  <2>3. /\ me[p].key # None /\ To(p, "publish")
        /\ Holds(p, [me[p] EXCEPT !.tmp = [key |-> me[p].key, art |-> art[n].data,
                                           initramfs |-> initramfs[n].data]])
    BY <1>7, <2>2 DEF StoreCopy
  <2>4. me[p].key = f.key /\ art[n].data = f.art /\ initramfs[n].data = f.initramfs
    BY <2>1, <2>3 DEF Made, Keyed, Imaged, Based, Archived, Sealing, Written
  <2>5. Holds(p, [me[p] EXCEPT !.tmp = f])
    BY <2>3, <2>4, FreshWhole, Zenon
  <2>6. /\ pc'[p] = "publish" /\ me'[p].tmp = f /\ me'[p].art = me[p].art
        /\ me'[p].key = me[p].key /\ me'[p].doc = me[p].doc
        /\ me'[p].ctx = me[p].ctx /\ me'[p].seg = me[p].seg
    <3> HIDE DEF f
    <3> QED
      BY <1>1, <2>3, <2>5 DEF Holds, Memory, Typed, TypeInv, ScratchInv
  <2> QED
    BY <1>2, <2>1, <2>6
       DEF Made, Restoring, Keyed, Imaged, Based, Archived, Sealing, Written
<1>8. CASE Publish(p)
  BY <1>8 DEF Publish, Leave, Ended, Typed, ScratchInv
<1> QED
  BY <1>4, <1>5, <1>6, <1>7, <1>8

\* A step of one process.
LEMMA FreshMoves ==
  ASSUME Typed, FreshInv, NEW p \in Procs, Moves(p), Record({p})
  PROVE  FreshInv'
<1> USE DEF cacheVars, outVars
<1>1. /\ Alone(p) /\ suspectKeys \subseteq suspectKeys' /\ disturbed \subseteq disturbed'
      /\ Start(p) \/ Fetch(p) \/ Step(p) \/ Kill(p)
  BY MovesAre, AloneStep DEF Typed, Record
<1>2. UNCHANGED stack /\ dead \subseteq dead'
  BY <1>1 DEF Start, Fetch, FetchCheck, FetchOpen, FetchClose, FetchVerify, Kill, Step,
     Failure, EnsureKernel, KernelCheck, KernelSource, KernelOpen, KernelClose,
     KernelVerify, EnsureAgent, AgentCheck, AgentDrop, AgentRename, AgentSidecar, AgentSha,
     Join, Bake, Key, RestoreOpen, RestoreNext, RestoreClose, RestoreFails, Images, Base,
     AssembleOpen, AssembleClose, BaseStore, Pack, WriteOpen, WriteClose, StoreCopy, Publish
<1>3. ASSUME p \in Builders, (Alive(p) /\ p \notin disturbed)'
      PROVE  Made(p)'
  <2>1. p \notin dead /\ p \notin disturbed /\ pc'[p] \notin Ended /\ p \notin dead'
    BY <1>1, <1>2, <1>3 DEF Alive
  <2>2. ~Inherits(p)
    BY <1>3 DEF Record
  <2>3. CASE Start(p)
    <3>1. /\ UNCHANGED <<stack, src>> /\ pc'[p] = "kernel"
          /\ me'[p].doc = src[stack[p]]
      BY <1>3, <2>1, <2>3, BuildAssumption
         DEF Start, Ended, Holds, Memory, Typed, TypeInv, ScratchInv, BuildAssumption
    <3> QED
      BY <3>1 DEF Made, Restoring, Keyed, Imaged, Based, Archived, Sealing, Written
  <2>4. CASE Kill(p)
    BY <2>1, <2>4 DEF Kill
  <2>5. CASE Fetch(p) \/ Step(p)
    <3>1. Alive(p)
      <4>1. CASE Fetch(p)
        BY <2>1, <4>1, NoneIsNoString DEF Fetch, FetchCheck, FetchOpen, FetchClose,
           FetchVerify, Alive, Ended, Typed, ScratchInv
      <4>2. CASE Step(p)
        BY <2>1, <4>2 DEF Alive, Ended, Step, Failure, Fallible, EnsureKernel, KernelCheck,
           KernelSource, KernelOpen, KernelClose, KernelVerify, EnsureAgent, AgentCheck,
           AgentDrop, AgentRename, AgentSidecar, AgentSha, Join, Bake, Key, RestoreOpen,
           RestoreNext, RestoreClose, RestoreFails, Images, Base, AssembleOpen,
           AssembleClose, BaseStore, Pack, WriteOpen, WriteClose, StoreCopy, Publish
      <4> QED
        BY <2>5, <4>1, <4>2
    <3>2. Made(p) /\ SoundBase /\ FreshUnlessDisturbed
      BY <1>3, <2>1, <3>1 DEF FreshInv
    <3> QED
      BY <1>1, <1>3, <2>1, <2>2, <2>5, <3>2, MadeFetch, MadePrepare, MadeRestore,
         MadeAssemble, MadePack DEF Step, Bake
  <2> QED
    BY <1>1, <2>3, <2>4, <2>5
<1>4. ASSUME ~(p \in Builders /\ p \notin dead /\ (BaseStore(p) \/ Publish(p)))
      PROVE  UNCHANGED <<base, bake>>
  <2>1. CASE p \in dead
    BY <2>1 DEF Moves, Child, FetchOpen, FetchClose, AssembleOpen, AssembleClose
  <2>2. CASE p \notin dead
    BY <1>1, <1>4, <2>2 DEF Start, Fetch, FetchCheck, FetchOpen, FetchClose, FetchVerify,
       Kill, Step, Failure, EnsureKernel, KernelCheck, KernelSource, KernelOpen,
       KernelClose, KernelVerify, EnsureAgent, AgentCheck, AgentDrop, AgentRename,
       AgentSidecar, AgentSha, Join, Bake, Key, RestoreOpen, RestoreNext, RestoreClose,
       RestoreFails, Images, Base, AssembleOpen, AssembleClose, Pack, WriteOpen,
       WriteClose, StoreCopy
  <2> QED
    BY <2>1, <2>2
<1>5. CASE p \in Builders /\ p \notin dead /\ (BaseStore(p) \/ Publish(p))
  <2>1. p \notin disturbed => Made(p)
    BY <1>5 DEF FreshInv, Alive, Ended, BaseStore, Publish
  <2>2. CASE BaseStore(p)
    <3>1. pc[p] = "assembled" /\ base' \in {base, me[p].seg} /\ UNCHANGED bake
      BY <2>2 DEF BaseStore
    <3>2. p \notin disturbed => me[p].seg = Pinned
      BY <2>1, <3>1 DEF Made, Based, Archived
    <3> QED
      BY <1>1, <1>2, <1>3, <3>1, <3>2, FreshKeep
  <2>3. CASE Publish(p)
    <3>1. /\ pc[p] = "publish" /\ bake' \ bake \subseteq {me[p].tmp}
          /\ UNCHANGED base
      BY <2>3 DEF Publish
    <3>2. p \notin disturbed => me[p].tmp = Fresh(stack[p], src[stack[p]])
      BY <2>1, <3>1 DEF Made
    <3>3. \A e \in bake' \ bake : p \in disturbed \/ e = Fresh(e.key.name, e.key.tree)
      BY <3>1, <3>2, FreshInputs
    <3> QED
      BY <1>1, <1>2, <1>3, <3>1, <3>3, FreshKeep
  <2> QED
    BY <1>5, <2>2, <2>3
<1> QED
  BY <1>1, <1>2, <1>3, <1>4, <1>5, FreshKeep

LEMMA FreshInit == Init => FreshInv
<1> SUFFICES ASSUME Init
             PROVE  FreshInv
  OBVIOUS
<1>1. \A p \in Procs : pc[p] \in {"idle", "done"}
  BY DEF Init
<1>2. \A p \in Builders : ~Alive(p)
  BY <1>1 DEF Alive, Ended, Procs
<1>3. base = None /\ bake = {}
  BY DEF Init
<1> QED
  BY <1>2, <1>3 DEF FreshInv, SoundBase, FreshUnlessDisturbed

LEMMA FreshNext == Typed /\ FreshInv /\ [Next]_vars => FreshInv'
<1> SUFFICES ASSUME Typed, FreshInv, [Next]_vars
             PROVE  FreshInv'
  OBVIOUS
<1>1. ASSUME Record({}), UNCHANGED <<stack, pc, fetch, me, base, bake, dead>>
      PROVE  FreshInv'
  <2>1. ASSUME NEW q \in Builders, (Alive(q) /\ q \notin disturbed)'
        PROVE  Made(q)'
    BY <1>1, <2>1, MadeOthers
  <2>2. SoundBase' /\ FreshUnlessDisturbed'
    BY <1>1 DEF FreshInv, SoundBase, FreshUnlessDisturbed, Record
  <2> QED
    BY <2>1, <2>2 DEF FreshInv
<1>2. ASSUME NEW n \in Names, Edit(n), Record({})
      PROVE  FreshInv'
  BY <1>1, <1>2 DEF Edit, cacheVars
<1>3. CASE Reads /\ Record({})
  BY <1>1, <1>3 DEF Reads, ReadManifest, RunArtifact, VerifyArtifact, Reader, cacheVars
<1>4. CASE UNCHANGED vars
  BY <1>4 DEF vars, cacheVars, outVars, suspicions, FreshInv, SoundBase,
              FreshUnlessDisturbed, Made, Alive
<1> QED
  BY <1>2, <1>3, <1>4, FreshMoves DEF Next

\* Every entry of the bake cache is whole and is what a fresh bake of the inputs in
\* its key makes, unless the build that left it had its sources, its outputs, the
\* kernel or the downloads changed under it, or took over a base segment left by
\* such a one: for any number of builds, edits and kills, on a cold, a warm or a torn
\* cache (cmd_build, compute_cache_key, ensure_kernel, fetch_verify, cache_store).
THEOREM BakeCacheFresh == Spec => []FreshUnlessDisturbed
<1>1. FreshInv => FreshUnlessDisturbed
  BY DEF FreshInv
<1> QED
  BY <1>1, FreshInit, FreshNext, BuildTyped, PTL DEF Spec

\* Only a restore and the end of a bake end a build in success.
LEMMA BuildEnds ==
  ASSUME Typed, NEW q \in Builders, Moves(q), pc[q] # "done", pc'[q] = "done"
  PROVE  q \notin dead /\ (RestoreClose(q) \/ StoreCopy(q) \/ Publish(q))
<1> USE DEF Procs, Typed, ScratchInv
<1>1. CASE q \in dead
  BY <1>1 DEF Moves, Child, FetchOpen, FetchClose, AssembleOpen, AssembleClose
<1>2. ASSUME q \notin dead
      PROVE  RestoreClose(q) \/ StoreCopy(q) \/ Publish(q)
  <2>1. CASE Start(q) \/ Kill(q) \/ Fetch(q) \/ Failure(q) \/ Join(q)
    BY <2>1, BuildAssumption DEF Start, Kill, Fetch, FetchCheck, FetchOpen, FetchClose,
       FetchVerify, Failure, Join, Fails, Leave, BuildAssumption
  <2>2. CASE EnsureKernel(q)
    BY <2>2 DEF EnsureKernel, KernelCheck, KernelSource, KernelOpen, KernelClose,
       KernelVerify, Fails, Leave
  <2>3. CASE EnsureAgent(q)
    BY <2>3 DEF EnsureAgent, AgentCheck, AgentDrop, AgentRename, AgentSidecar, AgentSha,
       Fails, Leave
  <2>4. CASE Key(q)
    <3>1. To(q, "restore") \/ To(q, "agent")
      BY <2>4, Zenon DEF Key, FullBake
    <3> QED
      BY <3>1
  <2>5. CASE Base(q)
    <3>1. To(q, "failed") \/ To(q, "assemble")
      BY <2>5, Zenon DEF Base, Fails, Leave
    <3> QED
      BY <3>1
  <2>6. CASE \/ RestoreOpen(q) \/ RestoreNext(q) \/ RestoreFails(q) \/ Images(q)
             \/ AssembleOpen(q) \/ AssembleClose(q) \/ BaseStore(q) \/ Pack(q)
             \/ WriteOpen(q) \/ WriteClose(q)
    BY <2>6 DEF RestoreOpen, RestoreNext, RestoreFails, FullBake, Images, AssembleOpen,
       AssembleClose, BaseStore, Pack, WriteOpen, WriteClose
  <2> QED
    BY <2>1, <2>2, <2>3, <2>4, <2>5, <2>6, MovesAre DEF Step, Bake
<1> QED
  BY <1>1, <1>2

\* On the same condition a build that succeeds leaves the artifact and the archive
\* of the sources it was given, from the cache or from a full bake (cmd_build,
\* cache_restore).
THEOREM BuildsDeliver == Spec => DeliversUnlessDisturbed
<1> DEFINE Delivers ==
      \A p \in Builders :
        pc[p] # "done" /\ pc'[p] = "done" /\ p \notin disturbed' =>
          LET n == stack[p] IN
            /\ art'[n].man = Fresh(n, src[n]).art /\ art'[n].data = art'[n].man
            /\ initramfs'[n].data = Fresh(n, src[n]).initramfs
<1>1. ASSUME Typed, FreshInv, [Next]_vars
      PROVE  Delivers \/ UNCHANGED vars
  <2> SUFFICES ASSUME NEW q \in Builders, pc[q] # "done", pc'[q] = "done",
                      q \notin disturbed'
               PROVE  LET n == stack[q] IN
                        /\ art'[n].man = Fresh(n, src[n]).art /\ art'[n].data = art'[n].man
                        /\ initramfs'[n].data = Fresh(n, src[n]).initramfs
    OBVIOUS
  <2> DEFINE n == stack[q]
             f == Fresh(n, src[n])
  <2>1. n \in Names /\ q \in Procs
    BY <1>1 DEF Typed, TypeInv, Procs
  <2>2. PICK p \in Procs : Moves(p) /\ Record({p})
    BY <1>1 DEF Next, vars, Edit, Reads, ReadManifest, RunArtifact, VerifyArtifact, Reader
  <2>3. p = q
    BY <1>1, <2>1, <2>2, MovesAre, AloneStep DEF Alone, Typed
  <2>4. q \notin dead /\ (RestoreClose(q) \/ StoreCopy(q) \/ Publish(q))
    BY <1>1, <2>2, <2>3, BuildEnds
  <2>5. q \notin disturbed /\ ~Inherits(q)
    BY <2>2, <2>3 DEF Record
  <2>6. Made(q)
    <3>1. Alive(q)
      BY <2>4 DEF RestoreClose, StoreCopy, Publish, Alive, Ended
    <3> QED
      BY <1>1, <2>5, <3>1 DEF FreshInv
  <2>7. CASE RestoreClose(q)
    <3>1. PICK e \in Baked(me[q].key) :
            initramfs' = [initramfs EXCEPT ![n] = Closed(initramfs[n], q, e.initramfs)]
      BY <2>7 DEF RestoreClose
    <3>2. pc[q] = "unpacking" /\ pc[q] \in Restoring /\ UNCHANGED art
      BY <2>7 DEF RestoreClose, Restoring
    <3>3. me[q].key \notin suspectKeys
      BY <2>5, <3>2 DEF Inherits
    <3>4. e = f /\ e.initramfs \in ArchiveData
      BY <1>1, <2>6, <3>2, <3>3, FreshEntry DEF FreshInv
    <3>5. initramfs[n].last = q /\ art[n].man = f.art /\ art[n].data = f.art
      BY <2>6, <3>2, <3>3 DEF Made
    <3>6. /\ initramfs'[n] = Closed(initramfs[n], q, e.initramfs)
          /\ initramfs[n] \in FileOf(ArchiveData)
          /\ {None, Torn} \subseteq ArchiveData
      BY <1>1, <2>1, <3>1 DEF Typed, TypeInv, ArchiveData
    <3>7. initramfs'[n].data = e.initramfs
      <4> HIDE DEF f
      <4> QED
        BY <2>1, <3>4, <3>5, <3>6, ClosedFile
    <3> QED
      BY <3>2, <3>4, <3>5, <3>7
  <2>8. CASE StoreCopy(q) \/ Publish(q)
    <3>1. pc[q] \in Written /\ UNCHANGED <<art, initramfs>>
      BY <2>8 DEF StoreCopy, Publish, Written, outVars
    <3> QED
      BY <2>6, <3>1 DEF Made, Written, Sealing, Archived
  <2> QED
    BY <2>4, <2>7, <2>8
<1>2. Typed /\ FreshInv /\ [Next]_vars => [Delivers]_vars
  BY <1>1
<1> QED
  BY <1>2, FreshInit, FreshNext, BuildTyped, PTL DEF Spec, DeliversUnlessDisturbed
=============================================================================
