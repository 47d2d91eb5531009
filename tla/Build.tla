------------------------------- MODULE Build -------------------------------
(***************************************************************************)
(* `tdvmm build`, `tdvmm doctor` and `tdvmm run` on one cache directory.   *)
(* Every process takes its own steps between the others': they share the   *)
(* kernel, the agent binary, the downloads, the base segment, the bake     *)
(* cache, the outputs of each stack and the scratch directories.  A        *)
(* process can be killed between any two steps; a container it started may *)
(* outlive it.  Nothing keeps two builds apart: there is no lock.          *)
(*                                                                         *)
(* A file's content is what it was made from.  A file written in place is  *)
(* Torn from its truncation until its last writer is through.              *)
(***************************************************************************)
EXTENDS Naturals, FiniteSets

CONSTANTS
  Builders,     \* the invocations of `tdvmm build`
  Doctor,       \* the invocation of `tdvmm doctor`, which warms the caches
  Names,        \* stack names
  Assignments,  \* which stack each invocation builds: the cases to look at
  Crews,        \* which of the invocations there are: the cases to look at
  Findings,     \* how the caches are found: the cases to look at
  MaxEdits,     \* bound: edits of a stack's sources
  MaxKills,     \* bound: processes killed
  Torn,         \* content that is not what any writer meant
  None

\* Content that has its pin.
Pinned == "pinned"

\* Where a download is.
Fetches == {"check", "open", "write", "verify", "ok", "bad"}

ASSUME BuildAssumption ==
  /\ Doctor \notin Builders
  /\ Assignments \subseteq [Builders -> Names]
  /\ Crews \subseteq SUBSET (Builders \cup {Doctor})
  /\ Findings \subseteq {"cold", "torn", "warm"}
  /\ None \notin Fetches /\ Pinned \notin {None, Torn}
  /\ MaxEdits \in Nat /\ MaxKills \in Nat

Procs == Builders \cup {Doctor}

VARIABLES
  stack,     \* the stack each builder builds
  src,       \* src[n]: version of the sources of stack n
  pc,        \* where each process is
  fetch,     \* fetch[p]: where its download is
  me,        \* me[p]: what the process holds in memory
  kernel,    \* kernel/vmlinux-<version>
  download,  \* the pinned downloads: the kernel's source, the base's parts
  agentBin,  \* agent/tdvmm-agent-<key>
  agentSum,  \* its sidecar
  base,      \* base-runtime/<key>
  initramfs, \* bake/initramfs-alpine-<n>.cpio.gz
  art,       \* artifacts/<n>.tdvmm
  bake,      \* bake/<key>: the entries there are
  scratch,   \* the owners of the scratch directories there are
  runner,    \* a reader of an artifact: where it is, the manifest it read, and what
             \* the one before it vouched for
  dead,      \* the processes that were killed
  edits,
  sealed,       \* history: every artifact that was sealed
  disturbed,    \* history: the builds under which something of theirs changed
  suspectBase,  \* history: a disturbed build left the base segment
  suspectKeys   \* history: the entries of the bake cache disturbed builds left

cacheVars == <<kernel, download, agentBin, agentSum, base, bake>>
outVars == <<initramfs, art>>
suspicions == <<disturbed, suspectBase, suspectKeys>>
vars == <<stack, src, pc, fetch, me, cacheVars, outVars, scratch, runner, dead, edits,
          sealed, suspicions>>
-----------------------------------------------------------------------------
(* Files. *)

\* A file nobody wrote yet.
NoFile == [data |-> None, last |-> None, want |-> None]
NoArtifact == [man |-> None, data |-> None, last |-> None, want |-> None]

\* File::create, fs::copy, wget -O: truncate, then write c.
Opened(f, p, c) == [f EXCEPT !.data = Torn, !.last = p, !.want = c]

\* An artifact starts with its manifest.
Begun(f, p, man) == [Opened(f, p, man) EXCEPT !.man = man]

\* The writer is through.  The last one to truncate the file leaves what it
\* wrote; the bytes of an earlier one go into the same file, and spoil it unless
\* they are the same, also for a last one that has not finished.
Closed(f, p, c) ==
  IF f.last = p THEN [f EXCEPT !.data = c, !.last = None, !.want = None]
  ELSE IF c \in {f.data, f.want} THEN f
  ELSE [f EXCEPT !.data = Torn, !.last = None, !.want = None]

\* A process's memory when it holds nothing.
Empty == [doc |-> None, ctx |-> None, key |-> None, nocache |-> FALSE,
          hit |-> FALSE, seg |-> None, art |-> None, tmp |-> None]

NoReader == [pc |-> "idle", name |-> None, man |-> None, vouched |-> None]

\* The caches are cold, warm, or as an earlier build left them that was killed
\* while it replaced the kernel.
Init ==
  /\ stack \in Assignments
  /\ src = [n \in Names |-> 0]
  /\ \E crew \in Crews : pc = [p \in Procs |-> IF p \in crew THEN "idle" ELSE "done"]
  /\ fetch = [p \in Procs |-> None]
  /\ me = [p \in Procs |-> Empty]
  /\ \E found \in Findings :
       LET made == IF found = "cold" THEN None ELSE Pinned
       IN /\ kernel = [NoFile EXCEPT !.data = IF found = "torn" THEN Torn ELSE made]
          /\ download = [w \in {"source", "base"} |-> [NoFile EXCEPT !.data = made]]
          /\ agentBin = made /\ agentSum = made /\ base = None
  /\ initramfs = [n \in Names |-> NoFile] /\ art = [n \in Names |-> NoArtifact]
  /\ bake = {} /\ scratch = {}
  /\ runner = NoReader
  /\ dead = {} /\ edits = 0 /\ sealed = {}
  /\ disturbed = {} /\ suspectBase = FALSE /\ suspectKeys = {}
-----------------------------------------------------------------------------
(* Processes. *)

Ended == {"idle", "done", "failed", "killed"}
Alive(p) == pc[p] \notin Ended /\ p \notin dead
At(p, where) == pc[p] = where
To(p, where) == pc' = [pc EXCEPT ![p] = where]
Holds(p, m) == me' = [me EXCEPT ![p] = m]

\* The process returns: its guards remove its scratch directories.
Leave(p, where) ==
  /\ To(p, where)
  /\ Holds(p, Empty)
  /\ fetch' = [fetch EXCEPT ![p] = None]
  /\ scratch' = scratch \ {p}

\* A container, the network or the disk fails: `?` ends the command.
Fails(p) == Leave(p, "failed")

\* Where a step of the container engine, the network or the disk can fail.
Fallible == {"kbuild", "kcopy", "abuild", "asum", "images", "base", "assemble",
             "assembling", "assembled", "pack", "write", "writing"}

\* The scope of the downloads waits for them before it returns an error.
Failure(p) ==
  /\ pc[p] \in Fallible
  /\ At(p, "images") => fetch[p] \in {"ok", "bad"}
  /\ Fails(p)
  /\ UNCHANGED <<stack, src, cacheVars, outVars, runner, dead, edits, sealed>>

\* The containers of a process that write to a shared path: the download and the
\* assembling.  Nothing ties their life to its own (engine::command, unshare).
HasChild(p) == fetch[p] \in {"open", "write"} \/ pc[p] \in {"assemble", "assembling"}

\* SIGKILL: memory is gone, everything on disk stays as it is.  A child may go
\* on with what it was given.
Kill(p) ==
  /\ Alive(p) /\ Cardinality(dead) < MaxKills
  /\ dead' = dead \cup {p}
  /\ IF HasChild(p) THEN UNCHANGED <<pc, me, fetch>>
     ELSE To(p, "killed") /\ Holds(p, Empty) /\ fetch' = [fetch EXCEPT ![p] = None]
  /\ UNCHANGED <<stack, src, cacheVars, outVars, scratch, runner, edits, sealed>>

\* Someone edits the sources of a stack.
Edit(n) ==
  /\ edits < MaxEdits
  /\ src' = [src EXCEPT ![n] = @ + 1] /\ edits' = edits + 1
  /\ UNCHANGED <<stack, pc, fetch, me, cacheVars, outVars, scratch, runner, dead,
                 sealed>>

\* cmd_build reads and validates the compose file; `tdvmm doctor` has none.
Start(p) ==
  /\ At(p, "idle")
  /\ \/ /\ Holds(p, [me[p] EXCEPT !.doc = IF p = Doctor THEN None ELSE src[stack[p]]])
        /\ To(p, "kernel")
     \/ p \in Builders /\ To(p, "failed") /\ UNCHANGED me
  /\ UNCHANGED <<stack, src, fetch, cacheVars, outVars, scratch, runner, dead, edits, sealed>>
-----------------------------------------------------------------------------
(* fetch_verify. *)

\* What the process downloads: the kernel's source, later the base's parts.
Wanted(p) == IF At(p, "ksrc") THEN "source" ELSE "base"

\* The pin decides.
Verdict(p) == IF download[Wanted(p)].data = Pinned THEN "ok" ELSE "bad"

\* A file that is there is not fetched again.  The container's settings are in
\* a scratch directory.
FetchCheck(p) ==
  /\ fetch[p] = "check"
  /\ IF download[Wanted(p)].data = None
     THEN fetch' = [fetch EXCEPT ![p] = "open"] /\ scratch' = scratch \cup {p}
     ELSE fetch' = [fetch EXCEPT ![p] = Verdict(p)] /\ UNCHANGED scratch
  /\ UNCHANGED <<stack, src, pc, me, cacheVars, outVars, runner, dead, edits, sealed>>

\* A bake has its work directory by the time it downloads.
HasWork(p) == p \in Builders /\ ~At(p, "ksrc")

\* wget in the container, straight to the destination.
FetchOpen(p) ==
  /\ fetch[p] = "open"
  /\ fetch' = [fetch EXCEPT ![p] = "write"]
  /\ download' = [download EXCEPT ![Wanted(p)] = Opened(@, p, Pinned)]
  /\ UNCHANGED <<stack, src, pc, me, kernel, agentBin, agentSum, base, bake, outVars,
                 scratch, runner, dead, edits, sealed>>

\* It ends, or fails half-way and leaves the file as it is.
FetchClose(p) ==
  /\ fetch[p] = "write"
  /\ \/ /\ fetch' = [fetch EXCEPT ![p] = "verify"]
        /\ download' = [download EXCEPT ![Wanted(p)] = Closed(@, p, Pinned)]
     \/ fetch' = [fetch EXCEPT ![p] = "bad"] /\ UNCHANGED download
  /\ scratch' = IF HasWork(p) \/ p \in dead THEN scratch ELSE scratch \ {p}
  /\ UNCHANGED <<stack, src, pc, me, kernel, agentBin, agentSum, base, bake, outVars,
                 runner, dead, edits, sealed>>

FetchVerify(p) ==
  /\ fetch[p] = "verify"
  /\ fetch' = [fetch EXCEPT ![p] = Verdict(p)]
  /\ UNCHANGED <<stack, src, pc, me, cacheVars, outVars, scratch, runner, dead,
                 edits, sealed>>

\* The thread is joined whatever came of it.
Joined(p) == fetch[p] \in {"ok", "bad"}
-----------------------------------------------------------------------------
(* ensure_kernel, build_kernel_container. *)

\* The pinned kernel is used; any other is built again.
KernelCheck(p) ==
  /\ At(p, "kernel")
  /\ IF kernel.data = Pinned
     THEN To(p, IF p = Doctor THEN "agent" ELSE "key") /\ UNCHANGED fetch
     ELSE To(p, "ksrc") /\ fetch' = [fetch EXCEPT ![p] = "check"]
  /\ UNCHANGED <<stack, src, me, cacheVars, outVars, scratch, runner, dead, edits, sealed>>

\* The source is there, and a scratch directory is made to compile it in, or
\* the command ends.
KernelSource(p) ==
  /\ At(p, "ksrc") /\ Joined(p)
  /\ IF fetch[p] = "bad" THEN Fails(p)
     ELSE /\ To(p, "kbuild") /\ fetch' = [fetch EXCEPT ![p] = None]
          /\ scratch' = scratch \cup {p} /\ UNCHANGED me
  /\ UNCHANGED <<stack, src, cacheVars, outVars, runner, dead, edits, sealed>>

\* Compiled in its scratch directory, then copied over the one in the cache.
KernelOpen(p) ==
  /\ At(p, "kbuild")
  /\ To(p, "kcopy") /\ kernel' = Opened(kernel, p, Pinned)
  /\ UNCHANGED <<stack, src, fetch, me, download, agentBin, agentSum, base, bake,
                 outVars, scratch, runner, dead, edits, sealed>>

KernelClose(p) ==
  /\ At(p, "kcopy")
  /\ To(p, "ksum") /\ kernel' = Closed(kernel, p, Pinned)
  /\ scratch' = scratch \ {p}
  /\ UNCHANGED <<stack, src, fetch, me, download, agentBin, agentSum, base, bake,
                 outVars, runner, dead, edits, sealed>>

\* The file in the cache is verified against the pin.
KernelVerify(p) ==
  /\ At(p, "ksum")
  /\ IF kernel.data = Pinned
     THEN To(p, IF p = Doctor THEN "agent" ELSE "key") /\ UNCHANGED <<fetch, me, scratch>>
     ELSE Fails(p)
  /\ UNCHANGED <<stack, src, cacheVars, outVars, runner, dead, edits, sealed>>
-----------------------------------------------------------------------------
(* The bake cache: compute_cache_key, cache_is_hit, cache_restore. *)

\* Mutant: the tree of the sources is left out of the key.
CacheKeyWithoutTree(n) == [name |-> n, tree |-> 0, kernel |-> kernel.data]

\* Mutant: the same directory built under another name has the same key.
CacheKeyWithoutName(n) == [name |-> None, tree |-> src[n], kernel |-> kernel.data]

\* The inputs that differ between two builds here: the stack's name, its
\* directory and the kernel.
CacheKey(n) == [name |-> n, tree |-> src[n], kernel |-> kernel.data]

\* The directory with every file of an entry.
Baked(key) == {e \in bake : e.key = key}

\* Mutant: whatever is not its own is stale.
SweepOthers(p) == scratch \cap {p}

\* sweep_stale_scratch keeps the directories whose process is there.
Swept(p) == {q \in scratch : Alive(q)}

\* A full bake starts with the sweep.
FullBake(p) == To(p, "agent") /\ scratch' = Swept(p)

\* The cache is looked up, by-passed with --no-cache, or off for want of a key.
Key(p) ==
  /\ At(p, "key")
  /\ \E cache \in {"on", "no-cache", "off"} :
       LET key == IF cache = "off" THEN None ELSE CacheKey(stack[p])
       IN /\ Holds(p, [me[p] EXCEPT !.key = key, !.nocache = cache = "no-cache"])
          /\ IF cache = "on" /\ Baked(key) # {}
             THEN To(p, "restore") /\ UNCHANGED scratch
             ELSE FullBake(p)
  /\ UNCHANGED <<stack, src, fetch, cacheVars, outVars, runner, dead, edits, sealed>>

\* The entry is copied over the outputs, the artifact first.
RestoreOpen(p) ==
  /\ At(p, "restore")
  /\ \E e \in Baked(me[p].key) : art' = [art EXCEPT ![stack[p]] = Begun(@, p, e.art)]
  /\ To(p, "restoring")
  /\ UNCHANGED <<stack, src, fetch, me, cacheVars, initramfs, scratch, runner, dead,
                 edits, sealed>>

RestoreNext(p) ==
  /\ At(p, "restoring")
  /\ \E e \in Baked(me[p].key) :
       /\ art' = [art EXCEPT ![stack[p]] = Closed(@, p, e.art)]
       /\ initramfs' = [initramfs EXCEPT ![stack[p]] = Opened(@, p, e.initramfs)]
  /\ To(p, "unpacking")
  /\ UNCHANGED <<stack, src, fetch, me, cacheVars, scratch, runner, dead, edits, sealed>>

RestoreClose(p) ==
  /\ At(p, "unpacking")
  /\ \E e \in Baked(me[p].key) :
       initramfs' = [initramfs EXCEPT ![stack[p]] = Closed(@, p, e.initramfs)]
  /\ Leave(p, "done")
  /\ UNCHANGED <<stack, src, cacheVars, art, runner, dead, edits, sealed>>

\* A copy that fails leaves it to a full bake.
RestoreFails(p) ==
  /\ pc[p] \in {"restore", "restoring", "unpacking"}
  /\ FullBake(p)
  /\ UNCHANGED <<stack, src, fetch, me, cacheVars, outVars, runner, dead, edits, sealed>>
-----------------------------------------------------------------------------
(* ensure_agent.  An empty sidecar counts as none. *)

\* A binary that has its sum is used; any other is removed.
AgentCheck(p) ==
  /\ At(p, "agent")
  /\ \/ agentBin = None /\ To(p, "abuild") /\ scratch' = scratch \cup {p}
     \/ agentBin # None /\ agentSum = agentBin /\ To(p, "asha") /\ UNCHANGED scratch
     \/ agentBin # None /\ agentSum # agentBin /\ To(p, "adrop") /\ UNCHANGED scratch
  /\ UNCHANGED <<stack, src, fetch, me, cacheVars, outVars, runner, dead, edits, sealed>>

\* First the binary, then its sum; then it is built again.
AgentDrop(p) ==
  /\ \/ /\ At(p, "adrop") /\ To(p, "adropsum")
        /\ agentBin' = None /\ UNCHANGED <<agentSum, scratch>>
     \/ /\ At(p, "adropsum") /\ To(p, "abuild")
        /\ agentSum' = None /\ scratch' = scratch \cup {p} /\ UNCHANGED agentBin
  /\ UNCHANGED <<stack, src, fetch, me, kernel, download, base, bake, outVars,
                 runner, dead, edits, sealed>>

\* Built under a name of its own and renamed; the sum follows.
AgentRename(p) ==
  /\ At(p, "abuild")
  /\ To(p, "asum") /\ agentBin' = Pinned
  /\ UNCHANGED <<stack, src, fetch, me, kernel, download, agentSum, base, bake,
                 outVars, scratch, runner, dead, edits, sealed>>

AgentSidecar(p) ==
  /\ At(p, "asum")
  /\ To(p, "asha") /\ agentSum' = Pinned
  /\ scratch' = scratch \ {p}
  /\ UNCHANGED <<stack, src, fetch, me, kernel, download, agentBin, base, bake,
                 outVars, runner, dead, edits, sealed>>

\* A build hashes the binary, if it is still there, and makes its work
\* directory; both go on to the downloads.
AgentSha(p) ==
  /\ At(p, "asha")
  /\ IF p \in Builders /\ agentBin = None THEN Fails(p)
     ELSE /\ To(p, IF p = Doctor THEN "join" ELSE "images")
          /\ fetch' = [fetch EXCEPT ![p] = "check"]
          /\ scratch' = IF p = Doctor THEN scratch ELSE scratch \cup {p}
          /\ UNCHANGED me
  /\ UNCHANGED <<stack, src, cacheVars, outVars, runner, dead, edits, sealed>>
-----------------------------------------------------------------------------
(* The bake. *)

\* bake_all, build_one, the seed store, the lock and the binds, all in the work
\* directory, from the build contexts as they are now.
Images(p) ==
  /\ At(p, "images")
  /\ Holds(p, [me[p] EXCEPT !.ctx = src[stack[p]]])
  /\ To(p, "join")
  /\ UNCHANGED <<stack, src, fetch, cacheVars, outVars, scratch, runner, dead,
                 edits, sealed>>

\* The downloads are joined; the pre-warm ends with them.
Join(p) ==
  /\ At(p, "join") /\ Joined(p)
  /\ \/ fetch[p] = "bad" /\ Fails(p)
     \/ fetch[p] = "ok" /\ p = Doctor /\ Leave(p, "done")
     \/ /\ fetch[p] = "ok" /\ p \in Builders
        /\ To(p, "base") /\ fetch' = [fetch EXCEPT ![p] = None]
        /\ UNCHANGED <<me, scratch>>
  /\ UNCHANGED <<stack, src, cacheVars, outVars, runner, dead, edits, sealed>>

\* The base segment: the cached one, or built from the agent and the downloads
\* as they are on disk by now.
Base(p) ==
  /\ At(p, "base")
  /\ LET hit == ~me[p].nocache /\ base # None
     IN IF ~hit /\ (agentBin = None \/ download["base"].data = None) THEN Fails(p)
        ELSE /\ Holds(p, [me[p] EXCEPT !.hit = hit,
                         !.seg = IF hit THEN base ELSE download["base"].data])
             /\ To(p, "assemble") /\ UNCHANGED <<fetch, scratch>>
  /\ UNCHANGED <<stack, src, cacheVars, outVars, runner, dead, edits, sealed>>

\* What the archive is made from.
Archive(n, m) == [name |-> n, lock |-> m.doc, images |-> m.ctx, base |-> m.seg]

\* cmd_assemble_initramfs, in a process of its own, writes the archive in place.
AssembleOpen(p) ==
  /\ At(p, "assemble")
  /\ initramfs' = [initramfs EXCEPT ![stack[p]] = Opened(@, p, Archive(stack[p], me[p]))]
  /\ To(p, "assembling")
  /\ UNCHANGED <<stack, src, fetch, me, cacheVars, art, scratch, runner, dead,
                 edits, sealed>>

AssembleClose(p) ==
  /\ At(p, "assembling")
  /\ initramfs' = [initramfs EXCEPT ![stack[p]] = Closed(@, p, Archive(stack[p], me[p]))]
  /\ To(p, "assembled")
  /\ UNCHANGED <<stack, src, fetch, me, cacheVars, art, scratch, runner, dead,
                 edits, sealed>>

\* base_cache_store: a rename onto an entry that is there is given up.
BaseStore(p) ==
  /\ At(p, "assembled")
  /\ base' = IF me[p].hit \/ base # None THEN base ELSE me[p].seg
  /\ To(p, "pack")
  /\ UNCHANGED <<stack, src, fetch, me, kernel, download, agentBin, agentSum, bake,
                 outVars, scratch, runner, dead, edits, sealed>>

\* ArtifactBuilder: the members, whose hashes the manifest freezes.
Seal(n, lock, k, i) == [name |-> n, lock |-> lock, kernel |-> k, initramfs |-> i]

\* pack_tdvmm reads its own lock, and the kernel and the archive from the
\* paths all builds share, and seals them.
Pack(p) ==
  /\ At(p, "pack")
  /\ LET a == Seal(stack[p], me[p].doc, kernel.data, initramfs[stack[p]].data)
     IN /\ Holds(p, [me[p] EXCEPT !.art = a])
        /\ sealed' = sealed \cup {a}
  /\ To(p, "write")
  /\ UNCHANGED <<stack, src, fetch, cacheVars, outVars, scratch, runner, dead,
                 edits>>

\* The artifact is written in place, the manifest first.
WriteOpen(p) ==
  /\ At(p, "write")
  /\ art' = [art EXCEPT ![stack[p]] = Begun(@, p, me[p].art)]
  /\ To(p, "writing")
  /\ UNCHANGED <<stack, src, fetch, me, cacheVars, initramfs, scratch, runner, dead,
                 edits, sealed>>

WriteClose(p) ==
  /\ At(p, "writing")
  /\ art' = [art EXCEPT ![stack[p]] = Closed(@, p, me[p].art)]
  /\ To(p, "store")
  /\ UNCHANGED <<stack, src, fetch, me, cacheVars, initramfs, scratch, runner, dead,
                 edits, sealed>>

\* cache_store copies the outputs into a directory of its own, unless the
\* cache is off or has the entry.  It never fails the build.
StoreCopy(p) ==
  /\ At(p, "store")
  /\ \/ /\ me[p].key # None /\ Baked(me[p].key) = {}
        /\ Holds(p, [me[p] EXCEPT !.tmp = [key |-> me[p].key, art |-> art[stack[p]].data,
                                           initramfs |-> initramfs[stack[p]].data]])
        /\ To(p, "publish") /\ UNCHANGED <<fetch, scratch>>
     \/ Leave(p, "done")
  /\ UNCHANGED <<stack, src, cacheVars, outVars, runner, dead, edits, sealed>>

\* The rename: the first one wins.
Publish(p) ==
  /\ At(p, "publish")
  /\ bake' = IF Baked(me[p].key) = {} THEN bake \cup {me[p].tmp} ELSE bake
  /\ Leave(p, "done")
  /\ UNCHANGED <<stack, src, kernel, download, agentBin, agentSum, base, outVars,
                 runner, dead, edits, sealed>>
-----------------------------------------------------------------------------
(* The readers of an artifact: `tdvmm run`, `tdvmm verify`, `tdvmm inspect`. *)

\* resolve: a name is a file in the store.
Resolve(n) == art[n] # NoArtifact

\* Entries: what the members after the manifest hold when they are read.
Entries(n) == art[n].data

Reader(r) ==
  /\ runner' = r
  /\ UNCHANGED <<stack, src, pc, fetch, me, cacheVars, outVars, scratch, dead,
                 edits, sealed>>

\* The manifest, the first member, is read; cmd_inspect stops there.
ReadManifest(n) ==
  /\ runner.pc = "idle" /\ Resolve(n)
  /\ Reader([pc |-> "read", name |-> n, man |-> art[n].man, vouched |-> None])

\* Mutant: a run boots whatever it read.
VerifiesNothing(man, data) == TRUE

\* verify_members: every member has the hash the manifest gives it; a torn one
\* has the hash of none.
Verifies(man, data) == man = data /\ data # Torn

\* The reader ends, and vouches for what it checked.
Vouches(d) == [NoReader EXCEPT !.vouched = d]

\* read_for_run reads the other members into memory; cmd_run boots what
\* verifies, refuses the rest, and vouches for nothing under --no-verify.
RunArtifact ==
  /\ runner.pc = "read"
  /\ LET data == Entries(runner.name)
     IN \/ Verifies(runner.man, data) /\ Reader(Vouches(data))
        \/ Reader(NoReader)

\* artifact::verify hashes the members as it reads them; a report that is not
\* all_ok vouches for nothing.
VerifyReport(n, man) == IF Verifies(man, Entries(n)) THEN Entries(n) ELSE None

\* cmd_verify prints the report and ends.
VerifyArtifact ==
  /\ runner.pc = "read"
  /\ Reader(Vouches(VerifyReport(runner.name, runner.man)))
-----------------------------------------------------------------------------
Fetch(p) == FetchCheck(p) \/ FetchOpen(p) \/ FetchClose(p) \/ FetchVerify(p)

EnsureKernel(p) ==
  \/ KernelCheck(p) \/ KernelSource(p) \/ KernelOpen(p) \/ KernelClose(p)
  \/ KernelVerify(p)

EnsureAgent(p) ==
  \/ AgentCheck(p) \/ AgentDrop(p) \/ AgentRename(p) \/ AgentSidecar(p) \/ AgentSha(p)

Bake(p) ==
  \/ Key(p) \/ RestoreOpen(p) \/ RestoreNext(p) \/ RestoreClose(p) \/ RestoreFails(p)
  \/ Images(p) \/ Base(p) \/ AssembleOpen(p) \/ AssembleClose(p) \/ BaseStore(p)
  \/ Pack(p) \/ WriteOpen(p) \/ WriteClose(p) \/ StoreCopy(p) \/ Publish(p)

Step(p) ==
  \/ Failure(p) \/ EnsureKernel(p) \/ EnsureAgent(p) \/ Join(p)
  \/ p \in Builders /\ Bake(p)

\* What goes on without the process: its container.
Child(p) ==
  \/ FetchOpen(p) \/ FetchClose(p)
  \/ p \in Builders /\ (AssembleOpen(p) \/ AssembleClose(p))

Moves(p) ==
  IF p \in dead THEN Child(p) ELSE Start(p) \/ Fetch(p) \/ Step(p) \/ Kill(p)

Reads == (\E n \in Names : ReadManifest(n)) \/ RunArtifact \/ VerifyArtifact
-----------------------------------------------------------------------------
(* History. *)

\* What build q is made from or makes changes in this step.
ChangesUnder(q) ==
  \/ kernel' # kernel \/ download'["base"] # download["base"]
  \/ LET n == stack[q]
     IN src'[n] # src[n] \/ initramfs'[n] # initramfs[n] \/ art'[n] # art[n]

\* Build q takes over what a disturbed build left: the base, or an entry.
Inherits(q) ==
  \/ suspectBase /\ pc[q] = "base" /\ pc'[q] = "assemble" /\ me'[q].hit
  \/ me[q].key \in suspectKeys /\ pc[q] = "unpacking" /\ pc'[q] = "done"

\* A step of the processes in by, at most one, is recorded.
Record(by) ==
  /\ disturbed' = disturbed \cup {q \in Builders \ by : Alive(q) /\ ChangesUnder(q)}
                            \cup {q \in Builders \cap by : Inherits(q)}
  /\ suspectBase' = (suspectBase \/ (base' # base /\ by \cap disturbed # {}))
  /\ suspectKeys' = suspectKeys \cup
       IF by \cap disturbed = {} THEN {} ELSE {e.key : e \in bake' \ bake}

Next ==
  \/ \E p \in Procs : Moves(p) /\ Record({p})
  \/ \E n \in Names : Edit(n) /\ Record({})
  \/ Reads /\ Record({})

Spec == Init /\ [][Next]_vars
-----------------------------------------------------------------------------
\* What a build of these inputs, alone and never interrupted, makes.
Fresh(n, v) ==
  LET archive == [name |-> n, lock |-> v, images |-> v, base |-> Pinned]
  IN [key |-> [name |-> n, tree |-> v, kernel |-> Pinned], initramfs |-> archive,
      art |-> [name |-> n, lock |-> v, kernel |-> Pinned, initramfs |-> archive]]

\* "a hit reusing the prior `.tdvmm` is byte-identical to a fresh bake"
\* (bake.rs:192): the artifact in every entry of the bake cache is the one a
\* fresh bake of the inputs in its key makes (cmd_build, cache_store).
BakedIsFresh == \A e \in bake : e.art = Fresh(e.key.name, e.key.tree).art

\* An entry of the bake cache is complete and is what a fresh bake of the inputs
\* in its key makes, unless the sources, the kernel, the downloads or the outputs
\* of the build that left it changed under that build, or it built on a base
\* segment left by such a one.  Cold caches, kills, failures, torn files found
\* and builds of other stacks do no harm (cmd_build, compute_cache_key,
\* ensure_kernel, fetch_verify, cache_store).
FreshUnlessDisturbed ==
  \A e \in bake : e.key \notin suspectKeys => e = Fresh(e.key.name, e.key.tree)

\* A build that succeeds leaves the artifact of the sources it was given, from a
\* full bake or from the cache, on the same condition (cmd_build, cache_restore).
DeliversUnlessDisturbed ==
  [][\A p \in Builders :
       pc[p] # "done" /\ pc'[p] = "done" /\ p \notin disturbed' =>
         LET n == stack[p] IN
           /\ art'[n].man = Fresh(n, src[n]).art /\ art'[n].data = art'[n].man
           /\ initramfs'[n].data = Fresh(n, src[n]).initramfs]_vars

\* A run that verifies boots an artifact somebody sealed, whole, and `tdvmm
\* verify` vouches for no other, although artifacts are rewritten in place under
\* both (cmd_run, verify_members, verify).
VerifiedRunsBootSealed == runner.vouched # None => runner.vouched \in sealed

\* Nobody sweeps the scratch directory a running build works or downloads in
\* (sweep_stale_scratch, ScratchDir).
ScratchIsOwned ==
  \A p \in Procs \ dead :
    \/ fetch[p] \in {"open", "write"}
    \/ pc[p] \in {"kbuild", "kcopy", "abuild", "asum", "images", "base",
                  "assemble", "assembling", "assembled", "pack"}
    => p \in scratch
=============================================================================
