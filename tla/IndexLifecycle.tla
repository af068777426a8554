--------------------------- MODULE IndexLifecycle ---------------------------
(***************************************************************************)
(* The index directory: segments written file by file, tombstones, merges, *)
(* generations, and the process that opens it after a crash.               *)
(*                                                                         *)
(* One process owns the directory and its calls are synchronous, so what   *)
(* makes them hard is where a crash cuts them.  A document is a number,    *)
(* its place in static-rank order, and a segment's content the sequence of *)
(* documents in docID order; a file is the number of the build that wrote  *)
(* it.  "terms" and "docs" stand for the four checksummed files.           *)
(***************************************************************************)
EXTENDS Integers, Sequences, FiniteSets, SequencesExt

CONSTANTS
  Docs,       \* a set of numbers
  Batches,    \* the batches add_documents is given
  MaxBuilds,  \* bound: how many segments are ever built
  MaxClock    \* bound: seconds

ASSUME DocsType == Docs \subseteq Nat
ASSUME BatchesType == Batches \subseteq Seq(Docs)
ASSUME IndexBoundsType == MaxBuilds \in Nat /\ MaxClock \in Nat

VARIABLES
  dirs,       \* the segment directories that exist
  disk,       \* what their files hold
  deadOn,     \* what their deletes.bin says; nothing if empty or missing
  genFile,    \* generation.json, as the names it lists
  content,    \* what each build wrote
  clock,      \* seconds, which name a merged segment
  mem,        \* Index.segments
  op,         \* the call in progress, or "closed": no process
  tombs,      \* history: the tombstones delete() has returned True for
  kept,       \* history: the documents added and not deleted since
  clobbered   \* history: directories that were written over

diskVars == <<dirs, disk, deadOn, genFile>>
historyVars == <<tombs, kept, clobbered>>
vars == <<diskVars, content, clock, mem, op, historyVars>>

-----------------------------------------------------------------------------
Torn == MaxBuilds + 1
NoGen == [is |-> "none", names |-> <<>>]
TornGen == [is |-> "torn", names |-> <<>>]

\* "seg_0003" and "seg_merged_<second>"
SegName(n) == <<"seg", n>>
MergedName == <<"seg_merged", clock>>
Names == {SegName(n) : n \in 0 .. MaxBuilds} \cup
         ({"seg_merged"} \X (0 .. MaxClock))

\* The order of directory names: digits sort before letters.
NameRank == [n \in Names |-> IF n[1] = "seg" THEN n[2] ELSE MaxBuilds + 1 + n[2]]

\* The members of a set by their rank.
ByRank(S, rank) ==
  CHOOSE f \in [1 .. Cardinality(S) -> S] :
    IsInjective(f) /\ \A i, j \in DOMAIN f : i < j => rank[f[i]] <= rank[f[j]]

\* write_segment writes them in this order.
FileOrder == <<"terms", "docs", "deletes", "manifest">>
Files == {"terms", "docs", "manifest"}
NoFiles == [f \in Files |-> 0]

Idle == [at |-> "idle"]
Closed == [at |-> "closed"]
Builds == 1 .. Len(content)

Loaded(name, build, dead) == [name |-> name, build |-> build, dead |-> dead]

\* The live documents of the segments, as <<segment, docID>>.
LiveOf(segs) ==
  UNION {{k} \X (1 .. Len(content[segs[k].build]) \ segs[k].dead) : k \in 1 .. Len(segs)}

DocAt(segs, x) == content[segs[x[1]].build][x[2]]

\* What a query can return, each document as often as it is there.
Served(segs) == [d \in Docs |-> Cardinality({x \in LiveOf(segs) : DocAt(segs, x) = d})]

Segments == [name : Names, build : Builds, dead : SUBSET Nat]
Ops ==
  {Idle, Closed, [at |-> "publish"]} \cup
  [at : {"write"}, name : Names, file : 1 .. Len(FileOrder) + 1, kind : {"add", "merge"}] \cup
  [at : {"flush"}, name : Names, k : Nat, doc : Docs, id : Nat] \cup
  [at : {"remove"}, names : Seq(Names)]

\* What is on disk and in memory; no file is left where a directory was removed, and
\* there are no more segments than were built (index.py).
TypeOK ==
  /\ dirs \subseteq Names
  /\ disk \in [Names -> [Files -> 0 .. Torn]]
  /\ \A n \in Names \ dirs : disk[n] = NoFiles /\ deadOn[n] = {}
  /\ deadOn \in [Names -> SUBSET Nat]
  /\ genFile \in [is : {"none", "torn", "listed"}, names : Seq(Names)]
  /\ content \in Seq(Seq(Docs)) /\ Len(content) <= MaxBuilds
  /\ clock \in 0 .. MaxClock
  /\ mem \in Seq(Segments)
  /\ op \in Ops
  /\ op.at = "write" => op.name \in dirs
  /\ op.at = "flush" => op.k \in 1 .. Len(mem)
  /\ Len(mem) + (IF op.at = "write" THEN 1 ELSE 0) <= Len(content)
  /\ Len(genFile.names) <= Len(content)
  /\ IsFiniteSet(dirs) /\ Cardinality(dirs) <= Len(content)
  /\ tombs \subseteq Builds \X Nat
  /\ kept \subseteq Docs
  /\ clobbered \subseteq Names

Init ==
  /\ dirs = {}
  /\ disk = [n \in Names |-> NoFiles]
  /\ deadOn = [n \in Names |-> {}]
  /\ genFile = NoGen
  /\ content = <<>>
  /\ clock = 0
  /\ mem = <<>>
  /\ op = Idle
  /\ tombs = {}
  /\ kept = {}
  /\ clobbered = {}

-----------------------------------------------------------------------------
(* write_segment, for add_documents and for merge.                         *)

StartWrite(name, docs, kind) ==
  /\ Len(content) < MaxBuilds
  /\ content' = Append(content, docs)
  /\ dirs' = dirs \cup {name}
  /\ clobbered' = clobbered \cup ({name} \cap dirs)
  /\ op' = [at |-> "write", name |-> name, file |-> 1, kind |-> kind]
  /\ UNCHANGED <<disk, deadOn, genFile, clock, mem, tombs, kept>>

\* add_documents: the segment is named by how many there are.
AddDocuments(batch) ==
  /\ op = Idle
  /\ StartWrite(SegName(Len(mem)), batch, "add")

\* Faulty variant: tombstones are not looked at.
MergedWithDead(segs) ==
  LET places == UNION {{k} \X (1 .. Len(content[segs[k].build])) : k \in 1 .. Len(segs)}
      order == ByRank(places, [x \in places |-> DocAt(segs, x)])
  IN  [i \in 1 .. Cardinality(places) |-> DocAt(segs, order[i])]

\* merge_segments: the live documents of every segment, by static rank.
Merged(segs) ==
  LET order == ByRank(LiveOf(segs), [x \in LiveOf(segs) |-> DocAt(segs, x)])
  IN  [i \in 1 .. Cardinality(LiveOf(segs)) |-> DocAt(segs, order[i])]

\* Faulty variant: the inputs make room for the output.
MergeInPlace ==
  /\ op = Idle
  /\ mem # <<>>
  /\ Len(content) < MaxBuilds
  /\ content' = Append(content, Merged(mem))
  /\ dirs' = {MergedName}
  /\ disk' = [n \in Names |-> NoFiles]
  /\ deadOn' = [n \in Names |-> {}]
  /\ op' = [at |-> "write", name |-> MergedName, file |-> 1, kind |-> "merge"]
  /\ UNCHANGED <<genFile, clock, mem, historyVars>>

Merge ==
  /\ op = Idle
  /\ mem # <<>>
  /\ StartWrite(MergedName, Merged(mem), "merge")

WriteFile ==
  /\ op.at = "write"
  /\ op.file <= Len(FileOrder)
  /\ LET f == FileOrder[op.file]
     IN  IF f = "deletes"
         THEN deadOn' = [deadOn EXCEPT ![op.name] = {}] /\ UNCHANGED disk
         ELSE disk' = [disk EXCEPT ![op.name][f] = Len(content)] /\ UNCHANGED deadOn
  /\ op' = [op EXCEPT !.file = @ + 1]
  /\ UNCHANGED <<dirs, genFile, content, clock, mem, historyVars>>

AddDone ==
  /\ op.at = "write" /\ op.file > Len(FileOrder) /\ op.kind = "add"
  /\ mem' = Append(mem, Loaded(op.name, Len(content), {}))
  /\ kept' = kept \cup ToSet(Last(content))
  /\ op' = Idle
  /\ UNCHANGED <<diskVars, content, clock, tombs, clobbered>>

\* Index.merge: the output is loaded, and only then are the inputs removed.
MergeDone ==
  /\ op.at = "write" /\ op.file > Len(FileOrder) /\ op.kind = "merge"
  /\ mem' = <<Loaded(op.name, Len(content), {})>>
  /\ op' = [at |-> "remove", names |-> [i \in 1 .. Len(mem) |-> mem[i].name]]
  /\ UNCHANGED <<diskVars, content, clock, historyVars>>

RemoveDir ==
  /\ op.at = "remove"
  /\ op.names # <<>>
  /\ LET n == Head(op.names)
     IN  /\ dirs' = dirs \ {n}
         /\ disk' = [disk EXCEPT ![n] = NoFiles]
         /\ deadOn' = [deadOn EXCEPT ![n] = {}]
  /\ op' = [op EXCEPT !.names = Tail(@)]
  /\ UNCHANGED <<genFile, content, clock, mem, historyVars>>

RemoveDone ==
  /\ op.at = "remove"
  /\ op.names = <<>>
  /\ op' = Idle
  /\ UNCHANGED <<diskVars, content, clock, mem, historyVars>>

-----------------------------------------------------------------------------
(* Tombstones and generations.                                             *)

\* delete_external looks at the first entry with the id only.
FirstEntry(seg, d) ==
  {i \in 1 .. Len(content[seg.build]) :
     /\ content[seg.build][i] = d
     /\ \A j \in 1 .. i - 1 : content[seg.build][j] # d}

\* Index.delete stops at the first segment that marks the document; one that
\* finds nothing to mark changes nothing.
Delete(d) ==
  /\ op = Idle
  /\ \E k \in 1 .. Len(mem) : \E i \in FirstEntry(mem[k], d) \ mem[k].dead :
       /\ \A j \in 1 .. k - 1 : FirstEntry(mem[j], d) \subseteq mem[j].dead
       /\ mem' = [mem EXCEPT ![k].dead = @ \cup {i}]
       /\ op' = [at |-> "flush", name |-> mem[k].name, k |-> k, doc |-> d, id |-> i]
  /\ kept' = kept \ {d}
  /\ UNCHANGED <<diskVars, content, clock, tombs, clobbered>>

\* Faulty variant: only the new tombstone is written.
FlushOne ==
  /\ op.at = "flush"
  /\ deadOn' = [deadOn EXCEPT ![op.name] = {op.id}]
  /\ tombs' = tombs \cup {<<mem[op.k].build, op.id>>}
  /\ op' = Idle
  /\ UNCHANGED <<dirs, disk, genFile, content, clock, mem, kept, clobbered>>

\* flush_deletes, after which delete() returns True.  The directory may be
\* gone, and then the write raises.
Flush ==
  /\ op.at = "flush"
  /\ IF op.name \in dirs
     THEN /\ deadOn' = [deadOn EXCEPT ![op.name] = mem[op.k].dead]
          /\ tombs' = tombs \cup {<<mem[op.k].build, op.id>>}
     ELSE UNCHANGED <<deadOn, tombs>>
  /\ op' = Idle
  /\ UNCHANGED <<dirs, disk, genFile, content, clock, mem, kept, clobbered>>

Publish ==
  /\ op = Idle
  /\ op' = [at |-> "publish"]
  /\ UNCHANGED <<diskVars, content, clock, mem, historyVars>>

PublishDone ==
  /\ op.at = "publish"
  /\ genFile' = [is |-> "listed", names |-> [i \in 1 .. Len(mem) |-> mem[i].name]]
  /\ op' = Idle
  /\ UNCHANGED <<dirs, disk, deadOn, content, clock, mem, historyVars>>

-----------------------------------------------------------------------------
(* A crash, and opening the directory again.                               *)

\* What the cut call may have left: a file that was opened for writing is
\* empty, and a directory that was being removed has any of its files left.
CutFiles ==
  \/ UNCHANGED <<disk, deadOn, genFile>>
  \/ /\ op.at = "write" /\ op.file <= Len(FileOrder)
     /\ LET f == FileOrder[op.file]
        IN  IF f = "deletes"
            THEN deadOn' = [deadOn EXCEPT ![op.name] = {}] /\ UNCHANGED disk
            ELSE disk' = [disk EXCEPT ![op.name][f] = Torn] /\ UNCHANGED deadOn
     /\ UNCHANGED genFile
  \/ /\ op.at = "flush" /\ op.name \in dirs
     /\ deadOn' = [deadOn EXCEPT ![op.name] = {}]
     /\ UNCHANGED <<disk, genFile>>
  \/ /\ op.at = "publish"
     /\ genFile' = TornGen
     /\ UNCHANGED <<disk, deadOn>>
  \/ /\ op.at = "remove" /\ op.names # <<>>
     /\ \E gone \in SUBSET Files, dead \in {{}, deadOn[Head(op.names)]} :
          /\ disk' = [disk EXCEPT ![Head(op.names)] =
                        [f \in Files |-> IF f \in gone THEN 0 ELSE @[f]]]
          /\ deadOn' = [deadOn EXCEPT ![Head(op.names)] = dead]
     /\ UNCHANGED genFile

Crash ==
  /\ op # Closed
  /\ CutFiles
  /\ op' = Closed
  /\ mem' = <<>>
  /\ UNCHANGED <<dirs, content, clock, historyVars>>

\* The files of a build match a manifest when their checksums do.
Same(x, build) == x \in Builds /\ content[x] = content[build]

\* Segment.__init__: no manifest is SegmentCorrupt, a missing file is
\* FileNotFoundError, and a checksum that differs is SegmentCorrupt.
Verdict(n) ==
  LET files == disk[n]
  IN  IF files.manifest \notin Builds THEN "corrupt"
      ELSE IF files.terms = 0 \/ files.docs = 0 THEN "missing"
      ELSE IF /\ Same(files.terms, files.manifest)
              /\ Same(files.docs, files.manifest) THEN "whole"
      ELSE "corrupt"

\* The generation's segments or, without one, every directory by name.
Named == IF genFile = NoGen THEN ByRank(dirs, NameRank) ELSE genFile.names

\* reload(): a segment that misses a file is left out, a corrupt one or an
\* unreadable generation raises and the index does not open.
Open ==
  /\ op = Closed
  /\ genFile # TornGen
  /\ \A i \in 1 .. Len(Named) : Verdict(Named[i]) # "corrupt"
  /\ LET whole == {i \in 1 .. Len(Named) : Verdict(Named[i]) = "whole"}
         order == ByRank(whole, [i \in whole |-> i])
     IN  mem' = [i \in 1 .. Cardinality(whole) |->
                   LET n == Named[order[i]] IN Loaded(n, disk[n].manifest, deadOn[n])]
  /\ op' = Idle
  /\ UNCHANGED <<diskVars, content, clock, historyVars>>

OpenRaises ==
  /\ op = Closed
  /\ \/ genFile = TornGen
     \/ \E i \in 1 .. Len(Named) : Verdict(Named[i]) = "corrupt"
  /\ UNCHANGED vars

Tick ==
  /\ clock < MaxClock
  /\ clock' = clock + 1
  /\ UNCHANGED <<diskVars, content, mem, op, historyVars>>

-----------------------------------------------------------------------------
Next ==
  \/ \E batch \in Batches : AddDocuments(batch)
  \/ Merge \/ WriteFile \/ AddDone \/ MergeDone \/ RemoveDir \/ RemoveDone
  \/ \E d \in Docs : Delete(d)
  \/ Flush \/ Publish \/ PublishDone
  \/ Crash \/ Open \/ OpenRaises
  \/ Tick

Spec == Init /\ [][Next]_vars

-----------------------------------------------------------------------------
(* What holds.                                                             *)

\* Between calls the directory holds what is served: every loaded segment is
\* on disk, whole and with its tombstones, unless it was written over.
ServedIsOnDisk ==
  op = Idle =>
    \A i \in 1 .. Len(mem) :
      LET seg == mem[i]
      IN  \/ seg.name \in clobbered
          \/ /\ seg.name \in dirs
             /\ Verdict(seg.name) = "whole"
             /\ disk[seg.name].manifest = seg.build
             /\ deadOn[seg.name] = seg.dead

\* No crash takes an added document off the disk: wherever it cuts an addition,
\* a merge or the removal of a merge's inputs, some whole segment still has the
\* document live, as long as no directory was written over.
AddedStaysOnDisk ==
  clobbered = {} =>
    \A d \in kept : \E n \in dirs :
      /\ Verdict(n) = "whole"
      /\ LET c == content[disk[n].manifest]
         IN  \E i \in 1 .. Len(c) : c[i] = d /\ i \notin deadOn[n]

\* A merge changes no answer: the documents served are the same ones, each as
\* often as before, and no deleted one comes back.
MergeKeepsServed ==
  [][op.at = "write" /\ op'.at = "remove" => Served(mem)' = Served(mem)]_vars

-----------------------------------------------------------------------------
(* What a comment says, and the code does not do.                          *)

\* "Persisted eagerly because this is a compliance surface: a removal that is
\* only in memory has not happened" (Segment.delete): a tombstone delete() has
\* returned True for is there whenever its segment is loaded again.
RemovalSurvives ==
  \A i \in 1 .. Len(mem) :
    {x[2] : x \in {y \in tombs : y[1] = mem[i].build}} \subseteq mem[i].dead
=============================================================================
