---------------------------- MODULE SourceMirror ----------------------------
(***************************************************************************)
(* The source mirror (appcare/revision): a revision is a manifest captured *)
(* from a live source tree, and the mirror is a sealed copy of its files   *)
(* that several processes may try to make while the source changes.        *)
(*                                                                         *)
(* Files are numbered in the order of their paths.  A digest is the        *)
(* content it is taken from; a write may bring an earlier content back, so *)
(* that equal digests do not say that nothing was written in between.  A   *)
(* staging directory that a crash leaves is under a random name and is     *)
(* never read again: it is not modelled.                                   *)
(***************************************************************************)
EXTENDS Integers, Sequences, FiniteSets

CONSTANTS FileCount,      \* the files of the source tree
          SubDirectories, \* its directories below the root
          DirectoryOf,    \* the directory of each file, or the root
          AllowedFiles,   \* the files whose names the mirror's policy allows
          PlainContents,  \* what a file may hold
          SecretContents, \* what it may hold with a secret in it
          Capturers,      \* processes that capture the same revision
          MaxWrites,      \* bound on the writes to the source
          MaxMirrorFaults \* bound on crashes and failing system calls

MirrorFiles == 1..FileCount
NoFile == "absent"
Contents == PlainContents \cup SecretContents \cup {NoFile}

ASSUME MirrorAssumption ==
    /\ FileCount \in Nat \ {0} /\ MaxWrites \in Nat /\ MaxMirrorFaults \in Nat
    /\ AllowedFiles \subseteq MirrorFiles
    /\ DOMAIN DirectoryOf = MirrorFiles
    /\ PlainContents \cap SecretContents = {} /\ NoFile \notin PlainContents \cup SecretContents

VARIABLES
    source,    \* the source tree: the content of each file and its stat
    revision,  \* the manifest of the captured revision, in a set
    claimed,   \* is there a claim file?
    final,     \* the directory under the mirror's own name, in a set
    capturer,  \* what each process is doing
    returned,  \* the receipts that captures returned
    writes, mirrorFaults

mirrorVars == <<source, revision, claimed, final, capturer, returned, writes, mirrorFaults>>

\* A captured revision is the manifest of a tree.
Revisions == [MirrorFiles -> Contents]
NoCopies == [f \in MirrorFiles |-> NoFile]

\* What a reader of the source sees of a file; its stat is a number that a
\* write may leave as it was.
ContentOf(file) == file.content

Idle == [at |-> "idle", seen |-> <<>>, file |-> 1, stat |-> 0, copies |-> NoCopies,
         result |-> "none"]

Doing(p, step) == capturer[p].at = step
Becomes(p, changed) == capturer' = [capturer EXCEPT ![p] = changed]
Continues(p, step) == Becomes(p, [capturer[p] EXCEPT !.at = step])
EndsWith(p, result) == Becomes(p, [Idle EXCEPT !.result = result])
Manifest == CHOOSE m \in revision : TRUE

\* A receipt names its mirror and the digest of what was copied, and its mirror
\* holds all of it, or what a removal has left.
MirrorReceipt(p) == [by |-> p, digest |-> capturer[p].copies]
Mirror(receipt, holds) == [receipt |-> receipt, holds |-> holds]

\* The files that the policy lets into the mirror.
Enters(f) == f \in AllowedFiles /\ Manifest[f] # NoFile

\* The file's stat is that from before it was first read.
SameStat(p, f) == source[f].stat = capturer[p].stat
Fault == mirrorFaults < MaxMirrorFaults /\ mirrorFaults' = mirrorFaults + 1

MirrorInit ==
    /\ source \in [MirrorFiles -> [content : Contents, stat : {0}]]
    /\ revision = {} /\ claimed = FALSE /\ final = {} /\ returned = {}
    /\ capturer = [p \in Capturers |-> Idle]
    /\ writes = 0 /\ mirrorFaults = 0

-----------------------------------------------------------------------------
(* The source tree changes under the capture *)

\* A write in place may restore the size and the time of the file.
WriteSource(f, c, restored) ==
    /\ writes < MaxWrites /\ writes' = writes + 1
    /\ source' = [source EXCEPT
          ![f] = [content |-> c, stat |-> IF restored THEN @.stat ELSE writes + 1]]
    /\ UNCHANGED <<revision, claimed, final, capturer, returned, mirrorFaults>>

-----------------------------------------------------------------------------
(* FilesystemBaselineCapturer.capture, one file after the other *)

BeginRevision(p) ==
    /\ Doing(p, "idle") /\ revision = {} /\ \A q \in Capturers : Doing(q, "idle")
    /\ Continues(p, "revise")
    /\ UNCHANGED <<source, revision, claimed, final, returned, writes, mirrorFaults>>

BeginCapture(p) ==
    /\ Doing(p, "idle") /\ revision # {}
    /\ Becomes(p, [Idle EXCEPT !.at = "before"])
    /\ UNCHANGED <<source, revision, claimed, final, returned, writes, mirrorFaults>>

Captured(p) == Append(capturer[p].seen, ContentOf(source[Len(capturer[p].seen) + 1]))

ReadFile(p) ==
    /\ capturer[p].at \in {"revise", "before", "after"}
    /\ Len(capturer[p].seen) + 1 < FileCount
    /\ Becomes(p, [capturer[p] EXCEPT !.seen = Captured(p)])
    /\ UNCHANGED <<source, revision, claimed, final, returned, writes, mirrorFaults>>

ReadLast(p, step) == Doing(p, step) /\ Len(capturer[p].seen) + 1 = FileCount

EndRevision(p) ==
    /\ ReadLast(p, "revise")
    /\ revision' = {Captured(p)}
    /\ EndsWith(p, "none")
    /\ UNCHANGED <<source, claimed, final, returned, writes, mirrorFaults>>

\* The capture before the mirror must find the revision's manifest.
CaptureBefore(p) ==
    /\ ReadLast(p, "before")
    /\ IF Captured(p) = Manifest THEN Continues(p, "look") ELSE EndsWith(p, "changed")
    /\ UNCHANGED <<source, revision, claimed, final, returned, writes, mirrorFaults>>

\* And so must the capture after it, or the mirror is removed.  What the source
\* held in between is not asked.
CaptureAfter(p) ==
    /\ ReadLast(p, "after")
    /\ Continues(p, IF Captured(p) = Manifest THEN "bind" ELSE "empty")
    /\ UNCHANGED <<source, revision, claimed, final, returned, writes, mirrorFaults>>

-----------------------------------------------------------------------------
(* ImmutableSourceMirror._capture_impl *)

RefuseReplay(p) ==
    /\ Doing(p, "look")
    /\ IF final = {} THEN Continues(p, "claim") ELSE EndsWith(p, "refused")
    /\ UNCHANGED <<source, revision, claimed, final, returned, writes, mirrorFaults>>

CreateClaim(p) ==
    /\ Doing(p, "claim")
    /\ IF claimed THEN EndsWith(p, "refused") ELSE Continues(p, "scan")
    /\ claimed' = TRUE
    /\ UNCHANGED <<source, revision, final, returned, writes, mirrorFaults>>

Advance(p, copies) ==
    Becomes(p, [capturer[p] EXCEPT
        !.copies = copies, !.file = @ + 1,
        !.at = IF capturer[p].file = FileCount THEN "seal" ELSE "scan"])

\* The first pass over a file hashes it and looks for secrets.  A file with
\* one is left out; if it is not the manifest's, unless its size tells first.
ScanFile(p) ==
    /\ Doing(p, "scan")
    /\ LET f == capturer[p].file
           same == ContentOf(source[f]) = Manifest[f]
       IN  \/ /\ ~Enters(f) \/ source[f].content \in SecretContents
              /\ Advance(p, capturer[p].copies)
           \/ /\ Enters(f) /\ same /\ source[f].content \in PlainContents
              /\ Becomes(p, [capturer[p] EXCEPT !.at = "copy", !.stat = source[f].stat])
           \/ /\ Enters(f) /\ ~same
              /\ Continues(p, "clean")
    /\ UNCHANGED <<source, revision, claimed, final, returned, writes, mirrorFaults>>

\* Mutant: the second pass trusts the file's stat.
CopyByStat(p) ==
    /\ Doing(p, "copy")
    /\ LET f == capturer[p].file
       IN  IF SameStat(p, f) /\ source[f].content # NoFile
             THEN Advance(p, [capturer[p].copies EXCEPT ![f] = ContentOf(source[f])])
             ELSE Continues(p, "clean")
    /\ UNCHANGED <<source, revision, claimed, final, returned, writes, mirrorFaults>>

\* The second pass copies the file; it must hash to the same, and its stat
\* must be that from before the first pass.
CopyFile(p) ==
    /\ Doing(p, "copy")
    /\ LET f == capturer[p].file
       IN  IF ContentOf(source[f]) = Manifest[f] /\ SameStat(p, f)
             THEN Advance(p, [capturer[p].copies EXCEPT ![f] = Manifest[f]])
             ELSE Continues(p, "clean")
    /\ UNCHANGED <<source, revision, claimed, final, returned, writes, mirrorFaults>>

SealStaging(p) ==
    /\ Doing(p, "seal")
    /\ Continues(p, "promote")
    /\ UNCHANGED <<source, revision, claimed, final, returned, writes, mirrorFaults>>

\* Mutant: a mirror that exists under the name is not in the way.
PromoteBeside(p) ==
    /\ Doing(p, "promote")
    /\ final' = final \cup {Mirror(MirrorReceipt(p), "all")}
    /\ Continues(p, "verify")
    /\ UNCHANGED <<source, revision, claimed, returned, writes, mirrorFaults>>

\* rename fails over a directory that holds anything.
PromoteMirror(p) ==
    /\ Doing(p, "promote")
    /\ IF \A m \in final : m.holds = "nothing"
         THEN Continues(p, "verify") /\ final' = {Mirror(MirrorReceipt(p), "all")}
         ELSE Continues(p, "clean") /\ UNCHANGED final
    /\ UNCHANGED <<source, revision, claimed, returned, writes, mirrorFaults>>

\* verify: every copy is as the manifest says, and every directory leads to one.
Verifies(mirror) ==
    /\ mirror.holds = "all"
    /\ \A f \in MirrorFiles :
          mirror.receipt.digest[f] \in {NoFile, Manifest[f]} \ SecretContents
    /\ \A d \in SubDirectories : \E f \in MirrorFiles : DirectoryOf[f] = d /\ mirror.receipt.digest[f] # NoFile

ValidReceipt(receipt) == \E m \in final : m.receipt = receipt /\ Verifies(m)

Verify(p) ==
    /\ Doing(p, "verify")
    /\ Continues(p, IF ValidReceipt(MirrorReceipt(p)) THEN "unclaim" ELSE "empty")
    /\ UNCHANGED <<source, revision, claimed, final, returned, writes, mirrorFaults>>

\* The claim is gone before the source is captured again.
Unclaim(p) ==
    /\ Doing(p, "unclaim")
    /\ claimed' = FALSE
    /\ Becomes(p, [capturer[p] EXCEPT !.at = "after", !.seen = <<>>])
    /\ UNCHANGED <<source, revision, final, returned, writes, mirrorFaults>>

\* with_mirror reads the mirror again; if it does not verify, the call fails
\* and leaves the mirror where it is.
WithMirror(p) ==
    /\ Doing(p, "bind")
    /\ LET bound == ValidReceipt(MirrorReceipt(p))
       IN  /\ returned' = IF bound THEN returned \cup {MirrorReceipt(p)} ELSE returned
           /\ Becomes(p, [capturer[p] EXCEPT !.at = "release",
                              !.result = IF bound THEN "returned" ELSE "failed"])
    /\ UNCHANGED <<source, revision, claimed, final, writes, mirrorFaults>>

-----------------------------------------------------------------------------
(* Cleaning up: _remove_pinned_entry empties what it opened by name, and   *)
(* removes the name only if it still stands for that.                      *)

EmptiedMirror(holds) == final' = {Mirror(m.receipt, holds) : m \in final}

\* The entries go one by one.
EmptySome(p) ==
    /\ Doing(p, "empty")
    /\ EmptiedMirror("some")
    /\ UNCHANGED <<source, revision, claimed, capturer, returned, writes, mirrorFaults>>

EmptyFinal(p) ==
    /\ Doing(p, "empty")
    /\ EmptiedMirror("nothing")
    /\ Continues(p, "remove")
    /\ UNCHANGED <<source, revision, claimed, returned, writes, mirrorFaults>>

RemoveFinal(p) ==
    /\ Doing(p, "remove")
    /\ final' = {m \in final : m.receipt.by # p}
    /\ Continues(p, "clean")
    /\ UNCHANGED <<source, revision, claimed, returned, writes, mirrorFaults>>

\* Mutant: cleaning up takes the mirror's name with the staging directory.
CleanAll(p) ==
    /\ Doing(p, "clean")
    /\ final' = {}
    /\ Becomes(p, [capturer[p] EXCEPT !.at = "release", !.result = "failed"])
    /\ UNCHANGED <<source, revision, claimed, returned, writes, mirrorFaults>>

RemoveStaging(p) ==
    /\ Doing(p, "clean")
    /\ Becomes(p, [capturer[p] EXCEPT !.at = "release", !.result = "failed"])
    /\ UNCHANGED <<source, revision, claimed, final, returned, writes, mirrorFaults>>

\* finally: the claim file is removed again, whoever made it.
Release(p) ==
    /\ Doing(p, "release")
    /\ claimed' = FALSE
    /\ EndsWith(p, capturer[p].result)
    /\ UNCHANGED <<source, revision, final, returned, writes, mirrorFaults>>

-----------------------------------------------------------------------------
(* Faults *)

\* A system call fails: before the claim there is nothing to clean up; a mirror
\* that cannot be read back, or whose source cannot be captured again, is
\* removed, if it can be.
MirrorCallFails(p) ==
    /\ Fault
    /\ \/ capturer[p].at \in {"revise", "before", "claim"} /\ EndsWith(p, "failed")
       \/ capturer[p].at \in {"scan", "copy", "seal", "promote", "empty", "remove"}
             /\ Continues(p, "clean")
       \/ capturer[p].at \in {"verify", "after"} /\ Continues(p, "empty")
    /\ UNCHANGED <<source, revision, claimed, final, returned, writes>>

\* The claim cannot be removed, or the live authority has gone: the call fails
\* but what it promoted stays.
LateCallFails(p) ==
    /\ Fault
    /\ capturer[p].at \in {"unclaim", "bind"}
    /\ Becomes(p, [capturer[p] EXCEPT !.at = "release", !.result = "failed"])
    /\ UNCHANGED <<source, revision, claimed, final, returned, writes>>

CapturerDies(p) ==
    /\ Fault
    /\ ~Doing(p, "idle")
    /\ EndsWith(p, "failed")
    /\ UNCHANGED <<source, revision, claimed, final, returned, writes>>

MirrorNext ==
    \/ \E f \in MirrorFiles, c \in Contents, restored \in BOOLEAN : WriteSource(f, c, restored)
    \/ \E p \in Capturers :
          \/ BeginRevision(p) \/ EndRevision(p)
          \/ BeginCapture(p) \/ ReadFile(p) \/ CaptureBefore(p) \/ CaptureAfter(p)
          \/ RefuseReplay(p) \/ CreateClaim(p) \/ ScanFile(p) \/ CopyFile(p)
          \/ SealStaging(p) \/ PromoteMirror(p) \/ Verify(p) \/ Unclaim(p) \/ WithMirror(p)
          \/ EmptySome(p) \/ EmptyFinal(p) \/ RemoveFinal(p) \/ RemoveStaging(p)
          \/ Release(p) \/ MirrorCallFails(p) \/ LateCallFails(p) \/ CapturerDies(p)

MirrorSpec == MirrorInit /\ [][MirrorNext]_mirrorVars

-----------------------------------------------------------------------------
(* Properties *)

\* Every variable has its type, and there is one mirror and one receipt at most.
MirrorTypeOK ==
    /\ source \in [MirrorFiles -> [content : Contents, stat : 0..MaxWrites]]
    /\ revision \subseteq Revisions
    /\ claimed \in BOOLEAN
    /\ Cardinality(final) <= 1 /\ Cardinality(returned) <= 1
    /\ \A m \in final : m.receipt.by \in Capturers /\ m.holds \in {"all", "some", "nothing"}
    /\ \A p \in Capturers : capturer[p].file \in 1..(FileCount + 1)
    /\ writes \in 0..MaxWrites /\ mirrorFaults \in 0..MaxMirrorFaults

\* However the source changes, and whichever processes crash, fail or lose
\* their claim to another, a directory under a mirror's name holds the files
\* of its revision and no secret, as long as a removal has left any of them
\* (_copy_file, os.replace).
SealedMirrorIsOfRevision ==
    \A m \in final : m.holds # "nothing" => \A f \in MirrorFiles :
        m.receipt.digest[f] \in {NoFile, Manifest[f]} \ SecretContents

\* A mirror that a capture returned stays whole under its name, whatever other
\* captures of the revision, begun before or after it, promote and clean up
\* (_replace_staging, _remove_pinned_entry and the committed flag of
\* _capture_impl).
ReturnedMirrorStands == \A receipt \in returned : final = {Mirror(receipt, "all")}
=============================================================================
