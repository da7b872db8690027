---------------------------- MODULE ReleaseProofs ----------------------------
(***************************************************************************)
(* Theorems about what a release decision rests on: the source mirror of   *)
(* its revision (SourceMirror), the approval of its patch (Remediation)    *)
(* and the rows of its readiness (Readiness).  They share no state.        *)
(*                                                                         *)
(* A mirror's name belongs to the process that promoted it last and has    *)
(* not finished, if there is one.  Only that process takes entries away    *)
(* under the name, and another takes the name over only when nothing is    *)
(* left.                                                                   *)
(*                                                                         *)
(* Remediation: a call that is alone sees every other call idle, and the   *)
(* workspace differs from the one it found by the changes it has made;     *)
(* while it takes them back, at most by those it has yet to take back      *)
(* (AloneOK), since an original is restored through a name that may itself *)
(* be one of the patch.  What passed validation is a patch whose id   *)
(* names its context (ValidationsOK), and a request is earned from the     *)
(* moment it exists (ReviewInv).                                           *)
(*                                                                         *)
(* Readiness: a decision with a ready level is of an assessment that       *)
(* earned it (DecisionOK), held, saved or served.                          *)
(***************************************************************************)
EXTENDS SourceMirror, Remediation, Readiness, FiniteSetTheorems, TLAPS

-----------------------------------------------------------------------------
(* SourceMirror *)

FileStates == [content : Contents, stat : 0..MaxWrites]
Copies == [MirrorFiles -> Contents]
MirrorStages == {"idle", "revise", "before", "look", "claim", "scan", "copy", "seal", "promote",
                 "verify", "unclaim", "after", "bind", "empty", "remove", "clean", "release"}
CapturerStates ==
    [at : MirrorStages, seen : Seq(Contents), file : 1..(FileCount + 1), stat : 0..MaxWrites,
     copies : Copies, result : {"none", "changed", "refused", "failed", "returned"}]

MirrorStateOK ==
    /\ source \in [MirrorFiles -> FileStates]
    /\ claimed \in BOOLEAN
    /\ capturer \in [Capturers -> CapturerStates]
    /\ writes \in 0..MaxWrites /\ mirrorFaults \in 0..MaxMirrorFaults

\* There is one revision at most, and nothing is mirrored before there is one.
RevisionOK ==
    \/ /\ revision = {} /\ final = {} /\ returned = {}
       /\ \A p \in Capturers : capturer[p].at \in {"idle", "revise"}
       /\ \A p, q \in Capturers : Doing(p, "revise") /\ Doing(q, "revise") => p = q
    \/ /\ revision = {Manifest} /\ Manifest \in Revisions
       /\ \A p \in Capturers : ~Doing(p, "revise")

\* What the files of a mirror may be.
OfRevision(copies) ==
    \A f \in MirrorFiles : /\ copies[f] = NoFile \/ copies[f] = Manifest[f]
                          /\ copies[f] \notin SecretContents

\* The stages at which a process answers for the mirror's name.
Promoted == {"verify", "unclaim", "after", "bind", "empty"}

ReadingOK(c) ==
    /\ c.at = "idle" => c.seen = <<>>
    /\ c.at \in {"revise", "before", "after"} => Len(c.seen) < FileCount
    /\ c.at \in {"before", "look", "claim", "scan", "copy"} => c.file <= FileCount
    /\ c.at = "copy" => Manifest[c.file] \notin SecretContents

CopiesOK(c) ==
    /\ c.at \in {"idle", "revise"} => c.copies = NoCopies
    /\ OfRevision(c.copies)

\* The mirror of process p when its state is c.
MirrorBy(p, c, holds) == Mirror([by |-> p, digest |-> c.copies], holds)

PlaceOK(p, c) ==
    /\ c.at \in Promoted \ {"empty"} => final = {MirrorBy(p, c, "all")}
    /\ c.at = "empty" => final = {MirrorBy(p, c, "all")} \/ final = {MirrorBy(p, c, "some")}
    /\ c.at = "remove" => \A m \in final : m.receipt.by = p => m.holds = "nothing"

CapturerOK(p, c) == ReadingOK(c) /\ CopiesOK(c) /\ PlaceOK(p, c)

FinalOK ==
    /\ final = {} \/ \E m \in final : final = {m}
    /\ \A m \in final : /\ m.receipt.by \in Capturers /\ m.holds \in {"all", "some", "nothing"}
                        /\ OfRevision(m.receipt.digest)

ReturnedOK ==
    \A receipt \in returned :
        /\ final = {Mirror(receipt, "all")}
        /\ \A p \in Capturers : capturer[p].at \notin Promoted

MirrorInv ==
    /\ MirrorStateOK /\ RevisionOK /\ FinalOK /\ ReturnedOK
    /\ \A p \in Capturers : CapturerOK(p, capturer[p])


LEMMA MirrorFacts ==
    /\ FileCount \in Nat \ {0} /\ MirrorFiles = 1..FileCount /\ MaxWrites \in Nat
    /\ NoFile \in Contents /\ NoFile \notin SecretContents
    /\ NoCopies \in Copies /\ OfRevision(NoCopies)
BY MirrorAssumption DEF MirrorFiles, Contents, NoCopies, Copies, OfRevision

LEMMA ContentOK ==
    ASSUME MirrorStateOK, NEW f \in MirrorFiles
    PROVE  ContentOf(source[f]) \in Contents /\ source[f].stat \in 0..MaxWrites
BY DEF MirrorStateOK, FileStates, ContentOf

\* An idle process, with any result.
LEMMA IdleState ==
    ASSUME NEW r \in {"none", "changed", "refused", "failed", "returned"}, NEW c,
           c = [Idle EXCEPT !.result = r]
    PROVE  /\ c \in CapturerStates /\ c.at = "idle" /\ c.copies = NoCopies /\ c.seen = <<>>
           /\ c.file = 1
  <1>1. Idle = [at |-> "idle", seen |-> <<>>, file |-> 1, stat |-> 0, copies |-> NoCopies,
                result |-> "none"]
    BY DEF Idle
  <1>2. NoCopies \in Copies /\ 0 \in 0..MaxWrites /\ 1 \in 1..(FileCount + 1) /\ <<>> \in Seq(Contents)
    BY MirrorFacts
  <1> QED BY <1>1, <1>2 DEF CapturerStates, MirrorStages

\* A process whose state becomes c.
LEMMA BecomesOK ==
    ASSUME MirrorStateOK, NEW p \in Capturers, NEW c \in CapturerStates, Becomes(p, c)
    PROVE  /\ capturer' \in [Capturers -> CapturerStates] /\ capturer'[p] = c
           /\ \A q \in Capturers \ {p} : capturer'[q] = capturer[q]
BY DEF MirrorStateOK, Becomes

LEMMA ManifestKept ==
    ASSUME UNCHANGED revision
    PROVE  Manifest' = Manifest
BY DEF Manifest

\* What is known of a state c stays known while the revision and what c answers
\* for stay.
LEMMA CapturerKept ==
    ASSUME UNCHANGED revision, NEW p \in Capturers, NEW c, CapturerOK(p, c),
           capturer'[p] = c,
           c.at \in Promoted => UNCHANGED final,
           c.at = "remove" => \A m \in final' : m.receipt.by = p => m.holds = "nothing"
    PROVE  CapturerOK(p, capturer[p])'
<1>0. Manifest' = Manifest
  BY ManifestKept
<1>1. ReadingOK(c) => ReadingOK(capturer[p])'
  BY <1>0 DEF ReadingOK
<1>2. CopiesOK(c) => CopiesOK(capturer[p])'
  BY <1>0 DEF CopiesOK, OfRevision
<1>3. PlaceOK(p, c) => PlaceOK(p, capturer[p])'
  BY DEF PlaceOK, MirrorBy, Mirror, Promoted
<1> QED BY <1>1, <1>2, <1>3 DEF CapturerOK

LEMMA FinalKept ==
    ASSUME UNCHANGED <<revision, final>>, FinalOK
    PROVE  FinalOK'
BY ManifestKept DEF FinalOK, OfRevision

\* A step of process p that brings it to the state c and changes neither
\* files, mirrors nor outcomes.
Moves(p, c) ==
    /\ Becomes(p, c)
    /\ UNCHANGED <<source, revision, final, returned, writes>>
    /\ claimed' \in BOOLEAN /\ mirrorFaults' \in 0..MaxMirrorFaults

LEMMA MovesKeeps ==
    ASSUME MirrorInv, NEW p \in Capturers, NEW c \in CapturerStates, Moves(p, c),
           CapturerOK(p, c),
           c.at = "revise" => Doing(p, "revise")
                              \/ (revision = {} /\ \A q \in Capturers : Doing(q, "idle")),
           revision = {} => c.at \in {"idle", "revise"},
           c.at \in Promoted => capturer[p].at \in Promoted
    PROVE  MirrorInv'
<1>1. /\ capturer' \in [Capturers -> CapturerStates] /\ capturer'[p] = c
      /\ \A q \in Capturers \ {p} : capturer'[q] = capturer[q]
  BY BecomesOK DEF Moves, MirrorInv
<1>2. MirrorStateOK'
  BY <1>1 DEF MirrorInv, MirrorStateOK, Moves
<1>3. RevisionOK'
  <2>1. Manifest' = Manifest
    BY ManifestKept DEF Moves
  <2>2. CASE revision = {}
    <3>1. /\ final = {} /\ returned = {}
          /\ \A q \in Capturers : capturer[q].at \in {"idle", "revise"}
          /\ \A q, r \in Capturers : Doing(q, "revise") /\ Doing(r, "revise") => q = r
      BY <2>2 DEF MirrorInv, RevisionOK
    <3>2. \A q \in Capturers : capturer'[q].at \in {"idle", "revise"}
      BY <1>1, <2>2, <3>1
    <3>3. \A q, r \in Capturers : Doing(q, "revise")' /\ Doing(r, "revise")' => q = r
      BY <1>1, <3>1 DEF Doing
    <3> QED BY <2>2, <3>1, <3>2, <3>3 DEF RevisionOK, Moves
  <2>3. CASE revision # {}
    <3>1. /\ revision = {Manifest} /\ Manifest \in Revisions
          /\ \A q \in Capturers : ~Doing(q, "revise")
      BY <2>3 DEF MirrorInv, RevisionOK
    <3>2. \A q \in Capturers : ~Doing(q, "revise")'
      BY <1>1, <2>3, <3>1 DEF Doing
    <3> QED BY <2>1, <3>1, <3>2 DEF RevisionOK, Moves
  <2> QED BY <2>2, <2>3
<1>4. FinalOK'
  BY FinalKept DEF MirrorInv, Moves
<1>5. ReturnedOK'
  <2>1. \A q \in Capturers : capturer'[q].at \in Promoted => capturer[q].at \in Promoted
    BY <1>1
  <2> QED BY <2>1 DEF MirrorInv, ReturnedOK, Moves
<1>6. \A q \in Capturers : CapturerOK(q, capturer[q])'
  <2> SUFFICES ASSUME NEW q \in Capturers PROVE CapturerOK(q, capturer[q])'
    OBVIOUS
  <2>1. UNCHANGED <<source, revision, final>>
    BY DEF Moves
  <2>2. CASE q = p
    BY <1>1, <2>1, <2>2, CapturerKept DEF CapturerOK, PlaceOK
  <2>3. CASE q # p
    <3>1. CapturerOK(q, capturer[q])
      BY DEF MirrorInv
    <3> QED BY <1>1, <2>1, <2>3, <3>1, CapturerKept DEF CapturerOK, PlaceOK
  <2> QED BY <2>2, <2>3
<1> QED BY <1>2, <1>3, <1>4, <1>5, <1>6 DEF MirrorInv

\* A process that ends, whatever it was doing.
LEMMA EndsKeeps ==
    ASSUME MirrorInv, NEW p \in Capturers,
           NEW r \in {"none", "changed", "refused", "failed", "returned"}, EndsWith(p, r),
           UNCHANGED <<source, revision, final, returned, writes>>,
           claimed' \in BOOLEAN, mirrorFaults' \in 0..MaxMirrorFaults
    PROVE  MirrorInv'
<1>1. PICK c : c = [Idle EXCEPT !.result = r]
  OBVIOUS
<1>2. /\ c \in CapturerStates /\ c.at = "idle" /\ c.copies = NoCopies /\ c.seen = <<>>
      /\ c.file = 1
  BY <1>1, IdleState
<1>3. CapturerOK(p, c)
  BY <1>2, MirrorFacts DEF CapturerOK, ReadingOK, CopiesOK, PlaceOK, Promoted
<1>4. Moves(p, c)
  BY <1>1 DEF Moves, EndsWith
<1> QED BY <1>2, <1>3, <1>4, MovesKeeps DEF Promoted

\* The state of a process in the middle of a capture.
LEMMA Capturing ==
    ASSUME MirrorInv, NEW p \in Capturers
    PROVE  /\ capturer[p] \in CapturerStates /\ CapturerOK(p, capturer[p])
           /\ capturer[p].at \notin {"idle", "revise"} =>
                 revision = {Manifest} /\ Manifest \in Revisions
BY DEF MirrorInv, MirrorStateOK, RevisionOK

\* A process that goes on to a step for which it needs nothing new.
LEMMA ContinuesKeeps ==
    ASSUME MirrorInv, NEW p \in Capturers, NEW step \in MirrorStages, Continues(p, step),
           capturer[p].at \notin {"idle", "revise"},
           step \notin {"idle", "revise", "before", "copy", "after", "remove"},
           step \in Promoted => capturer[p].at \in Promoted,
           step \in {"look", "claim", "scan"} => capturer[p].at \in {"before", "look", "claim", "scan"},
           step \in {"verify", "unclaim"} => capturer[p].at \in {"verify", "unclaim"},
           step = "bind" => capturer[p].at = "after",
           UNCHANGED <<source, revision, final, returned, writes>>,
           claimed' \in BOOLEAN, mirrorFaults' \in 0..MaxMirrorFaults
    PROVE  MirrorInv'
<1>1. PICK c : c = [capturer[p] EXCEPT !.at = step]
  OBVIOUS
<1>2. /\ c \in CapturerStates /\ c.at = step /\ c.copies = capturer[p].copies
      /\ c.seen = capturer[p].seen /\ c.file = capturer[p].file
  BY <1>1, Capturing DEF CapturerStates
<1>3. CapturerOK(p, c)
  <2>0. CapturerOK(p, capturer[p])
    BY Capturing
  <2>1. ReadingOK(c)
    BY <1>2, <2>0 DEF CapturerOK, ReadingOK
  <2>2. CopiesOK(c)
    BY <1>2, <2>0 DEF CapturerOK, CopiesOK
  <2>3. PlaceOK(p, c)
    BY <1>2, <2>0 DEF CapturerOK, PlaceOK, MirrorBy, Promoted
  <2> QED BY <2>1, <2>2, <2>3 DEF CapturerOK
<1>4. Moves(p, c)
  BY <1>1 DEF Moves, Continues
<1>5. revision # {}
  BY Capturing
<1> QED BY <1>2, <1>3, <1>4, <1>5, MovesKeeps

\* And one that has to release what it claimed.
LEMMA ReleasesKeeps ==
    ASSUME MirrorInv, NEW p \in Capturers,
           NEW r \in {"none", "changed", "refused", "failed", "returned"},
           Becomes(p, [capturer[p] EXCEPT !.at = "release", !.result = r]),
           capturer[p].at \notin {"idle", "revise"},
           UNCHANGED <<source, revision, final, returned, writes>>,
           claimed' \in BOOLEAN, mirrorFaults' \in 0..MaxMirrorFaults
    PROVE  MirrorInv'
<1>1. PICK c : c = [capturer[p] EXCEPT !.at = "release", !.result = r]
  OBVIOUS
<1>2. c \in CapturerStates /\ c.at = "release" /\ c.copies = capturer[p].copies
  BY <1>1, Capturing DEF CapturerStates, MirrorStages
<1>3. CapturerOK(p, c)
  BY <1>2, Capturing DEF CapturerOK, ReadingOK, CopiesOK, PlaceOK, Promoted
<1>4. Moves(p, c)
  BY <1>1 DEF Moves
<1>5. revision # {}
  BY Capturing
<1> QED BY <1>2, <1>3, <1>4, <1>5, MovesKeeps DEF Promoted


LEMMA WriteSourceKeeps ==
    ASSUME MirrorInv, NEW f \in MirrorFiles, NEW c \in Contents, NEW restored \in BOOLEAN,
           WriteSource(f, c, restored)
    PROVE  MirrorInv'
<1>1. /\ UNCHANGED <<revision, claimed, final, capturer, returned, mirrorFaults>>
      /\ writes \in 0..MaxWrites /\ writes + 1 \in 0..MaxWrites /\ writes' = writes + 1
  BY MirrorAssumption DEF WriteSource, MirrorInv, MirrorStateOK
<1>2. source' \in [MirrorFiles -> FileStates]
  BY <1>1 DEF WriteSource, MirrorInv, MirrorStateOK, FileStates
<1>3. MirrorStateOK'
  BY <1>1, <1>2 DEF MirrorInv, MirrorStateOK
<1>4. Manifest' = Manifest
  BY <1>1, ManifestKept
<1>5. RevisionOK' /\ FinalOK' /\ ReturnedOK'
  BY <1>1, <1>4, FinalKept DEF MirrorInv, RevisionOK, ReturnedOK, Doing
<1>6. \A p \in Capturers : CapturerOK(p, capturer[p])'
  BY <1>1, CapturerKept DEF MirrorInv, CapturerOK, PlaceOK
<1> QED BY <1>3, <1>5, <1>6 DEF MirrorInv

LEMMA BeginRevisionKeeps ==
    ASSUME MirrorInv, NEW p \in Capturers, BeginRevision(p)
    PROVE  MirrorInv'
<1>1. PICK c : c = [capturer[p] EXCEPT !.at = "revise"]
  OBVIOUS
<1>2. /\ c \in CapturerStates /\ c.at = "revise" /\ c.copies = capturer[p].copies
      /\ c.seen = capturer[p].seen
  BY <1>1, Capturing DEF CapturerStates, MirrorStages
<1>3. capturer[p].at = "idle" /\ capturer[p].seen = <<>>
  BY Capturing DEF BeginRevision, Doing, CapturerOK, ReadingOK
<1>4. CapturerOK(p, c)
  BY <1>2, <1>3, Capturing, MirrorFacts
     DEF CapturerOK, ReadingOK, CopiesOK, PlaceOK, Promoted
<1>5. Moves(p, c)
  BY <1>1 DEF Moves, BeginRevision, Continues, MirrorInv, MirrorStateOK
<1> QED BY <1>2, <1>4, <1>5, MovesKeeps DEF BeginRevision, Promoted

LEMMA BeginCaptureKeeps ==
    ASSUME MirrorInv, NEW p \in Capturers, BeginCapture(p)
    PROVE  MirrorInv'
<1>1. PICK i : i = [Idle EXCEPT !.result = "none"]
  OBVIOUS
<1>2. /\ i \in CapturerStates /\ i.at = "idle" /\ i.copies = NoCopies /\ i.seen = <<>>
      /\ i.file = 1 /\ i = Idle
  BY <1>1, IdleState DEF Idle
<1>3. PICK c : c = [i EXCEPT !.at = "before"]
  OBVIOUS
<1>4. /\ c \in CapturerStates /\ c.at = "before" /\ c.copies = NoCopies /\ c.seen = <<>>
      /\ c.file = 1
  BY <1>2, <1>3 DEF CapturerStates, MirrorStages
<1>5. CapturerOK(p, c)
  BY <1>4, MirrorFacts DEF CapturerOK, ReadingOK, CopiesOK, PlaceOK, Promoted
<1>6. Moves(p, c)
  BY <1>2, <1>3 DEF Moves, BeginCapture, MirrorInv, MirrorStateOK
<1> QED BY <1>4, <1>5, <1>6, MovesKeeps DEF BeginCapture, Promoted

\* What a capture has read when it reads one more file.
LEMMA CapturedOK ==
    ASSUME MirrorInv, NEW p \in Capturers, Len(capturer[p].seen) < FileCount
    PROVE  Captured(p) \in Seq(Contents) /\ Len(Captured(p)) = Len(capturer[p].seen) + 1
<1>1. capturer[p].seen \in Seq(Contents)
  BY Capturing DEF CapturerStates
<1>2. Len(capturer[p].seen) + 1 \in MirrorFiles
  BY <1>1, MirrorFacts
<1>3. ContentOf(source[Len(capturer[p].seen) + 1]) \in Contents
  BY <1>2, ContentOK DEF MirrorInv
<1> QED BY <1>1, <1>2, <1>3 DEF Captured

LEMMA ReadFileKeeps ==
    ASSUME MirrorInv, NEW p \in Capturers, ReadFile(p)
    PROVE  MirrorInv'
<1>1. PICK c : c = [capturer[p] EXCEPT !.seen = Captured(p)]
  OBVIOUS
<1>2. /\ capturer[p].at \in {"revise", "before", "after"} /\ Len(capturer[p].seen) + 1 < FileCount
      /\ Len(capturer[p].seen) \in Nat
  BY Capturing DEF ReadFile, CapturerStates
<1>3. Captured(p) \in Seq(Contents) /\ Len(Captured(p)) = Len(capturer[p].seen) + 1
  BY <1>2, CapturedOK, MirrorFacts
<1> HIDE DEF Captured
<1>4. /\ c \in CapturerStates /\ c.at = capturer[p].at /\ c.copies = capturer[p].copies
      /\ c.seen = Captured(p) /\ c.file = capturer[p].file
  BY <1>1, <1>3, Capturing DEF CapturerStates
<1>5. CapturerOK(p, capturer[p])
  BY Capturing
<1>6. CapturerOK(p, c)
  BY <1>2, <1>3, <1>4, <1>5 DEF CapturerOK, ReadingOK, CopiesOK, PlaceOK, MirrorBy
<1>7. Moves(p, c)
  BY <1>1 DEF Moves, ReadFile, MirrorInv, MirrorStateOK
<1>8. revision = {} => capturer[p].at \in {"idle", "revise"}
  BY Capturing
<1> QED BY <1>4, <1>6, <1>7, <1>8, MovesKeeps DEF Doing


\* The revision is what one process, with all others idle, read of the source.
LEMMA EndRevisionKeeps ==
    ASSUME MirrorInv, NEW p \in Capturers, EndRevision(p)
    PROVE  MirrorInv'
<1>1. /\ capturer[p].at = "revise" /\ Len(capturer[p].seen) + 1 = FileCount
      /\ revision' = {Captured(p)} /\ EndsWith(p, "none")
      /\ UNCHANGED <<source, claimed, final, returned, writes, mirrorFaults>>
  BY DEF EndRevision, ReadLast, Doing
<1>2. /\ final = {} /\ returned = {} /\ \A q \in Capturers \ {p} : capturer[q].at = "idle"
  BY <1>1 DEF MirrorInv, RevisionOK, Doing
<1>3. PICK c : c = [Idle EXCEPT !.result = "none"]
  OBVIOUS
<1>4. /\ c \in CapturerStates /\ c.at = "idle" /\ c.copies = NoCopies /\ c.seen = <<>>
  BY <1>3, IdleState
<1>5. /\ capturer' \in [Capturers -> CapturerStates] /\ capturer'[p] = c
      /\ \A q \in Capturers \ {p} : capturer'[q] = capturer[q]
  BY <1>1, <1>3, <1>4, BecomesOK DEF MirrorInv, EndsWith
<1>6. MirrorStateOK'
  BY <1>1, <1>5 DEF MirrorInv, MirrorStateOK
<1>7. PICK m : m = Captured(p)
  OBVIOUS
<1>8. m \in Seq(Contents) /\ Len(m) = FileCount
  <2>1. capturer[p].seen \in Seq(Contents)
    BY Capturing DEF CapturerStates
  <2>2. Len(capturer[p].seen) \in Nat /\ Len(capturer[p].seen) < FileCount
    BY <1>1, <2>1
  <2> QED BY <1>1, <1>7, <2>2, CapturedOK
<1>9. m \in Revisions
  BY <1>8, MirrorFacts DEF Revisions
<1>10. revision' = {m} /\ Manifest' = m
  BY <1>1, <1>7 DEF Manifest
<1>11. RevisionOK'
  <2>1. \A q \in Capturers : ~Doing(q, "revise")'
    BY <1>2, <1>4, <1>5 DEF Doing
  <2> QED BY <1>9, <1>10, <2>1 DEF RevisionOK
<1>12. FinalOK' /\ ReturnedOK'
  BY <1>1, <1>2 DEF FinalOK, ReturnedOK
<1>13. \A q \in Capturers : CapturerOK(q, capturer[q])'
  <2> SUFFICES ASSUME NEW q \in Capturers PROVE CapturerOK(q, capturer[q])'
    OBVIOUS
  <2>1. capturer'[q].at = "idle" /\ capturer'[q].copies = NoCopies /\ capturer'[q].seen = <<>>
    BY <1>2, <1>4, <1>5, Capturing DEF CapturerOK, ReadingOK, CopiesOK
  <2>2. OfRevision(capturer[q].copies)'
    BY <2>1, MirrorFacts DEF OfRevision, NoCopies
  <2> QED BY <2>1, <2>2, MirrorFacts
          DEF CapturerOK, ReadingOK, CopiesOK, PlaceOK, Promoted
<1> QED BY <1>6, <1>11, <1>12, <1>13 DEF MirrorInv

LEMMA CaptureBeforeKeeps ==
    ASSUME MirrorInv, NEW p \in Capturers, CaptureBefore(p)
    PROVE  MirrorInv'
<1>1. /\ capturer[p].at = "before" /\ (Continues(p, "look") \/ EndsWith(p, "changed"))
      /\ UNCHANGED <<source, revision, claimed, final, returned, writes, mirrorFaults>>
  BY DEF CaptureBefore, ReadLast, Doing
<1>2. claimed' \in BOOLEAN /\ mirrorFaults' \in 0..MaxMirrorFaults
  BY <1>1 DEF MirrorInv, MirrorStateOK
<1> QED BY <1>1, <1>2, ContinuesKeeps, EndsKeeps DEF MirrorStages, Promoted

LEMMA CaptureAfterKeeps ==
    ASSUME MirrorInv, NEW p \in Capturers, CaptureAfter(p)
    PROVE  MirrorInv'
<1>1. /\ capturer[p].at = "after" /\ (Continues(p, "bind") \/ Continues(p, "empty"))
      /\ UNCHANGED <<source, revision, claimed, final, returned, writes, mirrorFaults>>
  BY DEF CaptureAfter, ReadLast, Doing
<1>2. claimed' \in BOOLEAN /\ mirrorFaults' \in 0..MaxMirrorFaults
  BY <1>1 DEF MirrorInv, MirrorStateOK
<1>3. CASE Continues(p, "bind")
  BY <1>1, <1>2, <1>3, ContinuesKeeps DEF MirrorStages, Promoted
<1>4. CASE Continues(p, "empty")
  BY <1>1, <1>2, <1>4, ContinuesKeeps DEF MirrorStages, Promoted
<1> QED BY <1>1, <1>3, <1>4

LEMMA RefuseReplayKeeps ==
    ASSUME MirrorInv, NEW p \in Capturers, RefuseReplay(p)
    PROVE  MirrorInv'
<1>1. /\ capturer[p].at = "look" /\ (Continues(p, "claim") \/ EndsWith(p, "refused"))
      /\ UNCHANGED <<source, revision, claimed, final, returned, writes, mirrorFaults>>
      /\ claimed' \in BOOLEAN /\ mirrorFaults' \in 0..MaxMirrorFaults
  BY DEF RefuseReplay, Doing, MirrorInv, MirrorStateOK
<1> QED BY <1>1, ContinuesKeeps, EndsKeeps DEF MirrorStages, Promoted

LEMMA CreateClaimKeeps ==
    ASSUME MirrorInv, NEW p \in Capturers, CreateClaim(p)
    PROVE  MirrorInv'
<1>1. /\ capturer[p].at = "claim" /\ (Continues(p, "scan") \/ EndsWith(p, "refused"))
      /\ UNCHANGED <<source, revision, final, returned, writes, mirrorFaults>>
      /\ claimed' \in BOOLEAN /\ mirrorFaults' \in 0..MaxMirrorFaults
  BY DEF CreateClaim, Doing, MirrorInv, MirrorStateOK
<1> QED BY <1>1, ContinuesKeeps, EndsKeeps DEF MirrorStages, Promoted

LEMMA AdvanceKeeps ==
    ASSUME MirrorInv, NEW p \in Capturers, NEW copies \in Copies, OfRevision(copies),
           capturer[p].at \in {"scan", "copy"}, Advance(p, copies),
           UNCHANGED <<source, revision, claimed, final, returned, writes, mirrorFaults>>
    PROVE  MirrorInv'
<1>1. PICK c : c = [capturer[p] EXCEPT
        !.copies = copies, !.file = @ + 1,
        !.at = IF capturer[p].file = FileCount THEN "seal" ELSE "scan"]
  OBVIOUS
<1>2. capturer[p] \in CapturerStates /\ capturer[p].file <= FileCount /\ capturer[p].file \in 1..(FileCount + 1)
  BY Capturing DEF CapturerOK, ReadingOK, CapturerStates
<1>3. capturer[p].file + 1 \in 1..(FileCount + 1)
  BY <1>2, MirrorFacts
<1>4. /\ c \in CapturerStates /\ c.copies = copies /\ c.file = capturer[p].file + 1
      /\ c.at = IF capturer[p].file = FileCount THEN "seal" ELSE "scan"
  BY <1>1, <1>2, <1>3 DEF CapturerStates, MirrorStages
<1>5. c.at = "seal" \/ (c.at = "scan" /\ c.file <= FileCount)
  BY <1>2, <1>4, MirrorFacts
<1>6. CapturerOK(p, c)
  BY <1>4, <1>5 DEF CapturerOK, ReadingOK, CopiesOK, PlaceOK, Promoted
<1>7. Moves(p, c)
  BY <1>1 DEF Moves, Advance, MirrorInv, MirrorStateOK
<1>8. revision # {}
  BY Capturing
<1> QED BY <1>4, <1>5, <1>6, <1>7, <1>8, MovesKeeps DEF Promoted

LEMMA ScanFileKeeps ==
    ASSUME MirrorInv, NEW p \in Capturers, ScanFile(p)
    PROVE  MirrorInv'
<1> DEFINE f == capturer[p].file
<1>1. /\ capturer[p].at = "scan"
      /\ UNCHANGED <<source, revision, claimed, final, returned, writes, mirrorFaults>>
      /\ claimed' \in BOOLEAN /\ mirrorFaults' \in 0..MaxMirrorFaults
  BY DEF ScanFile, Doing, MirrorInv, MirrorStateOK
<1>2. /\ capturer[p] \in CapturerStates /\ f \in MirrorFiles /\ OfRevision(capturer[p].copies)
      /\ capturer[p].copies \in Copies
  BY <1>1, Capturing, MirrorFacts DEF CapturerOK, ReadingOK, CopiesOK, CapturerStates
<1>3. CASE Advance(p, capturer[p].copies)
  BY <1>1, <1>2, <1>3, AdvanceKeeps
<1>4. CASE /\ ContentOf(source[f]) = Manifest[f] /\ source[f].content \in PlainContents
           /\ Becomes(p, [capturer[p] EXCEPT !.at = "copy", !.stat = source[f].stat])
  <2>1. PICK c : c = [capturer[p] EXCEPT !.at = "copy", !.stat = source[f].stat]
    OBVIOUS
  <2>2. source[f].stat \in 0..MaxWrites /\ Manifest[f] \notin SecretContents
    BY <1>2, <1>4, ContentOK, MirrorAssumption DEF MirrorInv, ContentOf
  <2>3. /\ c \in CapturerStates /\ c.at = "copy" /\ c.file = f /\ c.copies = capturer[p].copies
    BY <1>2, <2>1, <2>2 DEF CapturerStates, MirrorStages
  <2>4. CapturerOK(p, c)
    BY <1>2, <2>2, <2>3, MirrorFacts
       DEF CapturerOK, ReadingOK, CopiesOK, PlaceOK, Promoted
  <2>5. Moves(p, c)
    BY <1>1, <1>4, <2>1 DEF Moves
  <2>6. revision # {}
    BY <1>1, Capturing
  <2> QED BY <2>3, <2>4, <2>5, <2>6, MovesKeeps DEF Promoted
<1>5. CASE Continues(p, "clean")
  BY <1>1, <1>5, ContinuesKeeps DEF MirrorStages, Promoted
<1> QED BY <1>3, <1>4, <1>5 DEF ScanFile

LEMMA CopyFileKeeps ==
    ASSUME MirrorInv, NEW p \in Capturers, CopyFile(p)
    PROVE  MirrorInv'
<1> DEFINE f == capturer[p].file
<1>1. /\ capturer[p].at = "copy"
      /\ UNCHANGED <<source, revision, claimed, final, returned, writes, mirrorFaults>>
      /\ claimed' \in BOOLEAN /\ mirrorFaults' \in 0..MaxMirrorFaults
  BY DEF CopyFile, Doing, MirrorInv, MirrorStateOK
<1>2. /\ capturer[p] \in CapturerStates /\ f \in MirrorFiles /\ OfRevision(capturer[p].copies)
      /\ capturer[p].copies \in Copies /\ Manifest[f] \notin SecretContents /\ Manifest \in Revisions
  BY <1>1, Capturing, MirrorFacts DEF CapturerOK, ReadingOK, CopiesOK, CapturerStates
<1>3. CASE Advance(p, [capturer[p].copies EXCEPT ![f] = Manifest[f]])
  <2>1. PICK copies : copies = [capturer[p].copies EXCEPT ![f] = Manifest[f]]
    OBVIOUS
  <2>2. copies \in Copies
    BY <1>2, <2>1 DEF Copies, Revisions
  <2>3. OfRevision(copies)
    BY <1>2, <2>1 DEF OfRevision, Copies
  <2> QED BY <1>1, <1>3, <2>1, <2>2, <2>3, AdvanceKeeps
<1>4. CASE Continues(p, "clean")
  BY <1>1, <1>4, ContinuesKeeps DEF MirrorStages, Promoted
<1> QED BY <1>3, <1>4 DEF CopyFile


LEMMA SealStagingKeeps ==
    ASSUME MirrorInv, NEW p \in Capturers, SealStaging(p)
    PROVE  MirrorInv'
<1>1. /\ capturer[p].at = "seal" /\ Continues(p, "promote")
      /\ UNCHANGED <<source, revision, final, returned, writes>>
      /\ claimed' \in BOOLEAN /\ mirrorFaults' \in 0..MaxMirrorFaults
  BY DEF SealStaging, Doing, MirrorInv, MirrorStateOK
<1> QED BY <1>1, ContinuesKeeps DEF MirrorStages, Promoted

\* What is answered for, or was returned, has entries left.
LEMMA OwnedHoldsSome ==
    ASSUME MirrorInv, returned # {} \/ \E q \in Capturers : capturer[q].at \in Promoted
    PROVE  \E m \in final : m.holds # "nothing"
<1>1. ASSUME NEW receipt \in returned PROVE \E m \in final : m.holds # "nothing"
  <2>1. Mirror(receipt, "all") \in final /\ Mirror(receipt, "all").holds = "all"
    BY DEF MirrorInv, ReturnedOK, Mirror
  <2> QED BY <2>1
<1>2. ASSUME NEW q \in Capturers, capturer[q].at \in Promoted
      PROVE  \E m \in final : m.holds # "nothing"
  <2>1. /\ MirrorBy(q, capturer[q], "all").holds = "all"
        /\ MirrorBy(q, capturer[q], "some").holds = "some"
    BY DEF MirrorBy, Mirror
  <2>2. MirrorBy(q, capturer[q], "all") \in final \/ MirrorBy(q, capturer[q], "some") \in final
    BY <1>2 DEF MirrorInv, CapturerOK, PlaceOK
  <2> QED BY <2>1, <2>2
<1> QED BY <1>1, <1>2

\* A name that is taken over was nobody's.
LEMMA PromoteMirrorKeeps ==
    ASSUME MirrorInv, NEW p \in Capturers, PromoteMirror(p)
    PROVE  MirrorInv'
<1>1. /\ capturer[p].at = "promote"
      /\ UNCHANGED <<source, revision, claimed, returned, writes, mirrorFaults>>
      /\ claimed' \in BOOLEAN /\ mirrorFaults' \in 0..MaxMirrorFaults
  BY DEF PromoteMirror, Doing, MirrorInv, MirrorStateOK
<1>2. CASE ~ \A m \in final : m.holds = "nothing"
  <2>1. Continues(p, "clean") /\ UNCHANGED final
    BY <1>2 DEF PromoteMirror
  <2> QED BY <1>1, <2>1, ContinuesKeeps DEF MirrorStages, Promoted
<1>3. CASE \A m \in final : m.holds = "nothing"
  <2>1. final' = {Mirror(MirrorReceipt(p), "all")} /\ Continues(p, "verify")
    BY <1>3 DEF PromoteMirror
  <2>2. PICK c : c = [capturer[p] EXCEPT !.at = "verify"]
    OBVIOUS
  <2>3. capturer[p] \in CapturerStates /\ CapturerOK(p, capturer[p])
    BY Capturing
  <2>4. c \in CapturerStates /\ c.at = "verify" /\ c.copies = capturer[p].copies
    BY <2>2, <2>3 DEF CapturerStates, MirrorStages
  <2>5. /\ capturer' \in [Capturers -> CapturerStates] /\ capturer'[p] = c
        /\ \A q \in Capturers \ {p} : capturer'[q] = capturer[q]
    BY <2>1, <2>2, <2>4, BecomesOK DEF MirrorInv, Continues
  <2>6. MirrorStateOK'
    BY <1>1, <2>5 DEF MirrorInv, MirrorStateOK
  <2>7. /\ revision = {Manifest} /\ Manifest \in Revisions
        /\ \A q \in Capturers : ~Doing(q, "revise")
    BY <1>1, Capturing DEF MirrorInv, RevisionOK
  <2>8. Manifest' = Manifest
    BY <1>1, ManifestKept
  <2>9. RevisionOK'
    <3>1. \A q \in Capturers : ~Doing(q, "revise")'
      BY <2>4, <2>5, <2>7 DEF Doing
    <3> QED BY <1>1, <2>7, <2>8, <3>1 DEF RevisionOK
  <2>10. Mirror(MirrorReceipt(p), "all") = MirrorBy(p, c, "all") /\ OfRevision(c.copies)
    BY <2>3, <2>4 DEF MirrorReceipt, MirrorBy, CapturerOK, CopiesOK
  <2>11. FinalOK'
    BY <2>1, <2>8, <2>10 DEF FinalOK, MirrorBy, Mirror, OfRevision
  <2>12. returned = {} /\ \A q \in Capturers : capturer[q].at \notin Promoted
    BY <1>3, OwnedHoldsSome
  <2>13. ReturnedOK'
    BY <1>1, <2>12 DEF ReturnedOK
  <2>14. ASSUME NEW q \in Capturers \ {p} PROVE CapturerOK(q, capturer[q])'
    <3>1. CapturerOK(q, capturer[q]) /\ capturer'[q] = capturer[q]
      BY <2>5, Capturing
    <3>2. \A m \in final' : m.receipt.by # q
      BY <2>1, <2>10 DEF MirrorBy, Mirror
    <3> QED BY <1>1, <2>12, <3>1, <3>2, CapturerKept
  <2>15. CapturerOK(p, capturer[p])'
    <3>1. CopiesOK(c)'
      BY <2>4, <2>8, <2>10 DEF CopiesOK, OfRevision
    <3>2. PlaceOK(p, c)'
      BY <2>1, <2>4, <2>10 DEF PlaceOK, MirrorBy
    <3>3. ReadingOK(c)'
      BY <2>4 DEF ReadingOK
    <3> QED BY <2>5, <3>1, <3>2, <3>3 DEF CapturerOK, CopiesOK, PlaceOK, MirrorBy, ReadingOK
  <2> QED BY <2>6, <2>9, <2>11, <2>13, <2>14, <2>15 DEF MirrorInv
<1> QED BY <1>2, <1>3

LEMMA VerifyKeeps ==
    ASSUME MirrorInv, NEW p \in Capturers, Verify(p)
    PROVE  MirrorInv'
<1>1. /\ capturer[p].at = "verify" /\ (Continues(p, "unclaim") \/ Continues(p, "empty"))
      /\ UNCHANGED <<source, revision, final, returned, writes>>
      /\ claimed' \in BOOLEAN /\ mirrorFaults' \in 0..MaxMirrorFaults
  BY DEF Verify, Doing, MirrorInv, MirrorStateOK
<1>2. CASE Continues(p, "unclaim")
  BY <1>1, <1>2, ContinuesKeeps DEF MirrorStages, Promoted
<1>3. CASE Continues(p, "empty")
  BY <1>1, <1>3, ContinuesKeeps DEF MirrorStages, Promoted
<1> QED BY <1>1, <1>2, <1>3

LEMMA UnclaimKeeps ==
    ASSUME MirrorInv, NEW p \in Capturers, Unclaim(p)
    PROVE  MirrorInv'
<1>1. /\ capturer[p].at = "unclaim"
      /\ Becomes(p, [capturer[p] EXCEPT !.at = "after", !.seen = <<>>])
      /\ UNCHANGED <<source, revision, final, returned, writes>>
      /\ claimed' \in BOOLEAN /\ mirrorFaults' \in 0..MaxMirrorFaults
  BY DEF Unclaim, Doing, MirrorInv, MirrorStateOK
<1>2. PICK c : c = [capturer[p] EXCEPT !.at = "after", !.seen = <<>>]
  OBVIOUS
<1>3. capturer[p] \in CapturerStates /\ CapturerOK(p, capturer[p]) /\ revision # {}
      /\ <<>> \in Seq(Contents) /\ Len(<<>>) = 0
  BY <1>1, Capturing
<1>4. /\ c \in CapturerStates /\ c.at = "after" /\ c.seen = <<>>
      /\ c.copies = capturer[p].copies
  BY <1>2, <1>3 DEF CapturerStates, MirrorStages
<1>5. CapturerOK(p, c)
  <2>1. ReadingOK(c)
    BY <1>4, MirrorFacts DEF ReadingOK
  <2>2. CopiesOK(c)
    BY <1>3, <1>4 DEF CapturerOK, CopiesOK
  <2>3. PlaceOK(p, c)
    BY <1>1, <1>3, <1>4 DEF CapturerOK, PlaceOK, MirrorBy, Promoted
  <2> QED BY <2>1, <2>2, <2>3 DEF CapturerOK
<1>6. Moves(p, c)
  BY <1>1, <1>2 DEF Moves
<1> QED BY <1>1, <1>3, <1>4, <1>5, <1>6, MovesKeeps DEF Promoted

\* A name belongs to one process at most.
LEMMA OneOwner ==
    ASSUME MirrorInv, NEW p \in Capturers, NEW q \in Capturers,
           capturer[p].at \in Promoted, capturer[q].at \in Promoted
    PROVE  p = q /\ returned = {}
<1>1. ASSUME NEW r \in Capturers, capturer[r].at \in Promoted
      PROVE  final # {} /\ \A m \in final : m.receipt.by = r
  <2>1. PICK holds \in {"all", "some"} : final = {MirrorBy(r, capturer[r], holds)}
    BY <1>1 DEF MirrorInv, CapturerOK, PlaceOK
  <2>2. MirrorBy(r, capturer[r], holds).receipt.by = r
    BY DEF MirrorBy, Mirror
  <2> QED BY <2>1, <2>2
<1>2. p = q
  BY <1>1
<1> QED BY <1>2 DEF MirrorInv, ReturnedOK

LEMMA WithMirrorKeeps ==
    ASSUME MirrorInv, NEW p \in Capturers, WithMirror(p)
    PROVE  MirrorInv'
<1>1. /\ capturer[p].at = "bind"
      /\ UNCHANGED <<source, revision, claimed, final, writes, mirrorFaults>>
      /\ claimed' \in BOOLEAN /\ mirrorFaults' \in 0..MaxMirrorFaults
  BY DEF WithMirror, Doing, MirrorInv, MirrorStateOK
<1>2. CASE ~ValidReceipt(MirrorReceipt(p))
  <2>1. UNCHANGED returned /\ Becomes(p, [capturer[p] EXCEPT !.at = "release", !.result = "failed"])
    BY <1>2 DEF WithMirror
  <2> QED BY <1>1, <2>1, ReleasesKeeps
<1>3. CASE ValidReceipt(MirrorReceipt(p))
  <2>1. /\ returned' = returned \cup {MirrorReceipt(p)}
        /\ Becomes(p, [capturer[p] EXCEPT !.at = "release", !.result = "returned"])
    BY <1>3 DEF WithMirror
  <2>2. PICK c : c = [capturer[p] EXCEPT !.at = "release", !.result = "returned"]
    OBVIOUS
  <2>3. /\ c \in CapturerStates /\ c.at = "release" /\ c.copies = capturer[p].copies
    BY <2>2, Capturing DEF CapturerStates, MirrorStages
  <2>4. /\ capturer' \in [Capturers -> CapturerStates] /\ capturer'[p] = c
        /\ \A q \in Capturers \ {p} : capturer'[q] = capturer[q]
    BY <2>1, <2>2, <2>3, BecomesOK DEF MirrorInv
  <2>5. MirrorStateOK'
    BY <1>1, <2>4 DEF MirrorInv, MirrorStateOK
  <2>6. /\ revision = {Manifest} /\ Manifest \in Revisions
        /\ \A q \in Capturers : ~Doing(q, "revise")
    BY <1>1, Capturing DEF MirrorInv, RevisionOK
  <2>7. Manifest' = Manifest
    BY <1>1, ManifestKept
  <2>8. RevisionOK'
    <3>1. \A q \in Capturers : ~Doing(q, "revise")'
      BY <2>3, <2>4, <2>6 DEF Doing
    <3> QED BY <1>1, <2>6, <2>7, <3>1 DEF RevisionOK
  <2>9. FinalOK'
    BY <1>1, FinalKept DEF MirrorInv
  <2>10. ReturnedOK'
    <3>1. returned = {} /\ \A q \in Capturers : capturer[q].at \in Promoted => q = p
      BY <1>1, OneOwner DEF Promoted
    <3>2. \A q \in Capturers : capturer'[q].at \notin Promoted
      BY <2>3, <2>4, <3>1 DEF Promoted
    <3>3. final = {Mirror(MirrorReceipt(p), "all")}
      BY <1>1, Capturing DEF CapturerOK, PlaceOK, MirrorBy, MirrorReceipt, Promoted
    <3>4. returned' = {MirrorReceipt(p)} /\ final' = {Mirror(MirrorReceipt(p), "all")}
      BY <1>1, <2>1, <3>1, <3>3
    <3>5. PICK receipt : receipt = MirrorReceipt(p)
      OBVIOUS
    <3> QED BY <3>2, <3>4, <3>5 DEF ReturnedOK
  <2>11. ASSUME NEW q \in Capturers \ {p} PROVE CapturerOK(q, capturer[q])'
    <3>1. CapturerOK(q, capturer[q]) /\ capturer'[q] = capturer[q]
      BY <2>4, Capturing
    <3> QED BY <1>1, <3>1, CapturerKept DEF CapturerOK, PlaceOK
  <2>12. CapturerOK(p, c)
    BY <2>3, Capturing DEF CapturerOK, ReadingOK, CopiesOK, PlaceOK, Promoted
  <2>13. CapturerOK(p, capturer[p])'
    BY <1>1, <2>3, <2>4, <2>12, CapturerKept
  <2> QED BY <2>5, <2>8, <2>9, <2>10, <2>11, <2>13 DEF MirrorInv
<1> QED BY <1>2, <1>3

\* What cleaning up does to the mirror under the name.
LEMMA CleansKeeps ==
    ASSUME MirrorInv, NEW p \in Capturers, NEW step \in {"remove", "clean"}, Continues(p, step),
           capturer[p].at \in {"empty", "remove"},
           UNCHANGED <<source, revision, claimed, returned, writes, mirrorFaults>>,
           FinalOK', returned # {} => UNCHANGED final,
           \A q \in Capturers \ {p} : capturer[q].at \in Promoted => UNCHANGED final,
           \A q \in Capturers : capturer[q].at = "remove" \/ (q = p /\ step = "remove") =>
              \A m \in final' : m.receipt.by = q => m.holds = "nothing"
    PROVE  MirrorInv'
<1>1. PICK c : c = [capturer[p] EXCEPT !.at = step]
  OBVIOUS
<1>2. c \in CapturerStates /\ c.at = step /\ c.copies = capturer[p].copies
  BY <1>1, Capturing DEF CapturerStates, MirrorStages
<1>3. /\ capturer' \in [Capturers -> CapturerStates] /\ capturer'[p] = c
      /\ \A q \in Capturers \ {p} : capturer'[q] = capturer[q]
  BY <1>1, <1>2, BecomesOK DEF MirrorInv, Continues
<1>4. MirrorStateOK'
  BY <1>3 DEF MirrorInv, MirrorStateOK
<1>5. /\ revision = {Manifest} /\ Manifest \in Revisions
      /\ \A q \in Capturers : ~Doing(q, "revise")
  BY Capturing DEF MirrorInv, RevisionOK
<1>6. Manifest' = Manifest
  BY ManifestKept
<1>7. RevisionOK'
  <2>1. \A q \in Capturers : ~Doing(q, "revise")'
    BY <1>2, <1>3, <1>5 DEF Doing
  <2> QED BY <1>5, <1>6, <2>1 DEF RevisionOK
<1>8. ReturnedOK'
  <2>1. \A q \in Capturers : capturer'[q].at \in Promoted => capturer[q].at \in Promoted
    BY <1>2, <1>3 DEF Promoted
  <2> QED BY <2>1 DEF MirrorInv, ReturnedOK
<1>9. ASSUME NEW q \in Capturers \ {p} PROVE CapturerOK(q, capturer[q])'
  <2>1. CapturerOK(q, capturer[q]) /\ capturer'[q] = capturer[q]
    BY <1>3, Capturing
  <2> QED BY <2>1, CapturerKept
<1>10. CapturerOK(p, capturer[p])'
  <2>1. ReadingOK(c)'
    BY <1>2 DEF ReadingOK
  <2>2. CopiesOK(c)'
    BY <1>2, <1>6, Capturing DEF CapturerOK, CopiesOK, OfRevision
  <2>3. PlaceOK(p, c)'
    BY <1>2 DEF PlaceOK, Promoted
  <2> QED BY <1>3, <2>1, <2>2, <2>3
          DEF CapturerOK, ReadingOK, CopiesOK, PlaceOK, MirrorBy
<1> QED BY <1>4, <1>7, <1>8, <1>9, <1>10 DEF MirrorInv

\* The owner of a name takes entries away.
LEMMA EmptiedMirrorOK ==
    ASSUME MirrorInv, NEW p \in Capturers, capturer[p].at = "empty",
           NEW holds \in {"some", "nothing"}, EmptiedMirror(holds), UNCHANGED revision
    PROVE  /\ FinalOK' /\ final' = {MirrorBy(p, capturer[p], holds)}
           /\ returned = {} /\ \A q \in Capturers \ {p} : capturer[q].at \notin Promoted
<1>1. /\ OfRevision(capturer[p].copies)
      /\ \E h \in {"all", "some"} : final = {MirrorBy(p, capturer[p], h)}
  BY Capturing DEF CapturerOK, PlaceOK, CopiesOK
<1>2. \E m : final = {m} /\ m.receipt = [by |-> p, digest |-> capturer[p].copies]
  <2>1. PICK h \in {"all", "some"} : final = {MirrorBy(p, capturer[p], h)}
    BY <1>1
  <2>2. MirrorBy(p, capturer[p], h).receipt = [by |-> p, digest |-> capturer[p].copies]
    BY DEF MirrorBy, Mirror
  <2> QED BY <2>1, <2>2
<1>3. final' = {MirrorBy(p, capturer[p], holds)}
  BY <1>2 DEF EmptiedMirror, MirrorBy
<1>4. FinalOK'
  BY <1>1, <1>3, ManifestKept DEF FinalOK, OfRevision, MirrorBy, Mirror
<1>5. returned = {} /\ \A q \in Capturers \ {p} : capturer[q].at \notin Promoted
  BY OneOwner DEF Promoted
<1> QED BY <1>3, <1>4, <1>5

LEMMA EmptySomeKeeps ==
    ASSUME MirrorInv, NEW p \in Capturers, EmptySome(p)
    PROVE  MirrorInv'
<1>1. /\ capturer[p].at = "empty" /\ EmptiedMirror("some")
      /\ UNCHANGED <<source, revision, claimed, capturer, returned, writes, mirrorFaults>>
  BY DEF EmptySome, Doing
<1>2. /\ FinalOK' /\ final' = {MirrorBy(p, capturer[p], "some")}
      /\ returned = {} /\ \A q \in Capturers \ {p} : capturer[q].at \notin Promoted
  BY <1>1, EmptiedMirrorOK
<1>3. MirrorStateOK' /\ ReturnedOK'
  BY <1>1, <1>2 DEF MirrorInv, MirrorStateOK, ReturnedOK
<1>4. revision # {}
  BY <1>1, Capturing
<1>5. RevisionOK'
  BY <1>1, <1>4, ManifestKept DEF MirrorInv, RevisionOK, Doing
<1>6. ASSUME NEW q \in Capturers \ {p} PROVE CapturerOK(q, capturer[q])'
  <2>1. CapturerOK(q, capturer[q]) /\ capturer'[q] = capturer[q]
    BY <1>1, Capturing
  <2>2. \A m \in final' : m.receipt.by # q
    BY <1>2 DEF MirrorBy, Mirror
  <2> QED BY <1>1, <1>2, <2>1, <2>2, CapturerKept
<1>7. CapturerOK(p, capturer[p])'
  <2>1. CopiesOK(capturer[p])'
    BY <1>1, ManifestKept, Capturing DEF CapturerOK, CopiesOK, OfRevision
  <2>2. PlaceOK(p, capturer[p])'
    BY <1>1, <1>2 DEF PlaceOK, MirrorBy
  <2>3. ReadingOK(capturer[p])'
    BY <1>1 DEF ReadingOK
  <2> QED BY <2>1, <2>2, <2>3 DEF CapturerOK
<1> QED BY <1>2, <1>3, <1>5, <1>6, <1>7 DEF MirrorInv

LEMMA EmptyFinalKeeps ==
    ASSUME MirrorInv, NEW p \in Capturers, EmptyFinal(p)
    PROVE  MirrorInv'
<1>1. /\ capturer[p].at = "empty" /\ Continues(p, "remove") /\ EmptiedMirror("nothing")
      /\ UNCHANGED <<source, revision, claimed, returned, writes, mirrorFaults>>
  BY DEF EmptyFinal, Doing
<1>2. /\ FinalOK' /\ final' = {MirrorBy(p, capturer[p], "nothing")}
      /\ returned = {} /\ \A q \in Capturers \ {p} : capturer[q].at \notin Promoted
  BY <1>1, EmptiedMirrorOK
<1>3. \A m \in final' : m.holds = "nothing"
  BY <1>2 DEF MirrorBy, Mirror
<1> QED BY <1>1, <1>2, <1>3, CleansKeeps

LEMMA RemoveFinalKeeps ==
    ASSUME MirrorInv, NEW p \in Capturers, RemoveFinal(p)
    PROVE  MirrorInv'
<1>1. /\ capturer[p].at = "remove" /\ Continues(p, "clean")
      /\ final' = {m \in final : m.receipt.by # p}
      /\ UNCHANGED <<source, revision, claimed, returned, writes, mirrorFaults>>
  BY DEF RemoveFinal, Doing
<1>2. \A m \in final : m.receipt.by = p => m.holds = "nothing"
  BY <1>1, Capturing DEF CapturerOK, PlaceOK
<1>3. FinalOK'
  <2>1. final' = {} \/ \E m \in final' : final' = {m}
    BY <1>1 DEF MirrorInv, FinalOK
  <2> QED BY <1>1, <2>1, ManifestKept DEF MirrorInv, FinalOK, OfRevision
<1>4. (\E m \in final : m.holds # "nothing") => UNCHANGED final
  <2>1. ASSUME NEW m \in final, m.holds # "nothing" PROVE final' = final
    <3>1. final = {m} /\ m.receipt.by # p
      BY <1>2, <2>1 DEF MirrorInv, FinalOK
    <3> QED BY <1>1, <3>1
  <2> QED BY <2>1
<1>5. returned # {} => UNCHANGED final
  BY <1>4, OwnedHoldsSome
<1>6. \A q \in Capturers : capturer[q].at \in Promoted => UNCHANGED final
  BY <1>4, OwnedHoldsSome
<1>7. \A q \in Capturers : capturer[q].at = "remove" =>
         \A m \in final' : m.receipt.by = q => m.holds = "nothing"
  BY <1>1 DEF MirrorInv, CapturerOK, PlaceOK
<1> QED BY <1>1, <1>3, <1>5, <1>6, <1>7, CleansKeeps

LEMMA RemoveStagingKeeps ==
    ASSUME MirrorInv, NEW p \in Capturers, RemoveStaging(p)
    PROVE  MirrorInv'
<1>1. /\ capturer[p].at = "clean"
      /\ Becomes(p, [capturer[p] EXCEPT !.at = "release", !.result = "failed"])
      /\ UNCHANGED <<source, revision, final, returned, writes>>
      /\ claimed' \in BOOLEAN /\ mirrorFaults' \in 0..MaxMirrorFaults
  BY DEF RemoveStaging, Doing, MirrorInv, MirrorStateOK
<1> QED BY <1>1, ReleasesKeeps

LEMMA ReleaseClaimKeeps ==
    ASSUME MirrorInv, NEW p \in Capturers, Release(p)
    PROVE  MirrorInv'
<1>1. /\ EndsWith(p, capturer[p].result)
      /\ UNCHANGED <<source, revision, final, returned, writes>>
      /\ claimed' \in BOOLEAN /\ mirrorFaults' \in 0..MaxMirrorFaults
      /\ capturer[p].result \in {"none", "changed", "refused", "failed", "returned"}
  BY Capturing DEF Release, MirrorInv, MirrorStateOK, CapturerStates
<1> QED BY <1>1, EndsKeeps

LEMMA MirrorFaultKeeps ==
    ASSUME MirrorInv, NEW p \in Capturers,
           MirrorCallFails(p) \/ LateCallFails(p) \/ CapturerDies(p)
    PROVE  MirrorInv'
<1>1. /\ UNCHANGED <<source, revision, claimed, final, returned, writes>>
      /\ claimed' \in BOOLEAN /\ mirrorFaults' \in 0..MaxMirrorFaults
  BY MirrorAssumption
     DEF MirrorCallFails, LateCallFails, CapturerDies, Fault, MirrorInv, MirrorStateOK
<1>2. CASE EndsWith(p, "failed")
  BY <1>1, <1>2, EndsKeeps
<1>3. CASE /\ capturer[p].at \in {"scan", "copy", "seal", "promote", "empty", "remove"}
           /\ Continues(p, "clean")
  BY <1>1, <1>3, ContinuesKeeps DEF MirrorStages, Promoted
<1>4. CASE capturer[p].at \in {"verify", "after"} /\ Continues(p, "empty")
  BY <1>1, <1>4, ContinuesKeeps DEF MirrorStages, Promoted
<1>5. CASE /\ capturer[p].at \in {"unclaim", "bind"}
           /\ Becomes(p, [capturer[p] EXCEPT !.at = "release", !.result = "failed"])
  BY <1>1, <1>5, ReleasesKeeps
<1> QED BY <1>2, <1>3, <1>4, <1>5 DEF MirrorCallFails, LateCallFails, CapturerDies

LEMMA MirrorInitOK ==
    ASSUME MirrorInit
    PROVE  MirrorInv
<1>1. PICK c : c = [Idle EXCEPT !.result = "none"]
  OBVIOUS
<1>2. /\ c \in CapturerStates /\ c.at = "idle" /\ c.copies = NoCopies /\ c.seen = <<>>
      /\ c.file = 1 /\ c = Idle
  BY <1>1, IdleState DEF Idle
<1>3. \A p \in Capturers : capturer[p] = c
  BY <1>2 DEF MirrorInit
<1>4. MirrorStateOK
  <2>1. source \in [MirrorFiles -> FileStates]
    BY MirrorFacts DEF MirrorInit, FileStates
  <2>2. capturer \in [Capturers -> CapturerStates]
    BY <1>2 DEF MirrorInit
  <2>3. /\ writes = 0 /\ 0 \in 0..MaxWrites /\ mirrorFaults = 0 /\ 0 \in 0..MaxMirrorFaults
        /\ claimed = FALSE /\ 0 <= 0
    BY MirrorAssumption DEF MirrorInit
  <2> QED BY <2>1, <2>2, <2>3 DEF MirrorStateOK
<1>5. RevisionOK
  BY <1>2, <1>3 DEF MirrorInit, RevisionOK, Doing
<1>6. FinalOK /\ ReturnedOK
  BY DEF MirrorInit, FinalOK, ReturnedOK
<1>7. \A p \in Capturers : CapturerOK(p, capturer[p])
  BY <1>2, <1>3, MirrorFacts
     DEF CapturerOK, ReadingOK, CopiesOK, PlaceOK, Promoted
<1> QED BY <1>4, <1>5, <1>6, <1>7 DEF MirrorInv

LEMMA MirrorStutterKeeps ==
    ASSUME MirrorInv, UNCHANGED mirrorVars
    PROVE  MirrorInv'
<1>1. Manifest' = Manifest
  BY ManifestKept DEF mirrorVars
<1>2. MirrorStateOK' /\ FinalOK' /\ ReturnedOK'
  BY <1>1 DEF mirrorVars, MirrorInv, MirrorStateOK, FinalOK, OfRevision, ReturnedOK
<1>3. RevisionOK'
  BY <1>1 DEF mirrorVars, MirrorInv, RevisionOK, Doing
<1>4. \A p \in Capturers : CapturerOK(p, capturer[p])'
  BY CapturerKept DEF mirrorVars, MirrorInv, CapturerOK, PlaceOK
<1> QED BY <1>2, <1>3, <1>4 DEF MirrorInv

LEMMA MirrorStepKeeps ==
    ASSUME MirrorInv, [MirrorNext]_mirrorVars
    PROVE  MirrorInv'
<1>1. CASE UNCHANGED mirrorVars
  BY <1>1, MirrorStutterKeeps
<1>2. ASSUME NEW f \in MirrorFiles, NEW c \in Contents, NEW restored \in BOOLEAN,
             WriteSource(f, c, restored)
      PROVE  MirrorInv'
  BY <1>2, WriteSourceKeeps
<1>3. ASSUME NEW p \in Capturers,
             \/ BeginRevision(p) \/ EndRevision(p)
             \/ BeginCapture(p) \/ ReadFile(p) \/ CaptureBefore(p) \/ CaptureAfter(p)
             \/ RefuseReplay(p) \/ CreateClaim(p) \/ ScanFile(p) \/ CopyFile(p)
      PROVE  MirrorInv'
  BY <1>3, BeginRevisionKeeps, EndRevisionKeeps, BeginCaptureKeeps, ReadFileKeeps,
         CaptureBeforeKeeps, CaptureAfterKeeps, RefuseReplayKeeps, CreateClaimKeeps,
         ScanFileKeeps, CopyFileKeeps
<1>4. ASSUME NEW p \in Capturers,
             \/ SealStaging(p) \/ PromoteMirror(p) \/ Verify(p) \/ Unclaim(p) \/ WithMirror(p)
             \/ EmptySome(p) \/ EmptyFinal(p) \/ RemoveFinal(p) \/ RemoveStaging(p)
             \/ Release(p) \/ MirrorCallFails(p) \/ LateCallFails(p) \/ CapturerDies(p)
      PROVE  MirrorInv'
  BY <1>4, SealStagingKeeps, PromoteMirrorKeeps, VerifyKeeps, UnclaimKeeps, WithMirrorKeeps,
         EmptySomeKeeps, EmptyFinalKeeps, RemoveFinalKeeps, RemoveStagingKeeps,
         ReleaseClaimKeeps, MirrorFaultKeeps
<1> QED BY <1>1, <1>2, <1>3, <1>4 DEF MirrorNext

\* Whoever captures, writes, fails or dies, the mirror's name has one owner at
\* most, and its copies are of the revision (ImmutableSourceMirror).
THEOREM MirrorInvariant == MirrorSpec => []MirrorInv
<1>1. MirrorInit => MirrorInv
  BY MirrorInitOK
<1>2. MirrorInv /\ [MirrorNext]_mirrorVars => MirrorInv'
  BY MirrorStepKeeps
<1> QED BY <1>1, <1>2, PTL DEF MirrorSpec

\* A directory under a mirror's name holds the files of its revision and no
\* secret (_copy_file, os.replace).
THEOREM SealedMirrors == MirrorSpec => []SealedMirrorIsOfRevision
<1>1. MirrorInv => SealedMirrorIsOfRevision
  BY DEF MirrorInv, FinalOK, OfRevision, SealedMirrorIsOfRevision
<1> QED BY <1>1, MirrorInvariant, PTL

\* A mirror that a capture returned stays whole under its name, whatever other
\* captures of the revision promote, fail and clean up (_replace_staging,
\* _remove_pinned_entry).
THEOREM ReturnedMirrors == MirrorSpec => []ReturnedMirrorStands
<1>1. MirrorInv => ReturnedMirrorStands
  BY DEF MirrorInv, ReturnedOK, ReturnedMirrorStands
<1> QED BY <1>1, MirrorInvariant, PTL

\* Every variable of the mirror holds values of its kind.
THEOREM MirrorTypeCorrect == MirrorSpec => []MirrorTypeOK
<1>1. ASSUME MirrorInv PROVE MirrorTypeOK
  <2>1. MirrorStateOK /\ RevisionOK /\ FinalOK /\ ReturnedOK
    BY <1>1 DEF MirrorInv
  <2>2. \A S : S = {} \/ (\E x \in S : S = {x}) => Cardinality(S) <= 1
    <3> SUFFICES ASSUME NEW S, S = {} \/ \E x \in S : S = {x}
                 PROVE  Cardinality(S) <= 1
      OBVIOUS
    <3>1. CASE S = {}
      BY <3>1, FS_EmptySet
    <3>2. ASSUME NEW x \in S, S = {x}
          PROVE  Cardinality(S) <= 1
      <4>1. Cardinality({x}) = 1
        BY FS_Singleton
      <4> QED BY <3>2, <4>1
    <3> QED BY <3>1, <3>2
  <2>3. ASSUME NEW o \in returned, NEW q \in returned
        PROVE  o = q
    <3>1. {Mirror(o, "all")} = {Mirror(q, "all")}
      BY <2>1 DEF ReturnedOK
    <3>2. Mirror(o, "all") = Mirror(q, "all")
      BY <3>1
    <3> QED BY <3>2 DEF Mirror
  <2>4. returned = {} \/ \E o \in returned : returned = {o}
    BY <2>3
  <2>5. Cardinality(final) <= 1 /\ Cardinality(returned) <= 1
    BY <2>1, <2>2, <2>4 DEF FinalOK
  <2>6. \A p \in Capturers : capturer[p].file \in 1..(FileCount + 1)
    BY <2>1 DEF MirrorStateOK, CapturerStates
  <2>7. revision \subseteq Revisions
    BY <2>1 DEF RevisionOK
  <2> QED BY <2>1, <2>5, <2>6, <2>7 DEF MirrorStateOK, FileStates, FinalOK, MirrorTypeOK
<1> QED BY <1>1, MirrorInvariant, PTL

-----------------------------------------------------------------------------
(* Remediation *)

TreeContents == FileContents \cup {Gone, Link}
Workspaces == [Paths -> TreeContents]
ApplierStates ==
    [at : {"idle", "check", "stage", "replace", "restore"}, call : {"none", "validate", "apply"},
     patch : SUBSET patches, next : Nat, originals : Seq(TreeContents),
     found : Workspaces \cup {<<>>}, alone : BOOLEAN,
     answer : {"none", "passed", "blocked", "raised"}]

BenchOK ==
    /\ tree \in Workspaces /\ workspaceMade \in BOOLEAN
    /\ applier \in [Appliers -> ApplierStates]
    /\ residue \subseteq Appliers
    /\ disruptions \in 0..MaxRemediationFaults

\* A patch was built for the context its id names, and its changes are those of
\* some patch that was built.
PatchesOK ==
    \A p \in patches :
       /\ p = [content |-> p.content, id |-> p.id, digest |-> p.digest]
       /\ p.content = [context |-> p.content.context, evidence |-> p.content.evidence,
                       changes |-> p.content.changes, rollback |-> p.content.rollback]
       /\ p.id.context = p.content.context
       /\ p.content.changes \in Seq(FileChanges) /\ CanonicalChanges(p.content.changes)

Applied(w, p) == applier[w].patch = {p} /\ Identified(p)

\* A call is about one patch that was built; what it staged are the originals of
\* the changes it has passed.
CallOK(w) ==
    IF IsIdle(w) THEN applier[w].patch = {} /\ applier[w].call = "none"
    ELSE /\ \E p \in patches : Applied(w, p)
         /\ applier[w].call # "none"
         /\ applier[w].next \in 1..Len(CurrentChanges(w))
         /\ applier[w].found \in Workspaces
         /\ applier[w].at = "check" => applier[w].originals = <<>>
         /\ applier[w].at # "check" => applier[w].call = "apply"
         /\ applier[w].at = "stage" => Len(applier[w].originals) = applier[w].next - 1
         /\ applier[w].at \in {"replace", "restore"} =>
               Len(applier[w].originals) = Len(CurrentChanges(w))

\* t is the tree found with the first n changes made.
Written(t, found, cs, n) ==
    \A f \in Paths :
       /\ \A k \in 1..n : cs[k].path = f => t[f] = cs[k].after
       /\ (\A k \in 1..n : cs[k].path # f) => t[f] = found[f]

\* t is the tree found except for files that the first n changes made.
Undone(t, found, cs, n) ==
    \A f \in Paths :
       t[f] = found[f] \/ \E k \in 1..n : cs[k].path = f /\ t[f] \in FileContents

\* How many changes a call has made before anything failed, and what is known of the
\* tree t from them or, once it takes them back, from those that are left.
Made(a) == IF a.at = "replace" THEN a.next - 1 ELSE 0
Tracked(t, a, cs) ==
    IF a.at = "restore"
    THEN NamesFree(a.found, cs) => Undone(t, a.found, cs, a.next)
    ELSE Written(t, a.found, cs, Made(a))

\* Nobody else works beside a call that is alone, and the tree differs from the
\* one it found by the changes it has made.
AloneOK(w) ==
    ~IsIdle(w) /\ applier[w].alone =>
       /\ \A v \in Appliers \ {w} : IsIdle(v)
       /\ \A k \in 1..Len(applier[w].originals) :
             applier[w].originals[k] = applier[w].found[CurrentChanges(w)[k].path]
       /\ Tracked(tree, applier[w], CurrentChanges(w))

BenchInv ==
    /\ BenchOK /\ PatchesOK
    /\ \A w \in Appliers : CallOK(w) /\ AloneOK(w)

\* What has passed is the very patch that was built, for this workspace.
ValidationsOK ==
    \A v \in validations :
       /\ v = [patch |-> v.patch, status |-> v.status]
       /\ v.status \in {"passed", "blocked"}
       /\ v.status = "passed" => \E p \in patches : Identified(p) /\ p.id = v.patch

\* A preview that passed, and a request, are of a patch that passed.
Earned(patch, tenant, preview) ==
    /\ [patch |-> patch, status |-> "passed"] \in validations
    /\ tenant = JobContext.tenant
    /\ \E policy \in Policies :
          preview = <<patch, policy>> /\ policy.mode = "fixture" /\ policy.reviewed

ReviewInv ==
    /\ summary \in {{}, {"passed"}, {"blocked"}}
    /\ previews = {} \/ (\E v \in previews : previews = {v})
    /\ ValidationsOK
    /\ \A v \in previews : v.status = "passed" => Earned(v.patch, v.tenant, v.id)
    /\ \A r \in requests :
          /\ r = [id |-> r.id, tenant |-> r.tenant, patch |-> r.patch, preview |-> r.preview,
                  status |-> r.status, decision |-> r.decision]
          /\ Earned(r.patch, r.tenant, r.preview)

RemediationInv == BenchInv /\ ReviewInv

-----------------------------------------------------------------------------
(* The tree and the changes made in it. *)

LEMMA WrittenNone ==
    ASSUME NEW t \in Workspaces, NEW found \in Workspaces, NEW cs, Written(t, found, cs, 0)
    PROVE  t = found
<1>1. \A f \in Paths : t[f] = found[f]
  BY DEF Written
<1> QED BY <1>1 DEF Workspaces

LEMMA NoneWritten ==
    ASSUME NEW t, NEW cs
    PROVE  Written(t, t, cs, 0)
BY DEF Written

LEMMA WriteOne ==
    ASSUME NEW t \in Workspaces, NEW found, NEW cs \in Seq(FileChanges), CanonicalChanges(cs),
           NEW n \in 1..Len(cs), Written(t, found, cs, n - 1)
    PROVE  Written([t EXCEPT ![cs[n].path] = cs[n].after], found, cs, n)
<1> DEFINE u == [t EXCEPT ![cs[n].path] = cs[n].after]
<1>1. /\ cs[n].path \in Paths
      /\ \A k \in 1..n : k # n => k \in 1..(n - 1) /\ cs[k].path # cs[n].path
  <2>1. cs[n] \in FileChanges
    OBVIOUS
  <2>2. \A k \in 1..n : k \in 1..Len(cs) /\ (k # n => k \in 1..(n - 1))
    OBVIOUS
  <2> QED BY <2>1, <2>2 DEF FileChanges, CanonicalChanges
<1>2. \A f \in Paths : u[f] = IF f = cs[n].path THEN cs[n].after ELSE t[f]
  BY DEF Workspaces
<1>3. ASSUME NEW f \in Paths, NEW k \in 1..n, cs[k].path = f
      PROVE  u[f] = cs[k].after
  <2>1. CASE k = n
    BY <1>2, <1>3, <2>1
  <2>2. CASE k # n
    BY <1>1, <1>2, <1>3, <2>2 DEF Written
  <2> QED BY <2>1, <2>2
<1>4. ASSUME NEW f \in Paths, \A k \in 1..n : cs[k].path # f
      PROVE  u[f] = found[f]
  BY <1>1, <1>2, <1>4 DEF Written
<1> HIDE DEF u
<1>5. Written(u, found, cs, n)
  BY <1>3, <1>4 DEF Written
<1> QED BY <1>5 DEF u

\* Where changes are taken back, it matters only which are left.
LEMMA WrittenUndone ==
    ASSUME NEW t, NEW found, NEW cs \in Seq(FileChanges), NEW n \in 0..Len(cs),
           Written(t, found, cs, n)
    PROVE  Undone(t, found, cs, n)
<1> SUFFICES ASSUME NEW f \in Paths, NEW k \in 1..n, cs[k].path = f
             PROVE  t[f] \in FileContents
  BY DEF Written, Undone
<1>1. cs[k] \in FileChanges
  OBVIOUS
<1>2. t[f] = cs[k].after
  BY DEF Written
<1> QED BY <1>1, <1>2 DEF FileChanges

LEMMA UndoneNone ==
    ASSUME NEW t \in Workspaces, NEW found \in Workspaces, NEW cs, Undone(t, found, cs, 0)
    PROVE  t = found
<1>1. \A f \in Paths : t[f] = found[f]
  BY DEF Undone
<1> QED BY <1>1 DEF Workspaces

LEMMA PutBackOK ==
    ASSUME tree \in Workspaces, NEW f \in Paths, NEW c \in TreeContents
    PROVE  PutBack(f, c) \in Workspaces
BY DEF PutBack, Workspaces, TreeContents

\* The last change that is left is taken back, and what was under the name that its
\* original is restored through, if that was another change, with it.
LEMMA UndoOne ==
    ASSUME tree \in Workspaces, NEW found \in Workspaces, NEW cs \in Seq(FileChanges),
           CanonicalChanges(cs), NamesFree(found, cs), NEW n \in 1..Len(cs),
           Undone(tree, found, cs, n)
    PROVE  Undone(PutBack(cs[n].path, found[cs[n].path]), found, cs, n - 1)
<1> DEFINE f == cs[n].path
           name == RestoreNames[f]
           u == PutBack(f, found[f])
<1>1. f \in Paths /\ \A k \in 1..n : k # n => k \in 1..(n - 1)
  <2>1. cs[n] \in FileChanges
    OBVIOUS
  <2> QED BY <2>1 DEF FileChanges
<1>2. name # f /\ (name \in Paths => found[name] = Gone /\ tree[name] # Link)
  <2>1. name # f
    BY <1>1, RemediationAssumption
  <2>2. ASSUME name \in Paths
        PROVE  found[name] = Gone /\ tree[name] # Link
    <3>1. found[name] = Gone
      BY <2>2 DEF NamesFree
    <3>2. tree[name] = Gone \/ tree[name] \in FileContents
      BY <2>2, <3>1 DEF Undone
    <3> QED BY <3>1, <3>2, RemediationAssumption DEF Gone, Link
  <2> QED BY <2>1, <2>2
<1>3. u[f] = found[f]
  BY <1>1, <1>2 DEF PutBack, Workspaces
<1>4. ASSUME NEW g \in Paths, g # f
      PROVE  u[g] = tree[g] \/ u[g] = found[g]
  BY <1>1, <1>2, <1>4 DEF PutBack, Workspaces
<1>5. ASSUME NEW g \in Paths
      PROVE  u[g] = found[g] \/ \E k \in 1..(n - 1) : cs[k].path = g /\ u[g] \in FileContents
  <2>1. CASE g = f
    BY <1>3, <2>1
  <2>2. CASE g # f /\ u[g] = tree[g]
    <3>1. tree[g] = found[g] \/ \E k \in 1..n : cs[k].path = g /\ tree[g] \in FileContents
      BY DEF Undone
    <3> QED BY <1>1, <2>2, <3>1
  <2> QED BY <1>4, <2>1, <2>2
<1> HIDE DEF u
<1> QED BY <1>5 DEF Undone, u

\* With all its changes made the tree is the patched one.
LEMMA WrittenAll ==
    ASSUME NEW t, NEW found, NEW cs \in Seq(FileChanges),
           Written(t, found, cs, Len(cs)), NEW f \in Paths
    PROVE  LET patched == PatchedTree(found, cs)
           IN  t[f] = IF patched[f] = 0 THEN found[f] ELSE cs[patched[f]].after
<1> DEFINE patched == PatchedTree(found, cs)
<1>1. CASE \E k \in 1..Len(cs) : cs[k].path = f
  <2>1. /\ patched[f] = CHOOSE k \in 1..Len(cs) : cs[k].path = f
    BY <1>1 DEF PatchedTree
  <2>2. patched[f] \in 1..Len(cs) /\ cs[patched[f]].path = f
    BY <1>1, <2>1
  <2>3. patched[f] # 0
    BY <2>2
  <2> QED BY <2>2, <2>3 DEF Written
<1>2. CASE ~\E k \in 1..Len(cs) : cs[k].path = f
  <2>1. patched[f] = 0
    BY <1>2 DEF PatchedTree
  <2> QED BY <1>2, <2>1 DEF Written
<1> QED BY <1>1, <1>2

-----------------------------------------------------------------------------
(* Calls *)

LEMMA NoneStaged ==
    ASSUME NEW s, s = <<>>
    PROVE  s \in Seq(TreeContents) /\ Len(s) = 0 /\ \A k \in 1..Len(s) : FALSE
OBVIOUS

LEMMA SomeChange ==
    ASSUME NEW s \in Seq(FileChanges), s # <<>>
    PROVE  Len(s) \in Nat /\ 1 \in 1..Len(s)
OBVIOUS

LEMMA IdleWorkerState ==
    ASSUME NEW x \in {"none", "passed", "blocked", "raised"}, NEW a,
           a = [IdleWorker EXCEPT !.answer = x]
    PROVE  /\ a.at = "idle" /\ a.call = "none" /\ a.patch = {} /\ a.next = 1
           /\ a.originals = <<>> /\ a.found = <<>> /\ a.alone = TRUE /\ a.answer = x
           /\ a \in ApplierStates
<1>1. a = [at |-> "idle", call |-> "none", patch |-> {}, next |-> 1, originals |-> <<>>,
           found |-> <<>>, alone |-> TRUE, answer |-> x]
  BY DEF IdleWorker
<1>2. a.patch = {} /\ a.originals = <<>> /\ a.found = <<>> /\ a.alone = TRUE
  BY <1>1
<1>3. a.at = "idle" /\ a.call = "none" /\ a.next = 1
  BY <1>1
<1>4. a.answer \in {"none", "passed", "blocked", "raised"}
  BY <1>1
<1>5. a = [at |-> a.at, call |-> a.call, patch |-> a.patch, next |-> a.next,
           originals |-> a.originals, found |-> a.found, alone |-> a.alone, answer |-> a.answer]
  BY <1>1
<1>6. a \in ApplierStates
  <2>1. a.patch \in SUBSET patches
    BY <1>2
  <2>2. a.originals \in Seq(TreeContents)
    BY <1>2, NoneStaged
  <2>3. a.found \in Workspaces \cup {<<>>}
    BY <1>2
  <2>4. a.alone \in BOOLEAN
    BY <1>2
  <2>5. a.next \in Nat
    BY <1>3
  <2>6. a.at \in {"idle", "check", "stage", "replace", "restore"}
    BY <1>3
  <2>7. a.call \in {"none", "validate", "apply"}
    BY <1>3
  <2> QED BY <1>4, <1>5, <2>1, <2>2, <2>3, <2>4, <2>5, <2>6, <2>7 DEF ApplierStates
<1> QED BY <1>1, <1>6

LEMMA CallFacts ==
    ASSUME BenchInv, NEW w \in Appliers, ~IsIdle(w)
    PROVE  /\ CurrentPatch(w) \in patches /\ Identified(CurrentPatch(w))
           /\ applier[w].patch = {CurrentPatch(w)}
           /\ CurrentChanges(w) \in Seq(FileChanges) /\ CanonicalChanges(CurrentChanges(w))
           /\ applier[w].next \in 1..Len(CurrentChanges(w))
           /\ CurrentChange(w) \in FileChanges
           /\ applier[w] \in ApplierStates
<1>1. CallOK(w) /\ PatchesOK /\ applier[w] \in ApplierStates
  BY DEF BenchInv, BenchOK
<1>2. PICK p \in patches : Applied(w, p)
  BY <1>1 DEF CallOK
<1>3. CurrentPatch(w) = p
  BY <1>2 DEF CurrentPatch, Applied
<1>4. CurrentChanges(w) \in Seq(FileChanges) /\ CanonicalChanges(CurrentChanges(w))
  BY <1>1, <1>3 DEF CurrentChanges, PatchesOK
<1>5. applier[w].next \in 1..Len(CurrentChanges(w))
  BY <1>1 DEF CallOK
<1> QED BY <1>1, <1>2, <1>3, <1>4, <1>5 DEF CurrentChange, Applied

\* A step of a call disturbs no other: one that is alone would see this one idle.
LEMMA CallStepKeeps ==
    ASSUME BenchInv, NEW w \in Appliers, ~IsIdle(w), NEW a \in ApplierStates,
           applier' = [applier EXCEPT ![w] = a], patches' = patches,
           tree' \in Workspaces, workspaceMade' \in BOOLEAN, residue' \subseteq Appliers,
           disruptions' \in 0..MaxRemediationFaults,
           CallOK(w)', AloneOK(w)'
    PROVE  BenchInv'
<1>1. BenchOK'
  BY DEF BenchInv, BenchOK, ApplierStates
<1>2. PatchesOK'
  BY DEF BenchInv, PatchesOK
<1>3. ASSUME NEW v \in Appliers, v # w
      PROVE  (CallOK(v) /\ AloneOK(v))'
  <2>1. applier'[v] = applier[v]
    BY <1>3 DEF BenchInv, BenchOK
  <2>2. CallOK(v)'
    <3>1. /\ CurrentChanges(v)' = CurrentChanges(v) /\ IsIdle(v)' = IsIdle(v)
          /\ \A p : Applied(v, p)' = Applied(v, p)
      BY <2>1 DEF IsIdle, Applied, CurrentChanges, CurrentPatch
    <3>2. CallOK(v)
      BY DEF BenchInv
    <3> QED BY <2>1, <3>1, <3>2 DEF CallOK
  <2>3. IsIdle(v) \/ ~applier[v].alone
    BY <1>3 DEF BenchInv, AloneOK
  <2>4. AloneOK(v)'
    BY <2>1, <2>3 DEF AloneOK, IsIdle
  <2> QED BY <2>2, <2>4
<1> QED BY <1>1, <1>2, <1>3 DEF BenchInv

LEMMA EndCallKeeps ==
    ASSUME BenchInv, NEW w \in Appliers, ~IsIdle(w),
           NEW x \in {"none", "passed", "blocked", "raised"}, EndCall(w, x), patches' = patches,
           tree' \in Workspaces, workspaceMade' \in BOOLEAN, residue' \subseteq Appliers,
           disruptions' \in 0..MaxRemediationFaults
    PROVE  BenchInv'
<1>1. PICK a : a = [IdleWorker EXCEPT !.answer = x]
  OBVIOUS
<1>2. a \in ApplierStates /\ a.at = "idle" /\ a.patch = {} /\ a.call = "none"
  BY <1>1, IdleWorkerState
<1>3. applier' = [applier EXCEPT ![w] = a] /\ applier'[w] = a
  BY <1>1 DEF EndCall, BenchInv, BenchOK
<1>4. CallOK(w)' /\ AloneOK(w)'
  BY <1>2, <1>3 DEF CallOK, AloneOK, IsIdle
<1> QED BY <1>2, <1>3, <1>4, CallStepKeeps

\* A call goes on with the patch it is about.
LEMMA GoesOnKeeps ==
    ASSUME BenchInv, NEW w \in Appliers, ~IsIdle(w), NEW a \in ApplierStates,
           applier' = [applier EXCEPT ![w] = a],
           a.at # "idle" /\ a.patch = applier[w].patch /\ a.call = applier[w].call
              /\ a.found = applier[w].found /\ a.alone = applier[w].alone,
           tree' \in Workspaces, UNCHANGED <<workspaceMade, residue, patches>>,
           disruptions' \in 0..MaxRemediationFaults,
           a.next \in 1..Len(CurrentChanges(w)),
           a.at = "check" => a.originals = <<>>,
           a.at # "check" => a.call = "apply",
           a.at = "stage" => Len(a.originals) = a.next - 1,
           a.at \in {"replace", "restore"} => Len(a.originals) = Len(CurrentChanges(w)),
           applier[w].alone =>
              /\ \A k \in 1..Len(a.originals) :
                    a.originals[k] = applier[w].found[CurrentChanges(w)[k].path]
              /\ Tracked(tree', a, CurrentChanges(w))
    PROVE  BenchInv'
<1>1. applier'[w] = a /\ \A v \in Appliers \ {w} : applier'[v] = applier[v]
  BY DEF BenchInv, BenchOK
<1>2. CurrentChanges(w)' = CurrentChanges(w) /\ ~IsIdle(w)'
  BY <1>1 DEF CurrentChanges, CurrentPatch, IsIdle
<1>3. CallOK(w)'
  <2>1. PICK p \in patches : Applied(w, p)
    BY CallFacts DEF Applied
  <2>2. \E q \in patches' : Applied(w, q)'
    BY <1>1, <2>1 DEF Applied
  <2>3. a.found \in Workspaces /\ a.call # "none"
    BY DEF BenchInv, CallOK
  <2> QED BY <1>1, <1>2, <2>2, <2>3 DEF CallOK
<1>4. AloneOK(w)'
  <2> SUFFICES ASSUME applier[w].alone
               PROVE  AloneOK(w)'
    BY <1>1 DEF AloneOK
  <2>1. \A v \in Appliers \ {w} : IsIdle(v)
    BY DEF BenchInv, AloneOK
  <2>2. \A v \in Appliers \ {w} : IsIdle(v)'
    BY <1>1, <2>1 DEF IsIdle
  <2>3. /\ \A k \in 1..Len(a.originals) :
              a.originals[k] = applier[w].found[CurrentChanges(w)[k].path]
        /\ Tracked(tree', a, CurrentChanges(w))
    OBVIOUS
  <2>4. Tracked(tree, applier[w], CurrentChanges(w))'
    BY <1>1, <1>2, <2>3 DEF Tracked, Written, Undone, NamesFree, Made
  <2> QED BY <1>1, <1>2, <2>2, <2>3, <2>4 DEF AloneOK
<1> QED BY <1>3, <1>4, CallStepKeeps DEF BenchInv, BenchOK

\* A call that takes nothing back.
LEMMA WritesOnKeeps ==
    ASSUME BenchInv, NEW w \in Appliers, ~IsIdle(w), NEW a \in ApplierStates,
           applier' = [applier EXCEPT ![w] = a],
           a.at \notin {"idle", "restore"} /\ a.patch = applier[w].patch
              /\ a.call = applier[w].call /\ a.found = applier[w].found
              /\ a.alone = applier[w].alone,
           tree' \in Workspaces, UNCHANGED <<workspaceMade, residue, patches>>,
           disruptions' \in 0..MaxRemediationFaults,
           a.next \in 1..Len(CurrentChanges(w)),
           a.at = "check" => a.originals = <<>>,
           a.at # "check" => a.call = "apply",
           a.at = "stage" => Len(a.originals) = a.next - 1,
           a.at = "replace" => Len(a.originals) = Len(CurrentChanges(w)),
           applier[w].alone =>
              /\ \A k \in 1..Len(a.originals) :
                    a.originals[k] = applier[w].found[CurrentChanges(w)[k].path]
              /\ Written(tree', applier[w].found, CurrentChanges(w), Made(a))
    PROVE  BenchInv'
<1>1. applier[w].alone => Tracked(tree', a, CurrentChanges(w))
  BY DEF Tracked
<1> QED BY <1>1, GoesOnKeeps

LEMMA CheckChangeKeeps ==
    ASSUME BenchInv, NEW w \in Appliers, CheckChange(w)
    PROVE  BenchInv'
<1> USE DEF CheckChange
<1>1. /\ ~IsIdle(w) /\ applier[w].at = "check"
      /\ tree' \in Workspaces /\ disruptions' \in 0..MaxRemediationFaults
      /\ workspaceMade' \in BOOLEAN /\ residue' \subseteq Appliers
      /\ CallOK(w) /\ AloneOK(w)
  BY DEF IsIdle, BenchInv, BenchOK
<1>2. ASSUME NEW x \in {"passed", "blocked"}, Answer(w, x)
      PROVE  BenchInv'
  BY <1>1, <1>2, EndCallKeeps DEF Answer
<1>3. /\ applier[w].originals = <<>>
      /\ applier[w].alone => Written(tree', applier[w].found, CurrentChanges(w), 0)
  BY <1>1 DEF CallOK, AloneOK, Tracked, Made, Written
<1>4. CASE NextFile(w) /\ applier[w].next < Len(CurrentChanges(w))
  <2>1. PICK a : a = [applier[w] EXCEPT !.next = @ + 1]
    OBVIOUS
  <2>2. /\ a.at = "check" /\ a.patch = applier[w].patch /\ a.call = applier[w].call
        /\ a.found = applier[w].found /\ a.alone = applier[w].alone
        /\ a.originals = applier[w].originals /\ a.next = applier[w].next + 1
        /\ a \in ApplierStates
    BY <1>1, <2>1, CallFacts DEF ApplierStates
  <2>3. a.next \in 1..Len(CurrentChanges(w)) /\ Made(a) = 0
    BY <1>1, <1>4, <2>2, CallFacts DEF Made
  <2>4. applier' = [applier EXCEPT ![w] = a]
    BY <1>4, <2>1 DEF NextFile
  <2>5. \A k \in 1..Len(a.originals) : FALSE
    BY <1>3, <2>2, NoneStaged
  <2>6. applier[w].alone => Written(tree', applier[w].found, CurrentChanges(w), Made(a))
    BY <1>3, <2>3
  <2>7. UNCHANGED <<workspaceMade, residue, patches>>
    OBVIOUS
  <2> QED BY <1>1, <1>3, <2>2, <2>3, <2>4, <2>5, <2>6, <2>7, WritesOnKeeps
<1>5. CASE GoTo(w, "stage") /\ applier[w].call # "validate"
  <2>1. PICK a : a = [applier[w] EXCEPT !.at = "stage", !.next = 1]
    OBVIOUS
  <2>2. /\ a.at = "stage" /\ a.patch = applier[w].patch /\ a.call = applier[w].call
        /\ a.found = applier[w].found /\ a.alone = applier[w].alone
        /\ a.originals = applier[w].originals /\ a.next = 1
        /\ a \in ApplierStates
    BY <1>1, <2>1, CallFacts DEF ApplierStates
  <2>3. a.next \in 1..Len(CurrentChanges(w)) /\ Made(a) = 0
    BY <1>1, <1>5, <2>2, CallFacts DEF Made
  <2>4. applier' = [applier EXCEPT ![w] = a]
    BY <1>5, <2>1 DEF GoTo
  <2>5. a.call = "apply"
    BY <1>1, <1>5, <2>2 DEF CallOK, BenchInv, BenchOK, ApplierStates
  <2>6. Len(a.originals) = a.next - 1 /\ \A k \in 1..Len(a.originals) : FALSE
    BY <1>3, <2>2, NoneStaged
  <2>7. applier[w].alone => Written(tree', applier[w].found, CurrentChanges(w), Made(a))
    BY <1>3, <2>3
  <2>8. UNCHANGED <<workspaceMade, residue, patches>>
    OBVIOUS
  <2> QED BY <1>1, <1>3, <2>2, <2>3, <2>4, <2>5, <2>6, <2>7, <2>8, WritesOnKeeps
<1>6. applier[w].next \in 1..Len(CurrentChanges(w))
  BY <1>1, CallFacts
<1> QED BY <1>2, <1>4, <1>5, <1>6

LEMMA StageChangeKeeps ==
    ASSUME BenchInv, NEW w \in Appliers, StageChange(w)
    PROVE  BenchInv'
<1> USE DEF StageChange
<1> DEFINE cs == CurrentChanges(w)
           n == applier[w].next
           more == n < Len(cs)
<1>1. /\ ~IsIdle(w) /\ applier[w].at = "stage"
      /\ tree' \in Workspaces /\ disruptions' \in 0..MaxRemediationFaults
      /\ workspaceMade' \in BOOLEAN /\ residue' \subseteq Appliers
      /\ CallOK(w) /\ AloneOK(w) /\ tree \in Workspaces
      /\ UNCHANGED <<tree, workspaceMade, residue, patches>>
  BY DEF IsIdle, BenchInv, BenchOK
<1>2. CASE Answer(w, "blocked")
  BY <1>1, <1>2, EndCallKeeps DEF Answer
<1>3. CASE ~StagingRefused(CurrentChange(w))
  <2>1. PICK a : a = [applier[w] EXCEPT !.originals = Append(@, tree[CurrentChange(w).path]),
                                        !.next = IF @ < Len(cs) THEN @ + 1 ELSE 1,
                                        !.at = IF more THEN "stage" ELSE "replace"]
    OBVIOUS
  <2>2. /\ CurrentChange(w) \in FileChanges /\ CurrentChange(w) = cs[n]
        /\ n \in 1..Len(cs) /\ Len(cs) \in Nat
        /\ applier[w] \in ApplierStates /\ applier[w].originals \in Seq(TreeContents)
        /\ Len(applier[w].originals) = n - 1 /\ applier[w].call = "apply"
    BY <1>1, CallFacts DEF CallOK, CurrentChange, ApplierStates
  <2>3. CurrentChange(w).path \in Paths /\ tree[CurrentChange(w).path] \in TreeContents
    BY <1>1, <2>2 DEF FileChanges, Workspaces
  <2>4. Append(applier[w].originals, tree[CurrentChange(w).path]) \in Seq(TreeContents)
    BY <2>2, <2>3
  <2>5. /\ a.at = (IF more THEN "stage" ELSE "replace") /\ a.next = (IF more THEN n + 1 ELSE 1)
        /\ a.originals = Append(applier[w].originals, tree[CurrentChange(w).path])
        /\ a.patch = applier[w].patch /\ a.call = applier[w].call
        /\ a.found = applier[w].found /\ a.alone = applier[w].alone
    BY <1>1, <2>1, <2>2 DEF ApplierStates
  <2>6. a \in ApplierStates
    <3>1. (IF n < Len(cs) THEN n + 1 ELSE 1) \in Nat
      BY <2>2
    <3> QED BY <2>1, <2>2, <2>4, <3>1 DEF ApplierStates
  <2>7. applier' = [applier EXCEPT ![w] = a]
    BY <1>3, <2>1
  <2>8. /\ a.next \in 1..Len(cs) /\ Len(a.originals) = n /\ a.at \in {"stage", "replace"}
        /\ a.at = "stage" => Len(a.originals) = a.next - 1
        /\ a.at = "replace" => Len(a.originals) = Len(cs)
        /\ Made(a) = 0
    <3>1. Len(a.originals) = n
      BY <2>2, <2>3, <2>5
    <3>2. CASE more
      BY <2>2, <2>5, <3>1, <3>2 DEF Made
    <3>3. CASE ~more
      BY <2>2, <2>5, <3>1, <3>3 DEF Made
    <3> QED BY <3>2, <3>3
  <2>9. ASSUME applier[w].alone
        PROVE  /\ \A k \in 1..Len(a.originals) : a.originals[k] = applier[w].found[cs[k].path]
               /\ Written(tree', applier[w].found, cs, Made(a))
    <3>1. Written(tree, applier[w].found, cs, 0)
      BY <1>1, <2>9 DEF AloneOK, Tracked, Made
    <3>2. applier[w].found \in Workspaces
      BY <1>1 DEF CallOK
    <3>3. tree = applier[w].found
      BY <1>1, <3>1, <3>2, WrittenNone
    <3>4. \A k \in 1..(n - 1) : applier[w].originals[k] = applier[w].found[cs[k].path]
      BY <1>1, <2>2, <2>9 DEF AloneOK
    <3>5. ASSUME NEW k \in 1..n
          PROVE  a.originals[k] = applier[w].found[cs[k].path]
      <4>1. CASE k = n
        BY <2>2, <2>3, <2>5, <3>3, <4>1
      <4>2. CASE k # n
        BY <2>2, <2>3, <2>5, <3>4, <4>2
      <4> QED BY <4>1, <4>2
    <3> QED BY <1>1, <2>8, <3>1, <3>5
  <2> QED BY <1>1, <2>2, <2>5, <2>6, <2>7, <2>8, <2>9, WritesOnKeeps
<1> QED BY <1>2, <1>3

LEMMA ReplaceFileKeeps ==
    ASSUME BenchInv, NEW w \in Appliers, ReplaceFile(w)
    PROVE  BenchInv'
<1> USE DEF ReplaceFile
<1> DEFINE cs == CurrentChanges(w)
           n == applier[w].next
<1>1. /\ ~IsIdle(w) /\ applier[w].at = "replace" /\ disruptions' \in 0..MaxRemediationFaults
      /\ workspaceMade' \in BOOLEAN /\ residue' \subseteq Appliers
      /\ CallOK(w) /\ AloneOK(w) /\ tree \in Workspaces
      /\ UNCHANGED <<workspaceMade, residue, patches>>
  BY DEF IsIdle, BenchInv, BenchOK
<1>2. /\ CurrentChange(w) \in FileChanges /\ CurrentChange(w) = cs[n]
      /\ n \in 1..Len(cs) /\ Len(cs) \in Nat /\ cs \in Seq(FileChanges) /\ CanonicalChanges(cs)
      /\ applier[w] \in ApplierStates
      /\ Len(applier[w].originals) = Len(cs) /\ applier[w].call = "apply"
  BY <1>1, CallFacts DEF CallOK, CurrentChange
<1>3. tree' = [tree EXCEPT ![cs[n].path] = cs[n].after]
  BY <1>2 DEF Wrote
<1>4. cs[n].after \in TreeContents
  BY <1>2 DEF FileChanges, TreeContents
<1>5. tree' \in Workspaces
  BY <1>1, <1>3, <1>4 DEF Workspaces
<1>6. CASE Answer(w, "passed")
  BY <1>1, <1>5, <1>6, EndCallKeeps DEF Answer
<1>7. CASE n < Len(cs) /\ NextFile(w)
  <2>1. PICK a : a = [applier[w] EXCEPT !.next = @ + 1]
    OBVIOUS
  <2>2. /\ a.at = "replace" /\ a.patch = applier[w].patch /\ a.call = applier[w].call
        /\ a.found = applier[w].found /\ a.alone = applier[w].alone
        /\ a.originals = applier[w].originals /\ a.next = n + 1
        /\ a \in ApplierStates
    <3>1. n + 1 \in Nat
      BY <1>1, <1>2
    <3>2. a \in ApplierStates
      BY <1>2, <2>1, <3>1 DEF ApplierStates
    <3> QED BY <1>1, <1>2, <2>1, <3>2 DEF ApplierStates
  <2>3. a.next \in 1..Len(cs) /\ Made(a) = n
    BY <1>2, <1>7, <2>2 DEF Made
  <2>4. applier' = [applier EXCEPT ![w] = a]
    BY <1>7, <2>1 DEF NextFile
  <2>5. ASSUME applier[w].alone
        PROVE  /\ \A k \in 1..Len(a.originals) : a.originals[k] = applier[w].found[cs[k].path]
               /\ Written(tree', applier[w].found, cs, Made(a))
    <3>1. /\ Written(tree, applier[w].found, cs, n - 1)
          /\ \A k \in 1..Len(a.originals) : a.originals[k] = applier[w].found[cs[k].path]
      BY <1>1, <2>2, <2>5 DEF AloneOK, Tracked, Made
    <3> QED BY <1>1, <1>2, <1>3, <2>3, <3>1, WriteOne
  <2> QED BY <1>1, <1>2, <1>5, <2>2, <2>3, <2>4, <2>5, WritesOnKeeps
<1> QED BY <1>6, <1>7

LEMMA ApplyFailsKeeps ==
    ASSUME BenchInv, NEW w \in Appliers, ApplyFails(w)
    PROVE  BenchInv'
<1> USE DEF ApplyFails
<1> DEFINE cs == CurrentChanges(w)
           n == applier[w].next
<1>1. /\ ~IsIdle(w) /\ disruptions' \in 0..MaxRemediationFaults
      /\ workspaceMade' \in BOOLEAN /\ residue' \subseteq Appliers
      /\ CallOK(w) /\ AloneOK(w) /\ tree' \in Workspaces
      /\ UNCHANGED <<tree, workspaceMade, residue, patches>>
  BY RemediationAssumption DEF IsIdle, BenchInv, BenchOK
<1>2. /\ n \in 1..Len(cs) /\ Len(cs) \in Nat /\ applier[w] \in ApplierStates
  BY <1>1, CallFacts
<1>3. CASE Answer(w, "blocked")
  BY <1>1, <1>3, EndCallKeeps DEF Answer
<1>4. CASE /\ applier[w].at = "replace" /\ n > 1
           /\ applier' = [applier EXCEPT ![w].at = "restore", ![w].next = @ - 1]
  <2>1. PICK a : a = [applier[w] EXCEPT !.at = "restore", !.next = @ - 1]
    OBVIOUS
  <2>2. /\ a.at = "restore" /\ a.patch = applier[w].patch /\ a.call = applier[w].call
        /\ a.found = applier[w].found /\ a.alone = applier[w].alone
        /\ a.originals = applier[w].originals /\ a.next = n - 1
        /\ a \in ApplierStates
    <3>1. n - 1 \in Nat
      BY <1>1, <1>2, <1>4
    <3>2. a \in ApplierStates
      BY <1>2, <2>1, <3>1 DEF ApplierStates
    <3> QED BY <1>1, <1>2, <1>4, <2>1, <3>2 DEF ApplierStates
  <2>3. /\ a.next \in 1..Len(cs) /\ a.next = n - 1 /\ n - 1 \in 0..Len(cs)
        /\ Len(a.originals) = Len(cs) /\ a.call = "apply"
    BY <1>1, <1>2, <1>4, <2>2 DEF CallOK
  <2>4. applier' = [applier EXCEPT ![w] = a]
    BY <1>4, <2>1
  <2>5. ASSUME applier[w].alone
        PROVE  /\ \A k \in 1..Len(a.originals) : a.originals[k] = applier[w].found[cs[k].path]
               /\ Tracked(tree', a, cs)
    <3>1. /\ Written(tree, applier[w].found, cs, n - 1)
          /\ \A k \in 1..Len(a.originals) : a.originals[k] = applier[w].found[cs[k].path]
      BY <1>1, <1>4, <2>2, <2>5 DEF AloneOK, Tracked, Made
    <3>2. cs \in Seq(FileChanges)
      BY <1>1, CallFacts
    <3>3. Undone(tree, applier[w].found, cs, n - 1)
      BY <2>3, <3>1, <3>2, WrittenUndone
    <3>4. tree' = tree
      BY <1>1
    <3> QED BY <2>2, <2>3, <3>1, <3>3, <3>4 DEF Tracked
  <2> QED BY <1>1, <2>2, <2>3, <2>4, <2>5, GoesOnKeeps
<1> QED BY <1>3, <1>4

LEMMA RestoreFileKeeps ==
    ASSUME BenchInv, NEW w \in Appliers, RestoreFile(w)
    PROVE  BenchInv'
<1> USE DEF RestoreFile
<1> DEFINE cs == CurrentChanges(w)
           n == applier[w].next
<1>1. /\ ~IsIdle(w) /\ applier[w].at = "restore" /\ disruptions' \in 0..MaxRemediationFaults
      /\ workspaceMade' \in BOOLEAN /\ residue' \subseteq Appliers
      /\ CallOK(w) /\ AloneOK(w) /\ tree \in Workspaces
      /\ UNCHANGED <<workspaceMade, residue, patches>>
  BY DEF IsIdle, BenchInv, BenchOK
<1>2. /\ CurrentChange(w) = cs[n] /\ applier[w].originals \in Seq(TreeContents)
      /\ n \in 1..Len(cs) /\ Len(cs) \in Nat /\ cs \in Seq(FileChanges) /\ CanonicalChanges(cs)
      /\ applier[w] \in ApplierStates
      /\ Len(applier[w].originals) = Len(cs) /\ applier[w].call = "apply"
  BY <1>1, CallFacts DEF CallOK, CurrentChange, ApplierStates
<1>3. tree' = PutBack(cs[n].path, applier[w].originals[n])
  BY <1>2
<1>4. applier[w].originals[n] \in TreeContents /\ cs[n].path \in Paths
  <2>1. cs[n] \in FileChanges
    BY <1>2
  <2> QED BY <1>2, <2>1 DEF FileChanges
<1>5. tree' \in Workspaces
  BY <1>1, <1>3, <1>4, PutBackOK
<1>6. CASE Answer(w, "blocked")
  BY <1>1, <1>5, <1>6, EndCallKeeps DEF Answer
<1>7. CASE n > 1 /\ applier' = [applier EXCEPT ![w].next = @ - 1]
  <2>1. PICK a : a = [applier[w] EXCEPT !.next = @ - 1]
    OBVIOUS
  <2>2. /\ a.at = "restore" /\ a.patch = applier[w].patch /\ a.call = applier[w].call
        /\ a.found = applier[w].found /\ a.alone = applier[w].alone
        /\ a.originals = applier[w].originals /\ a.next = n - 1
        /\ a \in ApplierStates
    <3>1. n - 1 \in Nat
      BY <1>1, <1>2, <1>7
    <3>2. a \in ApplierStates
      BY <1>2, <2>1, <3>1 DEF ApplierStates
    <3> QED BY <1>1, <1>2, <1>7, <2>1, <3>2 DEF ApplierStates
  <2>3. a.next \in 1..Len(cs) /\ a.next = n - 1
    BY <1>2, <1>7, <2>2
  <2>4. applier' = [applier EXCEPT ![w] = a]
    BY <1>7, <2>1
  <2>5. ASSUME applier[w].alone
        PROVE  /\ \A k \in 1..Len(a.originals) : a.originals[k] = applier[w].found[cs[k].path]
               /\ Tracked(tree', a, cs)
    <3>1. \A k \in 1..Len(a.originals) : a.originals[k] = applier[w].found[cs[k].path]
      BY <1>1, <2>2, <2>5 DEF AloneOK
    <3>2. ASSUME NamesFree(applier[w].found, cs)
          PROVE  Undone(tree', applier[w].found, cs, n - 1)
      <4>1. Undone(tree, applier[w].found, cs, n)
        BY <1>1, <2>5, <3>2 DEF AloneOK, Tracked
      <4>2. applier[w].originals[n] = applier[w].found[cs[n].path]
        BY <1>2, <2>2, <3>1
      <4>3. applier[w].found \in Workspaces
        BY <1>1 DEF CallOK
      <4>4. tree' = PutBack(cs[n].path, applier[w].found[cs[n].path])
        BY <1>3, <4>2
      <4> QED BY <1>1, <1>2, <3>2, <4>1, <4>3, <4>4, UndoOne
    <3> QED BY <2>2, <2>3, <3>1, <3>2 DEF Tracked
  <2> QED BY <1>1, <1>2, <1>5, <2>2, <2>3, <2>4, <2>5, GoesOnKeeps
<1> QED BY <1>6, <1>7

LEMMA RestoreBegunOK ==
    ASSUME BenchInv, NEW w \in Appliers, ~IsIdle(w), RestoreBegun(w)
    PROVE  tree' \in Workspaces
<1> DEFINE name == RestoreNames[CurrentChange(w).path]
           original == applier[w].originals[applier[w].next]
<1>1. tree \in Workspaces /\ CallOK(w)
  BY DEF BenchInv, BenchOK
<1>2. CASE tree' = tree
  BY <1>1, <1>2
<1>3. CASE /\ applier[w].at = "restore" /\ name \in Paths
           /\ tree' = [tree EXCEPT ![name] = original]
  <2>1. /\ applier[w].originals \in Seq(TreeContents)
        /\ applier[w].next \in 1..Len(applier[w].originals)
    BY <1>1, <1>3, CallFacts DEF CallOK, ApplierStates
  <2>2. original \in TreeContents
    BY <2>1
  <2> QED BY <1>1, <1>3, <2>2 DEF Workspaces
<1> QED BY <1>2, <1>3 DEF RestoreBegun

LEMMA LeavesCallKeeps ==
    ASSUME BenchInv, NEW w \in Appliers, RestoreRaises(w) \/ ApplierDies(w)
    PROVE  BenchInv'
<1>1. /\ ~IsIdle(w) /\ disruptions' \in 0..MaxRemediationFaults
      /\ workspaceMade' \in BOOLEAN /\ residue' \subseteq Appliers
      /\ tree' \in Workspaces /\ patches' = patches
  <2>1. ~IsIdle(w) /\ patches' = patches /\ BenchOK
    BY DEF RestoreRaises, ApplierDies, IsIdle, BenchInv
  <2>2. /\ disruptions' \in 0..MaxRemediationFaults /\ workspaceMade' \in BOOLEAN
        /\ residue' \subseteq Appliers
    BY <2>1, RemediationAssumption DEF RestoreRaises, ApplierDies, BenchOK
  <2>3. tree' \in Workspaces
    BY <2>1, RestoreBegunOK DEF RestoreRaises, ApplierDies
  <2> QED BY <2>1, <2>2, <2>3
<1>2. EndCall(w, "raised") \/ EndCall(w, "none")
  BY DEF RestoreRaises, ApplierDies
<1> QED BY <1>1, <1>2, EndCallKeeps

\* A call that begins finds the others idle, or none of them is alone.
LEMMA BeginCallKeeps ==
    ASSUME BenchInv, NEW w \in Appliers, NEW p \in patches, NEW call \in {"validate", "apply"},
           BeginCall(w, p, call)
    PROVE  BenchInv'
<1> USE DEF BeginCall
<1>1. /\ UNCHANGED <<tree, workspaceMade, residue, disruptions, patches>>
      /\ IsIdle(w) /\ BenchOK /\ PatchesOK /\ CallOK(w)
  BY DEF BenchInv
<1>2. CASE ~Identified(p)
  <2>1. PICK a : a = [applier[w] EXCEPT !.answer = "blocked"]
    OBVIOUS
  <2>2. /\ a.at = "idle" /\ a.patch = {} /\ a.call = "none" /\ a \in ApplierStates
        /\ applier' = [applier EXCEPT ![w] = a]
    BY <1>1, <1>2, <2>1 DEF BenchOK, ApplierStates, IsIdle, CallOK
  <2>3. applier'[w] = a /\ \A v \in Appliers \ {w} : applier'[v] = applier[v]
    BY <2>2 DEF BenchInv, BenchOK
  <2>4. BenchOK' /\ PatchesOK'
    BY <1>1, <2>2 DEF BenchOK, ApplierStates, PatchesOK
  <2>5. \A v \in Appliers : IsIdle(v)' = IsIdle(v)
    BY <1>1, <2>2, <2>3 DEF IsIdle
  <2>6. ASSUME NEW v \in Appliers, v # w
        PROVE  (CallOK(v) /\ AloneOK(v))'
    <3>1. applier'[v] = applier[v] /\ CurrentChanges(v)' = CurrentChanges(v)
      BY <2>3, <2>6 DEF CurrentChanges, CurrentPatch
    <3>2. CallOK(v) /\ AloneOK(v)
      BY DEF BenchInv
    <3>3. CallOK(v)'
      BY <1>1, <2>5, <3>1, <3>2 DEF CallOK, Applied
    <3>5. ASSUME ~IsIdle(v), applier[v].alone
          PROVE  /\ Tracked(tree, applier[v], CurrentChanges(v))'
                 /\ \A u \in Appliers \ {v} : IsIdle(u)'
      <4>1. /\ Tracked(tree, applier[v], CurrentChanges(v))
            /\ \A u \in Appliers \ {v} : IsIdle(u)
        BY <3>2, <3>5 DEF AloneOK
      <4>2. Tracked(tree', applier'[v], CurrentChanges(v)')
        BY <1>1, <3>1, <4>1
      <4>3. Tracked(tree, applier[v], CurrentChanges(v))'
        BY ONLY <4>2 DEF Tracked, Written, Undone, NamesFree, Made
      <4> QED BY <2>5, <4>1, <4>3
    <3>6. AloneOK(v)'
      BY <2>5, <3>1, <3>2, <3>5 DEF AloneOK
    <3> QED BY <3>3, <3>6
  <2>7. CallOK(w)' /\ AloneOK(w)'
    BY <1>1, <2>2, <2>3 DEF CallOK, AloneOK, IsIdle
  <2> QED BY <2>4, <2>6, <2>7 DEF BenchInv
<1>3. CASE Identified(p)
  <2>1. PICK a : a = [IdleWorker EXCEPT !.at = "check", !.call = call, !.patch = {p},
                                        !.found = tree, !.alone = \A u \in Appliers : IsIdle(u)]
    OBVIOUS
  <2>2. applier' = [v \in Appliers |-> IF v = w THEN a
                                       ELSE [applier[v] EXCEPT !.alone = IsIdle(v)]]
    BY <1>3, <2>1
  <2>3. /\ a.at = "check" /\ a.call = call /\ a.patch = {p} /\ a.found = tree
        /\ a.next = 1 /\ a.originals = <<>> /\ a.answer = "none"
    BY <2>1 DEF IdleWorker
  <2>14. a = [at |-> a.at, call |-> a.call, patch |-> a.patch, next |-> a.next,
              originals |-> a.originals, found |-> a.found, alone |-> a.alone,
              answer |-> a.answer]
    BY <2>1 DEF IdleWorker
  <2>13. a.alone = (\A u \in Appliers : IsIdle(u))
    BY <2>1 DEF IdleWorker
  <2>4. a \in ApplierStates
    <3>1. a.patch \in SUBSET patches
      BY <2>3
    <3>2. a.originals \in Seq(TreeContents)
      BY <2>3, NoneStaged
    <3>3. a.found \in Workspaces \cup {<<>>}
      BY <1>1, <2>3 DEF BenchOK
    <3>4. a.alone \in BOOLEAN
      BY <2>13
    <3>5. /\ a.at \in {"idle", "check", "stage", "replace", "restore"} /\ a.next \in Nat
          /\ a.call \in {"none", "validate", "apply"}
          /\ a.answer \in {"none", "passed", "blocked", "raised"}
      <4>1. a.at = "check" /\ a.call = call /\ a.next = 1 /\ a.answer = "none"
        BY <2>3
      <4>2. call \in {"none", "validate", "apply"}
        OBVIOUS
      <4>3. 1 \in Nat
        OBVIOUS
      <4> QED BY <4>1, <4>2, <4>3
    <3> QED BY <2>14, <3>1, <3>2, <3>3, <3>4, <3>5 DEF ApplierStates
  <2>5. ASSUME NEW v \in Appliers, v # w
        PROVE  /\ applier'[v] = [applier[v] EXCEPT !.alone = IsIdle(v)]
               /\ applier'[v] \in ApplierStates
               /\ applier'[v].alone = IsIdle(v)
               /\ applier'[v].at = applier[v].at /\ applier'[v].call = applier[v].call
               /\ applier'[v].patch = applier[v].patch /\ applier'[v].next = applier[v].next
               /\ applier'[v].originals = applier[v].originals
               /\ applier'[v].found = applier[v].found
    <3>1. IsIdle(v) \in BOOLEAN
      BY DEF IsIdle
    <3>2. applier[v] \in ApplierStates
      BY <1>1 DEF BenchOK
    <3>3. applier'[v] = [applier[v] EXCEPT !.alone = IsIdle(v)]
      BY <2>2, <2>5
    <3> QED BY <3>1, <3>2, <3>3 DEF ApplierStates
  <2>6. applier'[w] = a
    BY <2>2
  <2>7. BenchOK'
    <3>1. applier' \in [Appliers -> ApplierStates]
      BY <2>2, <2>4, <2>5
    <3> QED BY <1>1, <3>1 DEF BenchOK, ApplierStates
  <2>8. PatchesOK'
    BY <1>1 DEF PatchesOK
  <2>9. ASSUME NEW v \in Appliers, v # w
        PROVE  (CallOK(v) /\ AloneOK(v))'
    <3>1. CallOK(v)
      BY DEF BenchInv
    <3>2. CurrentChanges(v)' = CurrentChanges(v) /\ IsIdle(v)' = IsIdle(v)
      BY <2>5, <2>9 DEF CurrentChanges, CurrentPatch, IsIdle
    <3>3. CallOK(v)'
      BY <1>1, <2>5, <2>9, <3>1, <3>2 DEF CallOK, Applied
    <3>4. AloneOK(v)'
      BY <2>5, <2>9, <3>2 DEF AloneOK
    <3> QED BY <3>3, <3>4
  <2>10. CurrentPatch(w)' = p
    BY <2>3, <2>6 DEF CurrentPatch
  <2>11. CallOK(w)'
    <3>1. p.content.changes \in Seq(FileChanges) /\ p.content.changes # <<>>
      BY <1>1 DEF PatchesOK, CanonicalChanges
    <3>2. 1 \in 1..Len(CurrentChanges(w)')
      <4>1. CurrentChanges(w)' = p.content.changes
        BY <2>10 DEF CurrentChanges
      <4>2. 1 \in 1..Len(p.content.changes)
        BY <3>1, SomeChange
      <4> QED BY <4>1, <4>2
    <3>3. (\E q \in patches : Applied(w, q))'
      BY <1>1, <1>3, <2>3, <2>6 DEF Applied
    <3>4. applier'[w].found \in Workspaces
      BY <1>1, <2>3, <2>6 DEF BenchOK
    <3>5. /\ applier'[w].at = "check" /\ applier'[w].next = 1 /\ applier'[w].originals = <<>>
          /\ applier'[w].call # "none"
      BY <2>3, <2>6
    <3>6. ~IsIdle(w)'
      BY <3>5 DEF IsIdle
    <3> QED BY <3>2, <3>3, <3>4, <3>5, <3>6 DEF CallOK
  <2>12. AloneOK(w)'
    <3>1. a.alone => \A v \in Appliers \ {w} : IsIdle(v)'
      <4>1. ASSUME a.alone, NEW v \in Appliers \ {w}
            PROVE  IsIdle(v)'
        <5>1. IsIdle(v)
          BY <2>13, <4>1
        <5> QED BY <2>5, <5>1 DEF IsIdle
      <4> QED BY <4>1
    <3>2. Made(a) = 0 /\ Written(tree', a.found, CurrentChanges(w)', 0)
      BY <1>1, <2>3, NoneWritten DEF Made
    <3>3. \A k \in 1..Len(a.originals) : FALSE
      <4>1. a.originals = <<>>
        BY <2>3
      <4> QED BY <4>1, NoneStaged
    <3>4. Tracked(tree, applier[w], CurrentChanges(w))'
      BY <2>3, <2>6, <3>2 DEF Tracked, Made, Written
    <3> QED BY <2>6, <3>1, <3>3, <3>4 DEF AloneOK
  <2> QED BY <2>7, <2>8, <2>9, <2>11, <2>12 DEF BenchInv
<1> QED BY <1>2, <1>3

\* Nobody is alone once somebody else wrote.
LEMMA EditWorkspaceKeeps ==
    ASSUME BenchInv, NEW f \in Paths, NEW c \in FileContents \cup {Gone, Link}, EditWorkspace(f, c)
    PROVE  BenchInv'
<1> USE DEF EditWorkspace
<1>1. UNCHANGED <<workspaceMade, residue, patches>> /\ BenchOK /\ PatchesOK
  BY DEF BenchInv
<1>2. tree' \in Workspaces
  BY <1>1 DEF BenchOK, Workspaces, TreeContents
<1>3. ASSUME NEW v \in Appliers
      PROVE  /\ applier'[v] \in ApplierStates /\ applier'[v].alone = FALSE
             /\ applier'[v].at = applier[v].at /\ applier'[v].call = applier[v].call
             /\ applier'[v].patch = applier[v].patch /\ applier'[v].next = applier[v].next
             /\ applier'[v].originals = applier[v].originals
             /\ applier'[v].found = applier[v].found
  <2>1. applier[v] \in ApplierStates /\ applier'[v] = [applier[v] EXCEPT !.alone = FALSE]
    BY <1>1 DEF BenchOK
  <2> QED BY <2>1 DEF ApplierStates
<1>4. BenchOK'
  <2>1. applier' \in [Appliers -> ApplierStates]
    BY <1>3
  <2>2. disruptions' \in 0..MaxRemediationFaults
    BY <1>1, RemediationAssumption DEF BenchOK
  <2> QED BY <1>1, <1>2, <2>1, <2>2 DEF BenchOK, ApplierStates
<1>5. PatchesOK'
  BY <1>1 DEF PatchesOK
<1>6. ASSUME NEW v \in Appliers
      PROVE  (CallOK(v) /\ AloneOK(v))'
  <2>1. CallOK(v)
    BY DEF BenchInv
  <2>2. CurrentChanges(v)' = CurrentChanges(v) /\ IsIdle(v)' = IsIdle(v)
    BY <1>3 DEF CurrentChanges, CurrentPatch, IsIdle
  <2>3. CallOK(v)'
    BY <1>1, <1>3, <2>1, <2>2 DEF CallOK, Applied
  <2>4. AloneOK(v)'
    BY <1>3 DEF AloneOK
  <2> QED BY <2>3, <2>4
<1> QED BY <1>4, <1>5, <1>6 DEF BenchInv

\* Building, and the directory, leave the calls alone; it is removed between them.
LEMMA PatchesKeeps ==
    ASSUME BenchInv, UNCHANGED bench, patches \subseteq patches', PatchesOK'
    PROVE  BenchInv'
<1>1. UNCHANGED <<tree, workspaceMade, applier, residue, disruptions>>
  BY DEF bench
<1>2. BenchOK /\ \A w \in Appliers : CallOK(w) /\ AloneOK(w)
  BY DEF BenchInv
<1>3. BenchOK'
  <2>1. applier' \in [Appliers -> ApplierStates']
    <3> SUFFICES ASSUME NEW w \in Appliers
                 PROVE  applier[w] \in ApplierStates'
      BY <1>1, <1>2 DEF BenchOK
    <3>1. applier[w] \in ApplierStates
      BY <1>2 DEF BenchOK
    <3>2. SUBSET patches \subseteq SUBSET patches'
      OBVIOUS
    <3> QED BY <3>1, <3>2 DEF ApplierStates
  <2> QED BY <1>1, <1>2, <2>1 DEF BenchOK
<1>4. ASSUME NEW w \in Appliers
      PROVE  (CallOK(w) /\ AloneOK(w))'
  <2>1. CurrentChanges(w)' = CurrentChanges(w) /\ IsIdle(w)' = IsIdle(w)
    BY <1>1 DEF CurrentChanges, CurrentPatch, IsIdle
  <2>2. (\E p \in patches : Applied(w, p)) => (\E p \in patches : Applied(w, p))'
    BY <1>1 DEF Applied
  <2>3. CallOK(w)'
    BY <1>1, <1>2, <2>1, <2>2 DEF CallOK
  <2>4. ASSUME ~IsIdle(w), applier[w].alone
        PROVE  /\ Tracked(tree, applier[w], CurrentChanges(w))'
               /\ \A u \in Appliers \ {w} : IsIdle(u)'
    <3>1. /\ Tracked(tree, applier[w], CurrentChanges(w))
          /\ \A u \in Appliers \ {w} : IsIdle(u)
      BY <1>2, <2>4 DEF AloneOK
    <3>2. Tracked(tree, applier[w], CurrentChanges(w))'
      BY <1>1, <2>1, <3>1 DEF Tracked, Written, Undone, NamesFree, Made
    <3> QED BY <1>1, <2>1, <3>1, <3>2 DEF IsIdle
  <2>5. AloneOK(w)'
    BY <1>1, <1>2, <2>1, <2>4 DEF AloneOK
  <2> QED BY <2>3, <2>5
<1> QED BY <1>3, <1>4 DEF BenchInv

LEMMA BuildPatchesOK ==
    ASSUME BenchInv, NEW b \in Proposals, Build(b)
    PROVE  UNCHANGED bench /\ patches \subseteq patches' /\ PatchesOK'
<1>1. PICK content : content = [context |-> b.context, evidence |-> b.evidence,
                                changes |-> b.changes, rollback |-> b.rollback]
  OBVIOUS
<1>2. PICK p : p = PatchCandidate(content)
  OBVIOUS
<1>3. patches' = patches \cup {p}
  BY <1>1, <1>2 DEF Build, Candidate
<1>4. content.changes \in Seq(FileChanges) /\ CanonicalChanges(content.changes)
  BY <1>1, ProposalsAssumption DEF Build, Buildable
<1>5. /\ p = [content |-> p.content, id |-> p.id, digest |-> p.digest]
      /\ p.content = content /\ p.id = PatchId(content)
  BY <1>2 DEF PatchCandidate
<1>6. p.id.context = p.content.context
  BY <1>5 DEF PatchId
<1>7. content = [context |-> content.context, evidence |-> content.evidence,
                 changes |-> content.changes, rollback |-> content.rollback]
  BY <1>1
<1>8. PatchesOK
  BY DEF BenchInv
<1>9. PatchesOK'
  BY <1>3, <1>4, <1>5, <1>6, <1>7, <1>8 DEF PatchesOK
<1> QED BY <1>3, <1>9 DEF Build

LEMMA ReplacePatchesOK ==
    ASSUME BenchInv, ReplaceChanges
    PROVE  UNCHANGED bench /\ patches \subseteq patches' /\ PatchesOK'
<1>1. PICK p \in patches, q \in patches :
          patches' = patches \cup {[p EXCEPT !.content.changes = q.content.changes]}
  BY DEF ReplaceChanges
<1>2. PatchesOK
  BY DEF BenchInv
<1>3. PICK r : r = [p EXCEPT !.content.changes = q.content.changes]
  OBVIOUS
<1>4. PICK content : content = [p.content EXCEPT !.changes = q.content.changes]
  OBVIOUS
<1>5. /\ p = [content |-> p.content, id |-> p.id, digest |-> p.digest]
      /\ p.content = [context |-> p.content.context, evidence |-> p.content.evidence,
                      changes |-> p.content.changes, rollback |-> p.content.rollback]
  BY <1>2 DEF PatchesOK
<1>6. r = [p EXCEPT !.content = content]
  BY <1>3, <1>4
<1>7. r.content = content /\ r.id = p.id /\ r.digest = p.digest
  BY <1>5, <1>6
<1>8. r = [content |-> r.content, id |-> r.id, digest |-> r.digest]
  BY <1>5, <1>6, <1>7
<1>9. /\ content.context = p.content.context /\ content.changes = q.content.changes
      /\ content = [context |-> content.context, evidence |-> content.evidence,
                    changes |-> content.changes, rollback |-> content.rollback]
  BY <1>4, <1>5
<1>10. /\ r.id.context = r.content.context
       /\ r.content.changes \in Seq(FileChanges) /\ CanonicalChanges(r.content.changes)
  BY <1>2, <1>7, <1>9 DEF PatchesOK
<1>11. patches' = patches \cup {r}
  BY <1>1, <1>3
<1>12. PatchesOK'
  BY <1>2, <1>7, <1>8, <1>9, <1>10, <1>11 DEF PatchesOK
<1> QED BY <1>11, <1>12 DEF ReplaceChanges

LEMMA BetweenCallsKeeps ==
    ASSUME BenchInv, UNCHANGED <<applier, patches>>,
           tree' = tree \/ (tree' \in Workspaces /\ \A w \in Appliers : IsIdle(w)),
           workspaceMade' \in BOOLEAN, residue' \subseteq Appliers,
           disruptions' \in 0..MaxRemediationFaults
    PROVE  BenchInv'
<1>1. BenchOK /\ PatchesOK /\ \A w \in Appliers : CallOK(w) /\ AloneOK(w)
  BY DEF BenchInv
<1>2. BenchOK' /\ PatchesOK'
  BY <1>1 DEF BenchOK, PatchesOK, ApplierStates
<1>3. ASSUME NEW w \in Appliers
      PROVE  (CallOK(w) /\ AloneOK(w))'
  <2>1. CurrentChanges(w)' = CurrentChanges(w)
    BY DEF CurrentChanges, CurrentPatch
  <2>2. CallOK(w)'
    BY <1>1, <2>1 DEF CallOK, Applied, IsIdle
  <2>3. AloneOK(w)'
    <3>1. CASE tree' = tree
      BY <1>1, <2>1, <3>1
         DEF AloneOK, IsIdle, Tracked, Written, Undone, NamesFree, Made
    <3>2. CASE \A v \in Appliers : IsIdle(v)
      BY <3>2 DEF AloneOK, IsIdle
    <3> QED BY <3>1, <3>2
  <2> QED BY <2>2, <2>3
<1> QED BY <1>2, <1>3 DEF BenchInv

LEMMA WorkspaceKeeps ==
    ASSUME BenchInv, CreateWorkspace \/ DestroyWorkspace
    PROVE  BenchInv'
<1>1. BenchOK
  BY DEF BenchInv
<1>2. CASE CreateWorkspace
  <2>1. /\ UNCHANGED <<applier, patches>> /\ tree' = tree /\ workspaceMade' \in BOOLEAN
        /\ residue' \subseteq Appliers /\ disruptions' \in 0..MaxRemediationFaults
    BY <1>1, <1>2 DEF CreateWorkspace, BenchOK
  <2> QED BY <2>1, BetweenCallsKeeps
<1>3. CASE DestroyWorkspace
  <2>1. /\ UNCHANGED <<applier, patches>> /\ workspaceMade' \in BOOLEAN
        /\ residue' \subseteq Appliers /\ disruptions' \in 0..MaxRemediationFaults
        /\ \A w \in Appliers : IsIdle(w)
    BY <1>1, <1>3 DEF DestroyWorkspace, BenchOK, IsIdle
  <2>2. tree' \in Workspaces
    BY <1>3 DEF DestroyWorkspace, Workspaces, TreeContents
  <2> QED BY <2>1, <2>2, BetweenCallsKeeps
<1> QED BY <1>2, <1>3

LEMMA ReviewStepKeepsBench ==
    ASSUME BenchInv, ReviewStep
    PROVE  BenchInv'
<1>1. /\ UNCHANGED <<tree, workspaceMade, applier, residue, patches>>
      /\ UNCHANGED disruptions \/ (disruptions < MaxRemediationFaults
                                   /\ disruptions' = disruptions + 1)
  BY DEF ReviewStep, RunGates, Preview, RequestApproval, Decide, ForgetRequests, bench
<1>2. /\ workspaceMade' \in BOOLEAN /\ residue' \subseteq Appliers
      /\ disruptions' \in 0..MaxRemediationFaults
  BY <1>1, RemediationAssumption DEF BenchInv, BenchOK
<1> QED BY <1>1, <1>2, BetweenCallsKeeps

LEMMA BenchStepKeeps ==
    ASSUME BenchInv, [RemediationNext]_remediationVars
    PROVE  BenchInv'
<1>1. CASE UNCHANGED remediationVars
  <2>1. BenchOK /\ UNCHANGED <<applier, patches, tree, workspaceMade, residue, disruptions>>
    BY <1>1 DEF remediationVars, BenchInv
  <2>2. /\ workspaceMade' \in BOOLEAN /\ residue' \subseteq Appliers
        /\ disruptions' \in 0..MaxRemediationFaults
    BY <2>1 DEF BenchOK
  <2> QED BY <2>1, <2>2, BetweenCallsKeeps
<1>2. ASSUME NEW b \in Proposals, Build(b)
      PROVE  BenchInv'
  BY <1>2, BuildPatchesOK, PatchesKeeps
<1>3. CASE ReplaceChanges
  BY <1>3, ReplacePatchesOK, PatchesKeeps
<1>4. CASE CreateWorkspace \/ DestroyWorkspace
  BY <1>4, WorkspaceKeeps
<1>5. ASSUME NEW f \in Paths, NEW c \in FileContents \cup {Gone, Link}, EditWorkspace(f, c)
      PROVE  BenchInv'
  BY <1>5, EditWorkspaceKeeps
<1>6. ASSUME NEW w \in Appliers, ApplyStep(w)
      PROVE  BenchInv'
  BY <1>6, BeginCallKeeps, CheckChangeKeeps, StageChangeKeeps, ReplaceFileKeeps,
     ApplyFailsKeeps, RestoreFileKeeps, LeavesCallKeeps DEF ApplyStep
<1>7. CASE ReviewStep
  BY <1>7, ReviewStepKeepsBench
<1> QED BY <1>1, <1>2, <1>3, <1>4, <1>5, <1>6, <1>7 DEF RemediationNext

-----------------------------------------------------------------------------
(* Validations, previews and requests. *)

\* What has passed stays passed.
LEMMA OneValidated ==
    ASSUME ReviewInv, patches \subseteq patches', NEW v, validations' = validations \cup {v},
           v = [patch |-> v.patch, status |-> v.status], v.status \in {"passed", "blocked"},
           v.status = "passed" => \E p \in patches : Identified(p) /\ p.id = v.patch,
           UNCHANGED <<summary, previews, requests>>
    PROVE  ReviewInv'
<1>1. ValidationsOK'
  BY DEF ReviewInv, ValidationsOK
<1>2. \A patch, tenant, preview : Earned(patch, tenant, preview) => Earned(patch, tenant, preview)'
  BY DEF Earned
<1> QED BY <1>1, <1>2 DEF ReviewInv

LEMMA NothingValidated ==
    ASSUME ReviewInv, patches \subseteq patches', UNCHANGED <<validations, summary, previews, requests>>
    PROVE  ReviewInv'
<1>1. ValidationsOK'
  BY DEF ReviewInv, ValidationsOK
<1>2. \A patch, tenant, preview : Earned(patch, tenant, preview) = Earned(patch, tenant, preview)'
  BY DEF Earned
<1> QED BY <1>1, <1>2 DEF ReviewInv

LEMMA ResultOK ==
    ASSUME NEW p, NEW s
    PROVE  /\ PatchValidationResult(p, s).patch = p.id /\ PatchValidationResult(p, s).status = s
           /\ PatchValidationResult(p, s) = [patch |-> p.id, status |-> s]
BY DEF PatchValidationResult

LEMMA AnswerKeepsReview ==
    ASSUME BenchInv, ReviewInv, NEW w \in Appliers, ~IsIdle(w), NEW x \in {"passed", "blocked"},
           Answer(w, x), UNCHANGED <<patches, summary, previews, requests>>
    PROVE  ReviewInv'
<1>1. PICK v : v = PatchValidationResult(CurrentPatch(w), x)
  OBVIOUS
<1>2. /\ validations' = validations \cup {v} /\ v = [patch |-> v.patch, status |-> v.status]
      /\ v.status \in {"passed", "blocked"} /\ v.patch = CurrentPatch(w).id
  BY <1>1, ResultOK DEF Answer
<1>3. CurrentPatch(w) \in patches /\ Identified(CurrentPatch(w))
  BY CallFacts
<1>4. \E p \in patches : Identified(p) /\ p.id = v.patch
  BY <1>2, <1>3
<1> QED BY <1>2, <1>4, OneValidated

LEMMA ApplyStepKeepsReview ==
    ASSUME BenchInv, ReviewInv, NEW w \in Appliers, ApplyStep(w)
    PROVE  ReviewInv'
<1>1. ASSUME NEW p \in patches, NEW call \in {"validate", "apply"}, BeginCall(w, p, call)
      PROVE  ReviewInv'
  <2>1. CASE Identified(p)
    BY <1>1, <2>1, NothingValidated DEF BeginCall
  <2>2. CASE ~Identified(p)
    <3>1. PICK v : v = PatchValidationResult(p, "blocked")
      OBVIOUS
    <3>2. /\ validations' = validations \cup {v} /\ v = [patch |-> v.patch, status |-> v.status]
          /\ v.status = "blocked"
      BY <1>1, <2>2, <3>1, ResultOK DEF BeginCall
    <3>3. UNCHANGED <<patches, summary, previews, requests>>
      BY <1>1 DEF BeginCall
    <3> QED BY <3>2, <3>3, OneValidated
  <2> QED BY <2>1, <2>2
<1>2. CASE \/ CheckChange(w) \/ StageChange(w) \/ ReplaceFile(w) \/ ApplyFails(w) \/ RestoreFile(w)
  <2>1. /\ ~IsIdle(w) /\ UNCHANGED <<patches, summary, previews, requests>>
        /\ UNCHANGED validations \/ Answer(w, "passed") \/ Answer(w, "blocked")
    BY <1>2 DEF CheckChange, StageChange, ReplaceFile, ApplyFails, RestoreFile, IsIdle
  <2> QED BY <2>1, NothingValidated, AnswerKeepsReview
<1>3. CASE RestoreRaises(w) \/ ApplierDies(w)
  BY <1>3, NothingValidated DEF RestoreRaises, ApplierDies
<1> QED BY <1>1, <1>2, <1>3 DEF ApplyStep

\* A preview is asked for with a result that is of its patch, whose id names the
\* workspace's context.
LEMMA PreviewKeeps ==
    ASSUME BenchInv, ReviewInv, NEW p \in patches, NEW policy \in Policies, Preview(p, policy)
    PROVE  ReviewInv'
<1>1. PICK v \in validations : v.status = "passed" /\ v.patch = p.id
  BY DEF Preview, PreviewRequested
<1>2. [patch |-> p.id, status |-> "passed"] \in validations
  BY <1>1 DEF ReviewInv, ValidationsOK
<1>3. PICK q \in patches : Identified(q) /\ q.id = p.id
  BY <1>1 DEF ReviewInv, ValidationsOK
<1>4. q.id.context = JobContext
  BY <1>3 DEF BenchInv, PatchesOK, Identified
<1>5. p.content.context = JobContext
  BY <1>3, <1>4 DEF BenchInv, PatchesOK
<1>6. PICK adapter \in {"fixture", "vercel"}, smoke \in BOOLEAN, security \in BOOLEAN :
          previews' = {PreviewResult(PreviewRequest(p, policy),
                                     PreviewOutcome(adapter, policy, smoke, security))}
  BY DEF Preview
<1>7. PICK x : x = PreviewResult(PreviewRequest(p, policy),
                                 PreviewOutcome(adapter, policy, smoke, security))
  OBVIOUS
<1>8. /\ x.patch = p.id /\ x.tenant = JobContext.tenant /\ x.id = <<p.id, policy>>
      /\ x.status = PreviewOutcome(adapter, policy, smoke, security)
  BY <1>5, <1>7 DEF PreviewResult, PreviewRequest
<1>9. x.status = "passed" => policy.mode = "fixture" /\ policy.reviewed
  BY <1>8 DEF PreviewOutcome
<1>10. x.status = "passed" => Earned(x.patch, x.tenant, x.id)
  BY <1>2, <1>8, <1>9 DEF Earned
<1>11. UNCHANGED <<patches, validations, summary, requests>> /\ previews' = {x}
  BY <1>6, <1>7 DEF Preview
<1>12. \A patch, tenant, preview : Earned(patch, tenant, preview) = Earned(patch, tenant, preview)'
  BY <1>11 DEF Earned
<1>13. ValidationsOK'
  BY <1>11 DEF ReviewInv, ValidationsOK
<1> QED BY <1>10, <1>11, <1>12, <1>13 DEF ReviewInv

\* Requests come from previews that passed, and decisions keep what they are about.
LEMMA RequestsKeep ==
    ASSUME ReviewInv, UNCHANGED <<patches, validations, summary, previews>>,
           \A r \in requests' \ requests :
              /\ r = [id |-> r.id, tenant |-> r.tenant, patch |-> r.patch, preview |-> r.preview,
                      status |-> r.status, decision |-> r.decision]
              /\ Earned(r.patch, r.tenant, r.preview)
    PROVE  ReviewInv'
<1>1. ValidationsOK'
  BY DEF ReviewInv, ValidationsOK
<1>2. \A patch, tenant, preview : Earned(patch, tenant, preview) = Earned(patch, tenant, preview)'
  BY DEF Earned
<1> QED BY <1>1, <1>2 DEF ReviewInv

LEMMA RequestApprovalKeeps ==
    ASSUME ReviewInv, NEW tenant, NEW rollback, RequestApproval(tenant, rollback)
    PROVE  ReviewInv'
<1>1. PICK v \in previews : /\ v.status = "passed" /\ v.tenant = tenant
                            /\ requests' = requests \cup {PendingRequest(v, tenant, rollback)}
  BY DEF RequestApproval
<1>2. PICK r : r = PendingRequest(v, tenant, rollback)
  OBVIOUS
<1>3. Earned(v.patch, tenant, v.id)
  BY <1>1 DEF ReviewInv
<1>4. /\ r.patch = v.patch /\ r.tenant = tenant /\ r.preview = v.id
      /\ r = [id |-> r.id, tenant |-> r.tenant, patch |-> r.patch, preview |-> r.preview,
              status |-> r.status, decision |-> r.decision]
  BY <1>2 DEF PendingRequest
<1>5. UNCHANGED <<patches, validations, summary, previews>>
  BY DEF RequestApproval
<1> QED BY <1>1, <1>2, <1>3, <1>4, <1>5, RequestsKeep

LEMMA DecideKeeps ==
    ASSUME ReviewInv, NEW r \in requests, NEW actor, NEW decision, NEW reference,
           Decide(r, actor, decision, reference)
    PROVE  ReviewInv'
<1>1. PICK d : d = [r EXCEPT !.status = decision, !.decision = reference]
  OBVIOUS
<1>2. /\ r = [id |-> r.id, tenant |-> r.tenant, patch |-> r.patch, preview |-> r.preview,
              status |-> r.status, decision |-> r.decision]
      /\ Earned(r.patch, r.tenant, r.preview)
  BY DEF ReviewInv
<1>3. /\ d.patch = r.patch /\ d.tenant = r.tenant /\ d.preview = r.preview
      /\ d = [id |-> d.id, tenant |-> d.tenant, patch |-> d.patch, preview |-> d.preview,
              status |-> d.status, decision |-> d.decision]
  BY <1>1, <1>2
<1>4. requests' \ requests \subseteq {d}
  BY <1>1 DEF Decide
<1>5. UNCHANGED <<patches, validations, summary, previews>>
  BY DEF Decide
<1> QED BY <1>2, <1>3, <1>4, <1>5, RequestsKeep

LEMMA ReviewStepKeepsReview ==
    ASSUME BenchInv, ReviewInv, ReviewStep
    PROVE  ReviewInv'
<1>1. CASE RunGates
  <2>1. summary' = {"passed"} \/ summary' = {"blocked"}
    BY <1>1 DEF RunGates, GateSummary
  <2>2. UNCHANGED <<patches, validations, previews, requests>>
    BY <1>1 DEF RunGates
  <2>3. ValidationsOK'
    BY <2>2 DEF ReviewInv, ValidationsOK
  <2>4. \A patch, tenant, preview : Earned(patch, tenant, preview) = Earned(patch, tenant, preview)'
    BY <2>2 DEF Earned
  <2> QED BY <2>1, <2>2, <2>3, <2>4 DEF ReviewInv
<1>2. CASE ForgetRequests
  <2>1. UNCHANGED <<patches, validations>> /\ summary' = {} /\ previews' = {} /\ requests' = {}
    BY <1>2 DEF ForgetRequests
  <2>2. ValidationsOK'
    BY <2>1 DEF ReviewInv, ValidationsOK
  <2> QED BY <2>1, <2>2 DEF ReviewInv
<1> QED BY <1>1, <1>2, PreviewKeeps, RequestApprovalKeeps, DecideKeeps DEF ReviewStep

LEMMA ReviewInvStepKeeps ==
    ASSUME BenchInv, ReviewInv, [RemediationNext]_remediationVars
    PROVE  ReviewInv'
<1>1. CASE UNCHANGED remediationVars
  BY <1>1, NothingValidated DEF remediationVars
<1>2. ASSUME NEW b \in Proposals, Build(b)
      PROVE  ReviewInv'
  BY <1>2, NothingValidated DEF Build
<1>3. CASE ReplaceChanges
  <2>1. patches \subseteq patches' /\ UNCHANGED <<validations, summary, previews, requests>>
    BY <1>3 DEF ReplaceChanges
  <2> QED BY <2>1, NothingValidated
<1>4. CASE CreateWorkspace \/ DestroyWorkspace
  BY <1>4, NothingValidated DEF CreateWorkspace, DestroyWorkspace
<1>5. ASSUME NEW f \in Paths, NEW c \in FileContents \cup {Gone, Link}, EditWorkspace(f, c)
      PROVE  ReviewInv'
  BY <1>5, NothingValidated DEF EditWorkspace
<1>6. ASSUME NEW w \in Appliers, ApplyStep(w)
      PROVE  ReviewInv'
  BY <1>6, ApplyStepKeepsReview
<1>7. CASE ReviewStep
  BY <1>7, ReviewStepKeepsReview
<1> QED BY <1>1, <1>2, <1>3, <1>4, <1>5, <1>6, <1>7 DEF RemediationNext

LEMMA RemediationInitOK ==
    ASSUME RemediationInit
    PROVE  RemediationInv
<1>1. PICK a : a = [IdleWorker EXCEPT !.answer = "none"]
  OBVIOUS
<1>2. a = IdleWorker /\ a \in ApplierStates /\ a.at = "idle" /\ a.patch = {} /\ a.call = "none"
  <2>1. a = IdleWorker
    BY <1>1 DEF IdleWorker
  <2>2. a \in ApplierStates /\ a.at = "idle" /\ a.patch = {} /\ a.call = "none"
    BY <1>1, IdleWorkerState
  <2> QED BY <2>1, <2>2
<1>3. /\ patches = {} /\ applier = [w \in Appliers |-> a] /\ workspaceMade = TRUE
      /\ residue = {} /\ disruptions = 0 /\ validations = {} /\ summary = {}
      /\ previews = {} /\ requests = {}
  BY <1>2 DEF RemediationInit
<1>4. tree \in Workspaces
  BY DEF RemediationInit, Workspaces, TreeContents
<1>5. BenchOK
  BY <1>2, <1>3, <1>4, RemediationAssumption DEF BenchOK
<1>6. \A w \in Appliers : CallOK(w) /\ AloneOK(w)
  BY <1>2, <1>3 DEF CallOK, AloneOK, IsIdle
<1>7. PatchesOK /\ ValidationsOK
  BY <1>3 DEF PatchesOK, ValidationsOK
<1> QED BY <1>3, <1>5, <1>6, <1>7 DEF RemediationInv, BenchInv, ReviewInv

\* Whoever patches, edits, fails or dies, a patch is what it was built as, what
\* passed is that patch, and the tree is known to a call that works alone.
THEOREM RemediationInvariant == RemediationSpec => []RemediationInv
<1>1. RemediationInit => RemediationInv
  BY RemediationInitOK
<1>2. RemediationInv /\ [RemediationNext]_remediationVars => RemediationInv'
  BY BenchStepKeeps, ReviewInvStepKeeps DEF RemediationInv
<1> QED BY <1>1, <1>2, PTL DEF RemediationSpec

\* Every variable of the remediation holds values of its kind.
THEOREM RemediationTypeCorrect == RemediationSpec => []RemediationTypeOK
<1>1. ASSUME RemediationInv PROVE RemediationTypeOK
  <2>1. BenchInv /\ ReviewInv /\ BenchOK /\ ValidationsOK
    BY <1>1 DEF RemediationInv, BenchInv, ReviewInv
  <2>2. ASSUME NEW w \in Appliers
        PROVE  /\ applier[w].at \in {"idle", "check", "stage", "replace", "restore"}
               /\ applier[w].answer \in {"none", "passed", "blocked", "raised"}
               /\ Cardinality(applier[w].patch) = (IF IsIdle(w) THEN 0 ELSE 1)
    <3>1. applier[w] \in ApplierStates /\ CallOK(w)
      BY <2>1 DEF BenchInv, BenchOK
    <3>2. CASE IsIdle(w)
      BY <3>1, <3>2, FS_EmptySet DEF CallOK, ApplierStates
    <3>3. CASE ~IsIdle(w)
      <4>1. applier[w].patch = {CurrentPatch(w)}
        BY <2>1, <3>3, CallFacts
      <4>2. Cardinality(applier[w].patch) = 1
        BY <4>1, FS_Singleton
      <4> QED BY <3>1, <3>3, <4>2 DEF ApplierStates
    <3> QED BY <3>2, <3>3
  <2>3. Cardinality(previews) <= 1
    <3>1. CASE previews = {}
      BY <3>1, FS_EmptySet
    <3>2. ASSUME NEW v \in previews, previews = {v}
          PROVE  Cardinality(previews) <= 1
      <4>1. Cardinality({v}) = 1
        BY FS_Singleton
      <4> QED BY <3>2, <4>1
    <3> QED BY <2>1, <3>1, <3>2 DEF ReviewInv
  <2>4. tree \in [Paths -> FileContents \cup {Gone, Link}]
    BY <2>1 DEF BenchOK, Workspaces, TreeContents
  <2> QED BY <2>1, <2>2, <2>3, <2>4
          DEF BenchOK, ReviewInv, ValidationsOK, RemediationTypeOK
<1> QED BY <1>1, RemediationInvariant, PTL

\* What a person approved is a patch that was built for this workspace, that
\* passed itself, and whose reviewed preview passed (ApprovalQueue).
THEOREM ApprovalsEarned == RemediationSpec => []ApprovalIsEarned
<1>1. ASSUME RemediationInv PROVE ApprovalIsEarned
  <2> SUFFICES ASSUME NEW r \in requests
               PROVE  /\ [patch |-> r.patch, status |-> "passed"] \in validations
                      /\ r.tenant = JobContext.tenant
                      /\ r.preview[1] = r.patch
                      /\ r.preview[2].mode = "fixture" /\ r.preview[2].reviewed
                      /\ \E p \in patches : Identified(p) /\ p.id = r.patch
    BY DEF ApprovalIsEarned
  <2>1. Earned(r.patch, r.tenant, r.preview) /\ ValidationsOK
    BY <1>1 DEF RemediationInv, ReviewInv
  <2>2. PICK v \in validations : v = [patch |-> r.patch, status |-> "passed"]
    BY <2>1 DEF Earned
  <2>3. v.patch = r.patch /\ v.status = "passed"
    BY <2>2
  <2>4. \E p \in patches : Identified(p) /\ p.id = r.patch
    BY <2>1, <2>3 DEF ValidationsOK
  <2> QED BY <2>1, <2>4 DEF Earned
<1> QED BY <1>1, RemediationInvariant, PTL

\* Only a call's own step ends it.
LEMMA EndsByItself ==
    ASSUME BenchInv, [RemediationNext]_remediationVars, NEW w \in Appliers,
           ~IsIdle(w), applier'[w].at = "idle"
    PROVE  \/ CheckChange(w) \/ StageChange(w) \/ ReplaceFile(w) \/ ApplyFails(w)
           \/ RestoreFile(w) \/ RestoreRaises(w) \/ ApplierDies(w)
<1>1. BenchOK /\ applier[w].at # "idle"
  BY DEF BenchInv, IsIdle
<1>2. ASSUME UNCHANGED applier
      PROVE  FALSE
  BY <1>1, <1>2
<1>3. ASSUME NEW f \in Paths, NEW c \in FileContents \cup {Gone, Link}, EditWorkspace(f, c)
      PROVE  FALSE
  BY <1>1, <1>3 DEF EditWorkspace, BenchOK, ApplierStates
<1>4. ASSUME NEW v \in Appliers, v # w, NEW a, applier' = [applier EXCEPT ![v] = a]
      PROVE  FALSE
  BY <1>1, <1>4 DEF BenchOK
<1>5. ASSUME NEW v \in Appliers, NEW p \in patches, NEW call \in {"validate", "apply"},
             BeginCall(v, p, call)
      PROVE  FALSE
  <2>1. v # w
    BY <1>5 DEF BeginCall
  <2>2. CASE ~Identified(p)
    <3>1. PICK a : a = [applier[v] EXCEPT !.answer = "blocked"]
      OBVIOUS
    <3> QED BY <1>4, <1>5, <2>1, <2>2, <3>1 DEF BeginCall
  <2>3. CASE Identified(p)
    <3>1. applier'[w] = [applier[w] EXCEPT !.alone = IsIdle(w)]
      BY <1>5, <2>1, <2>3 DEF BeginCall
    <3> QED BY <1>1, <3>1 DEF BenchOK, ApplierStates
  <2> QED BY <2>2, <2>3
<1>6. ASSUME NEW v \in Appliers, v # w,
             \/ CheckChange(v) \/ StageChange(v) \/ ReplaceFile(v) \/ ApplyFails(v)
             \/ RestoreFile(v) \/ RestoreRaises(v) \/ ApplierDies(v)
      PROVE  FALSE
  <2>1. applier'[w] = applier[w]
    BY <1>1, <1>6
       DEF CheckChange, StageChange, ReplaceFile, ApplyFails, RestoreFile, RestoreRaises,
           ApplierDies, Answer, EndCall, NextFile, GoTo, BenchOK
  <2> QED BY <1>1, <2>1
<1>7. UNCHANGED remediationVars \/ CreateWorkspace \/ DestroyWorkspace \/ ReviewStep
         \/ ReplaceChanges \/ (\E b \in Proposals : Build(b))
      => UNCHANGED applier
  BY DEF remediationVars, CreateWorkspace, DestroyWorkspace, ReviewStep, ReplaceChanges,
         Build, RunGates, Preview, RequestApproval, Decide, ForgetRequests, bench
<1> QED BY <1>2, <1>3, <1>5, <1>6, <1>7 DEF RemediationNext, ApplyStep

\* An application that works alone and has come to its end.
LEMMA WholeOrUndone ==
    ASSUME BenchInv, [RemediationNext]_remediationVars, NEW w \in Appliers,
           applier[w].call = "apply", applier[w].alone, applier'[w].at = "idle"
    PROVE  LET cs == CurrentChanges(w)
               patched == PatchedTree(applier[w].found, cs)
           IN  /\ applier'[w].answer = "passed" =>
                     \A f \in Paths :
                        tree'[f] = IF patched[f] = 0 THEN applier[w].found[f]
                                   ELSE cs[patched[f]].after
               /\ applier'[w].answer = "blocked" /\ NamesFree(applier[w].found, cs)
                  => tree' = applier[w].found
<1> DEFINE cs == CurrentChanges(w)
           found == applier[w].found
           n == applier[w].next
           Done == applier'[w].answer
<1>1. ~IsIdle(w) /\ CallOK(w) /\ AloneOK(w) /\ BenchOK
  BY DEF BenchInv, CallOK
<1>2. /\ cs \in Seq(FileChanges) /\ CanonicalChanges(cs) /\ n \in 1..Len(cs) /\ Len(cs) \in Nat
      /\ found \in Workspaces /\ tree \in Workspaces
      /\ applier[w].at # "restore" => Written(tree, found, cs, Made(applier[w]))
  BY <1>1, CallFacts DEF CallOK, AloneOK, BenchOK, Tracked
<1>3. ASSUME NEW x \in {"none", "passed", "blocked", "raised"}, EndCall(w, x)
      PROVE  Done = x
  <2>1. PICK a : a = [IdleWorker EXCEPT !.answer = x]
    OBVIOUS
  <2>2. applier'[w] = a
    BY <1>1, <1>3, <2>1 DEF EndCall, BenchOK
  <2> QED BY <2>1, <2>2, IdleWorkerState
<1>4. ASSUME applier[w].at # "restore", Made(applier[w]) = 0, UNCHANGED tree
      PROVE  tree' = found
  BY <1>2, <1>4, WrittenNone
<1>5. CASE CheckChange(w)
  <2>1. Answer(w, "blocked") \/ applier'[w].at # "idle"
    <3>1. applier[w].call = "apply" /\ applier[w].at = "check" /\ applier[w] \in ApplierStates
      BY <1>1, <1>5 DEF CheckChange, BenchOK
    <3>2. CASE NextFile(w)
      BY <1>1, <3>1, <3>2 DEF NextFile, BenchOK, ApplierStates
    <3>3. CASE GoTo(w, "stage")
      BY <1>1, <3>1, <3>3 DEF GoTo, BenchOK, ApplierStates
    <3> QED BY <1>5, <3>1, <3>2, <3>3 DEF CheckChange
  <2>2. Done = "blocked"
    BY <1>3, <2>1 DEF Answer
  <2>3. applier[w].at # "restore" /\ Made(applier[w]) = 0 /\ UNCHANGED tree
    BY <1>5 DEF CheckChange, Made
  <2> QED BY <1>4, <2>2, <2>3
<1>6. CASE StageChange(w)
  <2>1. Answer(w, "blocked") \/ applier'[w].at # "idle"
    BY <1>1, <1>6 DEF StageChange, BenchOK, ApplierStates
  <2>2. Done = "blocked"
    BY <1>3, <2>1 DEF Answer
  <2>3. applier[w].at # "restore" /\ Made(applier[w]) = 0 /\ UNCHANGED tree
    BY <1>6 DEF StageChange, Made
  <2> QED BY <1>4, <2>2, <2>3
<1>7. CASE ReplaceFile(w)
  <2>1. n = Len(cs) /\ Answer(w, "passed")
    <3>1. applier[w].at = "replace" /\ applier[w] \in ApplierStates
      BY <1>1, <1>7 DEF ReplaceFile, BenchOK
    <3>2. ~NextFile(w)
      BY <1>1, <3>1 DEF NextFile, BenchOK, ApplierStates
    <3> QED BY <1>2, <1>7, <3>2 DEF ReplaceFile
  <2>2. Done = "passed"
    BY <1>3, <2>1 DEF Answer
  <2>3. tree' = [tree EXCEPT ![cs[n].path] = cs[n].after] /\ Made(applier[w]) = n - 1
    BY <1>7 DEF ReplaceFile, Wrote, CurrentChange, Made
  <2>4. Written(tree', found, cs, Len(cs))
    <3>1. Written(tree, found, cs, n - 1)
      BY <1>2, <1>7, <2>3 DEF ReplaceFile
    <3> QED BY <1>2, <2>1, <2>3, <3>1, WriteOne
  <2> QED BY <1>2, <2>2, <2>4, WrittenAll
<1>8. CASE ApplyFails(w)
  <2>1. Answer(w, "blocked") /\ (applier[w].at = "stage" \/ n = 1)
    BY <1>1, <1>2, <1>8 DEF ApplyFails, BenchOK, ApplierStates
  <2>2. Done = "blocked"
    BY <1>3, <2>1 DEF Answer
  <2>3. applier[w].at # "restore" /\ Made(applier[w]) = 0 /\ UNCHANGED tree
    BY <1>8, <2>1 DEF ApplyFails, Made
  <2> QED BY <1>4, <2>2, <2>3
<1>9. CASE RestoreFile(w)
  <2>1. n = 1 /\ Answer(w, "blocked")
    <3>1. applier[w].at = "restore" /\ applier[w] \in ApplierStates
      BY <1>1, <1>9 DEF RestoreFile, BenchOK
    <3>2. applier' # [applier EXCEPT ![w].next = @ - 1]
      BY <1>1, <3>1 DEF BenchOK, ApplierStates
    <3> QED BY <1>2, <1>9, <3>2 DEF RestoreFile
  <2>2. Done = "blocked"
    BY <1>3, <2>1 DEF Answer
  <2>3. ASSUME NamesFree(found, cs)
        PROVE  tree' = found
    <3>1. Undone(tree, found, cs, n) /\ applier[w].originals[n] = found[cs[n].path]
      BY <1>1, <1>2, <1>9, <2>3 DEF RestoreFile, CallOK, AloneOK, Tracked
    <3>2. tree' = PutBack(cs[n].path, found[cs[n].path])
      BY <1>9, <3>1 DEF RestoreFile, CurrentChange
    <3>3. Undone(tree', found, cs, n - 1)
      BY <1>2, <2>3, <3>1, <3>2, UndoOne
    <3>4. cs[n] \in FileChanges
      BY <1>2
    <3>5. found[cs[n].path] \in TreeContents /\ cs[n].path \in Paths
      BY <1>2, <3>4 DEF FileChanges, Workspaces
    <3>6. tree' \in Workspaces
      BY <1>2, <3>2, <3>5, PutBackOK
    <3> QED BY <1>2, <2>1, <3>3, <3>6, UndoneNone
  <2> QED BY <2>2, <2>3
<1>10. CASE RestoreRaises(w) \/ ApplierDies(w)
  <2>1. Done = "raised" \/ Done = "none"
    BY <1>3, <1>10 DEF RestoreRaises, ApplierDies
  <2> QED BY <2>1
<1> QED BY <1>1, <1>5, <1>6, <1>7, <1>8, <1>9, <1>10, EndsByItself

\* An application that nobody disturbs has made all its changes when it passed and
\* none when it is blocked, whatever failed under it, unless a file of the workspace
\* had a name that an original is restored under (apply_patch_atomically).
THEOREM PatchesWholeOrUndone == RemediationSpec => PatchIsWholeOrUndone
<1>1. RemediationInv /\ [RemediationNext]_remediationVars =>
        [\A w \in Appliers :
            applier[w].call = "apply" /\ applier[w].alone /\ applier'[w].at = "idle"
            => LET cs == CurrentChanges(w)
                   patched == PatchedTree(applier[w].found, cs)
               IN  /\ applier'[w].answer = "passed" =>
                         \A f \in Paths :
                            tree'[f] = IF patched[f] = 0 THEN applier[w].found[f]
                                       ELSE cs[patched[f]].after
                   /\ applier'[w].answer = "blocked" /\ NamesFree(applier[w].found, cs)
                      => tree' = applier[w].found]_remediationVars
  BY WholeOrUndone DEF RemediationInv
<1> QED BY <1>1, RemediationInvariant, PTL DEF RemediationSpec, PatchIsWholeOrUndone

-----------------------------------------------------------------------------
(* Readiness *)

\* The assessment was sound for its candidate in all its parts.
AssessmentEarned(digest) ==
    /\ digest.gate = digest.candidate
    /\ \A u \in Tiers : OwnStatus(u, digest.claims[u]) = "ready"
    /\ \A k \in Capabilities :
          digest.support[k] = [status |-> "supported", strong |-> TRUE, revision |-> digest.candidate]

LevelsOf == [Tiers -> {"ready", "partial", "blocked"}]

DecisionOK(r) ==
    /\ r = LayeredDecision(r.digest, r.approved, r.levels)
    /\ r.levels \in LevelsOf /\ r.approved \in BOOLEAN
    /\ (\E t \in Tiers : r.levels[t] = "ready") => AssessmentEarned(r.digest)

ReadinessInv ==
    /\ supportability \cup supportRows \subseteq SupportabilityDecisions
    /\ \A r \in readiness \cup saved \cup levelRows : DecisionOK(r)
    /\ downgrades \subseteq [level : Tiers, previous : {"ready", "partial"}, trigger : Capabilities]
    /\ decisionCount \in 0..MaxDecisions

\* A tier on what is below it: the equation that TierStatus solves.
TierOn(below, t, claims, s, gate, candidate) ==
    LET own == OwnStatus(t, claims[t])
        held == \/ t # "core" /\ below[Prerequisite[t]] # "ready"
                \/ t = "stack" /\ ~SupportReady(s, candidate)
                \/ t \in LiveTiers /\ ~GateOpen(gate, candidate)
    IN  IF own = "ready" /\ held THEN "blocked" ELSE own

\* Each tier is above one other, so the equation has a solution, level by level.
LEMMA TierStatusEquation ==
    ASSUME NEW claims, NEW s, NEW gate, NEW candidate
    PROVE  LET status == TierStatus(claims, s, gate, candidate)
           IN  status = [t \in Tiers |-> TierOn(status, t, claims, s, gate, candidate)]
<1> DEFINE On(below, t) == TierOn(below, t, claims, s, gate, candidate)
           v1 == On([t \in Tiers |-> ""], "core")
           f1 == [t \in Tiers |-> v1]
           v2 == On(f1, "stack")
           f2 == [f1 EXCEPT !["stack"] = v2]
           v3 == On(f2, "customer_onboarding")
           f3 == [f2 EXCEPT !["customer_onboarding"] = v3]
           v4 == On(f3, "pilot")
           f4 == [f3 EXCEPT !["pilot"] = v4]
           v5 == On(f4, "paid_service")
           f5 == [f4 EXCEPT !["paid_service"] = v5]
<1>2. /\ Prerequisite["stack"] = "core" /\ Prerequisite["customer_onboarding"] = "stack"
      /\ Prerequisite["pilot"] = "customer_onboarding" /\ Prerequisite["paid_service"] = "pilot"
  BY DEF Prerequisite
<1>1. ASSUME NEW f, NEW g
      PROVE  /\ On(f, "core") = On(g, "core")
             /\ f["core"] = g["core"] => On(f, "stack") = On(g, "stack")
             /\ f["stack"] = g["stack"] => On(f, "customer_onboarding") = On(g, "customer_onboarding")
             /\ f["customer_onboarding"] = g["customer_onboarding"] => On(f, "pilot") = On(g, "pilot")
             /\ f["pilot"] = g["pilot"] => On(f, "paid_service") = On(g, "paid_service")
  BY <1>2 DEF TierOn
<1> HIDE DEF On
<1>3. /\ f5["core"] = v1 /\ f5["stack"] = v2 /\ f5["customer_onboarding"] = v3
      /\ f5["pilot"] = v4 /\ f5["paid_service"] = v5
      /\ f1["core"] = v1 /\ f2["stack"] = v2 /\ f3["customer_onboarding"] = v3 /\ f4["pilot"] = v4
  BY DEF Tiers
<1>9. /\ v1 = On([t \in Tiers |-> ""], "core") /\ v2 = On(f1, "stack")
      /\ v3 = On(f2, "customer_onboarding") /\ v4 = On(f3, "pilot") /\ v5 = On(f4, "paid_service")
  OBVIOUS
<1>5. f5 = [t \in Tiers |-> f5[t]]
  OBVIOUS
<1> HIDE DEF f1, f2, f3, f4, f5, v1, v2, v3, v4, v5
<1>4. \A t \in Tiers : f5[t] = On(f5, t)
  <2>1. f5["core"] = On(f5, "core")
    BY <1>1, <1>3, <1>9
  <2>2. f5["stack"] = On(f5, "stack")
    <3>1. f1["core"] = f5["core"]
      BY <1>3
    <3>2. On(f1, "stack") = On(f5, "stack")
      BY <1>1, <3>1
    <3> QED BY <1>3, <1>9, <3>2
  <2>3. f5["customer_onboarding"] = On(f5, "customer_onboarding")
    <3>1. f2["stack"] = f5["stack"]
      BY <1>3
    <3>2. On(f2, "customer_onboarding") = On(f5, "customer_onboarding")
      BY <1>1, <3>1
    <3> QED BY <1>3, <1>9, <3>2
  <2>4. f5["pilot"] = On(f5, "pilot")
    <3>1. f3["customer_onboarding"] = f5["customer_onboarding"]
      BY <1>3
    <3>2. On(f3, "pilot") = On(f5, "pilot")
      BY <1>1, <3>1
    <3> QED BY <1>3, <1>9, <3>2
  <2>5. f5["paid_service"] = On(f5, "paid_service")
    <3>1. f4["pilot"] = f5["pilot"]
      BY <1>3
    <3>2. On(f4, "paid_service") = On(f5, "paid_service")
      BY <1>1, <3>1
    <3> QED BY <1>3, <1>9, <3>2
  <2> QED BY <2>1, <2>2, <2>3, <2>4, <2>5 DEF Tiers
<1>6. f5 = [t \in Tiers |-> On(f5, t)]
  BY <1>4, <1>5
<1>7. TierStatus(claims, s, gate, candidate) = CHOOSE f : f = [t \in Tiers |-> On(f, t)]
  BY DEF TierStatus, TierOn, On
<1>8. LET status == TierStatus(claims, s, gate, candidate)
      IN  status = [t \in Tiers |-> On(status, t)]
  BY <1>6, <1>7
<1> QED BY <1>8 DEF On

LEMMA TierStatusOK ==
    ASSUME NEW claims \in [Tiers -> Claims], NEW s, NEW gate, NEW candidate, NEW t \in Tiers
    PROVE  LET status == TierStatus(claims, s, gate, candidate)
           IN  /\ status \in LevelsOf
               /\ status[t] = "ready" =>
                     /\ OwnStatus(t, claims[t]) = "ready"
                     /\ t = "stack" => SupportReady(s, candidate)
                     /\ t \in LiveTiers => GateOpen(gate, candidate)
<1> DEFINE status == TierStatus(claims, s, gate, candidate)
<1>1. status = [u \in Tiers |-> TierOn(status, u, claims, s, gate, candidate)]
  BY TierStatusEquation
<1> HIDE DEF status
<1>2. ASSUME NEW u \in Tiers
      PROVE  /\ TierOn(status, u, claims, s, gate, candidate) \in {"ready", "partial", "blocked"}
             /\ TierOn(status, u, claims, s, gate, candidate) = "ready" =>
                   /\ OwnStatus(u, claims[u]) = "ready"
                   /\ u = "stack" => SupportReady(s, candidate)
                   /\ u \in LiveTiers => GateOpen(gate, candidate)
  <2>1. OwnStatus(u, claims[u]) \in {"ready", "partial", "blocked"}
    BY DEF OwnStatus
  <2> QED BY <2>1 DEF TierOn
<1>3. status \in LevelsOf
  BY <1>1, <1>2 DEF LevelsOf
<1>4. status[t] = TierOn(status, t, claims, s, gate, candidate)
  BY <1>1
<1>5. status[t] = "ready" =>
         /\ OwnStatus(t, claims[t]) = "ready"
         /\ t = "stack" => SupportReady(s, candidate)
         /\ t \in LiveTiers => GateOpen(gate, candidate)
  BY <1>2, <1>4
<1> QED BY <1>3, <1>5 DEF status

\* A decision that says a level is ready was approved, so all levels are.
LEMMA LayeredOK ==
    ASSUME NEW claims \in ClaimSets, NEW s \in SupportabilityDecisions, NEW gate, NEW candidate
    PROVE  DecisionOK(Layered(claims, s, gate, candidate))
<1> DEFINE status == TierStatus(claims, s, gate, candidate)
           digest == LayeredDigest(claims, SupportDigest(s), gate, candidate)
           approved == CoordinatorApproval(digest) \in approval /\ \A t \in Tiers : status[t] = "ready"
           levels == [t \in Tiers |-> IF ~approved /\ status[t] = "ready" THEN "blocked"
                                      ELSE status[t]]
<1>1. claims \in [Tiers -> Claims]
  BY EvidenceAssumption
<1>2. status \in LevelsOf
  <2>1. "core" \in Tiers
    BY DEF Tiers
  <2> QED BY <1>1, <2>1, TierStatusOK
<1>3. \A t \in Tiers : status[t] = "ready" =>
         /\ OwnStatus(t, claims[t]) = "ready"
         /\ t = "stack" => SupportReady(s, candidate)
         /\ t \in LiveTiers => GateOpen(gate, candidate)
  BY <1>1, TierStatusOK
<1> HIDE DEF status
<1>4. approved \in BOOLEAN
  OBVIOUS
<1>5. levels \in LevelsOf
  BY <1>2 DEF LevelsOf
<1>6. ASSUME NEW t \in Tiers, levels[t] = "ready"
      PROVE  \A u \in Tiers : status[u] = "ready"
  BY <1>6
<1>7. ASSUME \A u \in Tiers : status[u] = "ready"
      PROVE  AssessmentEarned(digest)
  <2>1. digest.claims = claims /\ digest.gate = gate /\ digest.candidate = candidate
           /\ digest.support = s.results
    BY DEF LayeredDigest, SupportDigest
  <2>2. SupportReady(s, candidate) /\ GateOpen(gate, candidate)
           /\ \A u \in Tiers : OwnStatus(u, claims[u]) = "ready"
    BY <1>3, <1>7 DEF Tiers, LiveTiers
  <2>3. ASSUME NEW k \in Capabilities
        PROVE  s.results[k] = [status |-> "supported", strong |-> TRUE, revision |-> candidate]
    <3>1. /\ s.results[k].status = "supported" /\ s.results[k].strong
          /\ s.results[k].revision = candidate
      BY <2>2 DEF SupportReady
    <3>2. s.results[k] \in Observations
      BY DEF SupportabilityDecisions
    <3>3. s.results[k].strong = TRUE
      BY <3>1, <3>2 DEF Observations, Unobserved
    <3>4. s.results[k] = [status |-> s.results[k].status, strong |-> s.results[k].strong,
                          revision |-> s.results[k].revision]
      BY <3>2 DEF Observations, Unobserved
    <3> QED BY <3>1, <3>3, <3>4
  <2> HIDE DEF digest
  <2> QED BY <2>1, <2>2, <2>3 DEF AssessmentEarned, GateOpen
<1>8. Layered(claims, s, gate, candidate) = LayeredDecision(digest, approved, levels)
  BY DEF Layered, status
<1> HIDE DEF digest, approved, levels
<1>9. PICK r : r = LayeredDecision(digest, approved, levels)
  OBVIOUS
<1>10. r.digest = digest /\ r.approved = approved /\ r.levels = levels
  BY <1>9 DEF LayeredDecision
<1>11. DecisionOK(r)
  BY <1>4, <1>5, <1>6, <1>7, <1>9, <1>10 DEF DecisionOK
<1> QED BY <1>8, <1>9, <1>11

LEMMA SupportabilityOK ==
    ASSUME NEW evidence \in Observed, NEW expected
    PROVE  Supportability(evidence, expected) \in SupportabilityDecisions
<1> DEFINE results == Results(evidence, expected)
<1>1. ASSUME NEW k \in Capabilities
      PROVE  results[k] \in Observations
  <2>1. evidence[k] \in Observations
    BY EvidenceAssumption
  <2>2. /\ evidence[k] = [status |-> evidence[k].status, strong |-> evidence[k].strong,
                          revision |-> evidence[k].revision]
        /\ evidence[k].strong \in BOOLEAN /\ evidence[k].revision \in Candidates \cup {Nothing}
        /\ evidence[k].status \in Statuses \cup {Nothing}
    <3>1. CASE evidence[k] = Unobserved
      BY <3>1 DEF Unobserved
    <3>2. CASE evidence[k] \in [status : Statuses, strong : BOOLEAN,
                                revision : Candidates \cup {Nothing}]
      BY <3>2
    <3> QED BY <2>1, <3>1, <3>2 DEF Observations
  <2>3. ResultStatus(evidence[k], expected) \in Statuses
    BY <2>2 DEF ResultStatus, Statuses
  <2>4. results[k] = [evidence[k] EXCEPT !.status = ResultStatus(evidence[k], expected)]
    BY DEF Results
  <2>5. results[k] = [status |-> ResultStatus(evidence[k], expected), strong |-> evidence[k].strong,
                      revision |-> evidence[k].revision]
    BY <2>2, <2>4
  <2> QED BY <2>2, <2>3, <2>5 DEF Observations
<1>2. results = [k \in Capabilities |-> results[k]]
  BY DEF Results
<1>3. results \in [Capabilities -> Observations]
  BY <1>1, <1>2
<1>4. SupportStatus(results) \in {"supported", "needs_cleanup", "unsupported"}
  BY DEF SupportStatus
<1>5. (CoordinatorApproval(results) \in approval) \in BOOLEAN
  OBVIOUS
<1> QED BY <1>3, <1>4, <1>5 DEF Supportability, SupportabilityDecisions

LEMMA EvaluateReadinessKeeps ==
    ASSUME ReadinessInv, NEW claims \in ClaimSets, NEW gate, NEW candidate,
           EvaluateReadiness(claims, gate, candidate)
    PROVE  ReadinessInv'
<1>1. PICK s \in supportability : readiness' = {Layered(claims, s, gate, candidate)}
  BY DEF EvaluateReadiness
<1>2. DecisionOK(Layered(claims, s, gate, candidate))
  BY LayeredOK DEF ReadinessInv
<1>3. /\ UNCHANGED <<supportability, supportRows, levelRows, downgrades, saved>>
      /\ decisionCount' \in 0..MaxDecisions
  BY MaxDecisionsAssumption DEF EvaluateReadiness, Decides, ReadinessInv
<1>4. \A r \in (readiness \cup saved \cup levelRows)' : DecisionOK(r)
  BY <1>1, <1>2, <1>3 DEF ReadinessInv
<1> QED BY <1>3, <1>4 DEF ReadinessInv

LEMMA EvaluateSupportabilityKeeps ==
    ASSUME ReadinessInv, NEW evidence \in Observed, NEW expected,
           EvaluateSupportability(evidence, expected)
    PROVE  ReadinessInv'
<1>1. supportability' \subseteq SupportabilityDecisions
  BY SupportabilityOK DEF EvaluateSupportability
<1>2. /\ UNCHANGED <<readiness, supportRows, levelRows, downgrades, saved>>
      /\ decisionCount' \in 0..MaxDecisions
  BY MaxDecisionsAssumption DEF EvaluateSupportability, Decides, ReadinessInv
<1> QED BY <1>1, <1>2 DEF ReadinessInv

\* A downgrade makes no level ready.
LEMMA ApplyDowngradeKeeps ==
    ASSUME ReadinessInv, NEW capability \in Capabilities, ApplyDowngrade(capability)
    PROVE  ReadinessInv'
<1>1. PICK r \in readiness :
         LET hit == {t \in Tiers \ {"core"} : r.levels[t] # "blocked"}
         IN  /\ downgrades' = downgrades \cup {Downgrade(t, r.levels[t], capability) : t \in hit}
             /\ readiness' = {[r EXCEPT
                    !.approved = FALSE,
                    !.levels = [t \in Tiers |-> IF t \in hit THEN "blocked" ELSE @[t]]]}
  BY DEF ApplyDowngrade
<1> DEFINE hit == {t \in Tiers \ {"core"} : r.levels[t] # "blocked"}
           levels == [t \in Tiers |-> IF t \in hit THEN "blocked" ELSE r.levels[t]]
<1>2. DecisionOK(r)
  BY DEF ReadinessInv
<1>3. PICK d : d = [r EXCEPT !.approved = FALSE, !.levels = levels]
  OBVIOUS
<1>4. readiness' = {d}
  BY <1>1, <1>3
<1>5. r = [digest |-> r.digest, approved |-> r.approved, levels |-> r.levels] /\ r.levels \in LevelsOf
  BY <1>2 DEF DecisionOK, LayeredDecision
<1>6. d = [digest |-> r.digest, approved |-> FALSE, levels |-> levels]
  BY <1>3, <1>5
<1>7. levels \in LevelsOf /\ \A t \in Tiers : levels[t] = "ready" => r.levels[t] = "ready"
  BY <1>5 DEF LevelsOf
<1> HIDE DEF levels
<1>8. DecisionOK(d)
  <2>1. d.digest = r.digest /\ d.approved = FALSE /\ d.levels = levels
    BY <1>6
  <2>2. d = LayeredDecision(d.digest, d.approved, d.levels)
    BY <1>6, <2>1 DEF LayeredDecision
  <2>3. (\E t \in Tiers : d.levels[t] = "ready") => AssessmentEarned(d.digest)
    BY <1>2, <1>7, <2>1 DEF DecisionOK
  <2> QED BY <1>7, <2>1, <2>2, <2>3 DEF DecisionOK
<1>9. downgrades' \subseteq [level : Tiers, previous : {"ready", "partial"}, trigger : Capabilities]
  <2>1. ASSUME NEW t \in hit
        PROVE  Downgrade(t, r.levels[t], capability) \in
                   [level : Tiers, previous : {"ready", "partial"}, trigger : Capabilities]
    BY <1>5 DEF Downgrade, LevelsOf
  <2>2. downgrades' = downgrades \cup {Downgrade(t, r.levels[t], capability) : t \in hit}
    BY <1>1
  <2> HIDE DEF hit
  <2> QED BY <2>1, <2>2 DEF ReadinessInv
<1>10. UNCHANGED <<supportability, supportRows, levelRows, saved, decisionCount>>
  BY DEF ApplyDowngrade
<1> QED BY <1>4, <1>8, <1>9, <1>10 DEF ReadinessInv

LEMMA ReadinessStepKeeps ==
    ASSUME ReadinessInv, [ReadinessNext]_readinessVars
    PROVE  ReadinessInv'
<1>1. CASE UNCHANGED readinessVars
  BY <1>1 DEF readinessVars, ReadinessInv
<1>2. ASSUME NEW e \in Observed, NEW x,
             ApproveSupportability(e, x) \/ EvaluateSupportability(e, x)
      PROVE  ReadinessInv'
  <2>1. CASE ApproveSupportability(e, x)
    BY <2>1 DEF ApproveSupportability, ReadinessInv
  <2> QED BY <1>2, <2>1, EvaluateSupportabilityKeeps
<1>3. ASSUME NEW l \in ClaimSets, NEW g, NEW c,
             ApproveReadiness(l, g, c) \/ EvaluateReadiness(l, g, c)
      PROVE  ReadinessInv'
  <2>1. CASE ApproveReadiness(l, g, c)
    BY <2>1 DEF ApproveReadiness, ReadinessInv
  <2> QED BY <1>3, <2>1, EvaluateReadinessKeeps
<1>4. ASSUME NEW k \in Capabilities, ApplyDowngrade(k)
      PROVE  ReadinessInv'
  BY <1>4, ApplyDowngradeKeeps
<1>5. CASE SaveSupportability
  BY <1>5 DEF SaveSupportability, ReadinessInv
<1>6. CASE SaveReadiness
  BY <1>6 DEF SaveReadiness, ReadinessInv
<1> QED BY <1>1, <1>2, <1>3, <1>4, <1>5, <1>6 DEF ReadinessNext

\* Approvals, evaluations, downgrades and saves come in any order; a decision
\* that has a ready level stands for one assessment that earned all of them.
THEOREM ReadinessInvariant == ReadinessSpec => []ReadinessInv
<1>1. ReadinessInit => ReadinessInv
  BY MaxDecisionsAssumption DEF ReadinessInit, ReadinessInv
<1>2. ReadinessInv /\ [ReadinessNext]_readinessVars => ReadinessInv'
  BY ReadinessStepKeeps
<1> QED BY <1>1, <1>2, PTL DEF ReadinessSpec

\* Every variable of the readiness service holds values of its kind.
THEOREM ReadinessTypeCorrect == ReadinessSpec => []ReadinessTypeOK
<1>1. ReadinessInv => ReadinessTypeOK
  BY DEF ReadinessInv, DecisionOK, LevelsOf, ReadinessTypeOK
<1> QED BY <1>1, ReadinessInvariant, PTL

\* A stored level that is ready was earned by every claim, every capability and
\* the gate, on one candidate (ReadinessEvaluator, save_readiness).
THEOREM ReadyRowsEarned == ReadinessSpec => []ReadyRowsAreEarned
<1>1. ReadinessInv => ReadyRowsAreEarned
  BY DEF ReadinessInv, DecisionOK, AssessmentEarned, ReadyRowsAreEarned
<1> QED BY <1>1, ReadinessInvariant, PTL
=============================================================================
