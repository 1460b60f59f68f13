--------------------------- MODULE ImageBuildsProofs ---------------------------
(***************************************************************************)
(* Theorems about ImageBuilds.                                             *)
(***************************************************************************)
EXTENDS ImageBuilds, SequenceTheorems, TLAPS

-----------------------------------------------------------------------------
(***************************************************************************)
(* The inductive invariant.                                                *)
(*                                                                         *)
(* The points at which a builder has a record, those at which the row is   *)
(* still pending because it looks for others' images, and those at which   *)
(* it goes through the list it was given.                                  *)
(***************************************************************************)
Searching == {"list", "verify", "await", "poll", "reuse", "mark"}

Working == Searching \cup {"commit", "docker", "save", "fail"}

Listing == {"verify", "await", "poll", "reuse"}

Open(rec) == rec.status \in {"pending", "building"}

(***************************************************************************)
(* Somebody builds for playground g under this identity.                   *)
(***************************************************************************)
Builds(g, digest) ==
  \E c \in Builders : plan[c] # None /\ plan[c].pg = g /\ plan[c].digest = digest

(***************************************************************************)
(* The image a record names is on the host, is of the record's commit, and *)
(* some build under the record's identity has its tag.                     *)
(***************************************************************************)
Fits(rec) ==
  /\ rec.image \in DOMAIN images
  /\ rec.image.commit = rec.commit
  /\ Builds(rec.image.pg, rec.digest)

ImagesAreBuilt ==
  \A ref \in DOMAIN images :
    images[ref].commit = ref.commit /\ Builds(ref.pg, images[ref].digest)

(***************************************************************************)
(* A builder's row against its copy, and the copy against the plan.        *)
(***************************************************************************)
RowOf(b) == recs[mine[b].id]

OwnRow(b) ==
  /\ RowOf(b).digest = Copy(b).digest
  /\ RowOf(b).commit \in {None, Copy(b).commit}
  /\ pc[b] \in Searching \cup {"commit"} => RowOf(b).status = "pending"

OwnCopy(b) ==
  /\ Copy(b).digest = plan[b].digest
  /\ pc[b] = "commit" => Copy(b).commit = None
  /\ pc[b] \in Working \ {"commit", "fail"} =>
       /\ Copy(b).commit \in Commits
       /\ Copy(b).image =
            DeterministicImageRef(plan[b].pg, ServiceOf(b), Copy(b).commit)
  /\ pc[b] = "save" => Fits(Copy(b))

(***************************************************************************)
(* What stays true of a record from the moment a query listed it.          *)
(***************************************************************************)
Candidate(b, i) ==
  /\ recs[i].status # "pending"
  /\ recs[i].commit = Copy(b).commit
  /\ recs[i].digest = Copy(b).digest
  /\ cands[b][i].commit = Copy(b).commit
  /\ cands[b][i].digest = Copy(b).digest
  /\ pc[b] = "reuse" => Fits(cands[b][i])

Sound(b) ==
  /\ pc[b] = "new" <=> plan[b] = None
  /\ pc[b] \in Working <=> mine[b] # None
  /\ pc[b] \in Working => OwnRow(b) /\ OwnCopy(b)
  /\ pc[b] \in Listing => \A i \in DOMAIN cands[b] : Candidate(b, i)

OwnRecords ==
  \A b, c \in Builders :
    mine[b] # None /\ mine[c] # None /\ mine[b].id = mine[c].id => b = c

BInv ==
  /\ TypeOK
  /\ \A b \in Builders : Sound(b)
  /\ OwnRecords
  /\ ImagesAreBuilt
  /\ OpenRecordHasOwner

-----------------------------------------------------------------------------
(***************************************************************************)
(* Records and rows.                                                       *)
(***************************************************************************)
LEMMA PlanFields ==
  ASSUME TypeOK, NEW b \in Builders, plan[b] # None
  PROVE  /\ plan[b] \in Plan
         /\ plan[b].pg \in Playgrounds
         /\ plan[b].digest \in Digests
         /\ plan[b].at \in 1 .. Len(Services)
         /\ ServiceOf(b) \in STRING
<1>1. plan[b] \in Plan
  BY DEF TypeOK
<1>2. plan[b].at \in 1 .. Len(Services)
  BY <1>1 DEF Plan
<1>3. ServiceOf(b) \in STRING
  BY <1>2, ConstantsAssumption DEF ServiceOf
<1>. QED
  BY <1>1, <1>2, <1>3 DEF Plan

LEMMA MineFields ==
  ASSUME TypeOK, NEW b \in Builders, mine[b] # None
  PROVE  /\ mine[b] \in Mine
         /\ mine[b].id \in DOMAIN recs
         /\ mine[b].id \in 1 .. Len(recs)
         /\ Copy(b) \in Record
         /\ RowOf(b) \in Record
<1>1. mine[b] \in Mine /\ mine[b].id \in DOMAIN recs /\ recs \in Seq(Record)
  BY DEF TypeOK
<1>2. mine[b].id \in 1 .. Len(recs)
  BY <1>1
<1>3. Copy(b) \in Record
  BY <1>1 DEF Mine, Copy
<1>4. RowOf(b) \in Record
  BY <1>1, <1>2 DEF RowOf
<1>. QED
  BY <1>1, <1>2, <1>3, <1>4

LEMMA RecordFields ==
  ASSUME NEW rec \in Record
  PROVE  /\ \A s \in Statuses : [rec EXCEPT !.status = s] \in Record
         /\ \A image \in Refs, s \in Statuses :
              [rec EXCEPT !.status = s, !.reused = TRUE, !.image = image] \in Record
         /\ \A image \in Refs, commit \in Commits :
              [rec EXCEPT !.commit = commit, !.image = image] \in Record
BY DEF Record

(***************************************************************************)
(* SaveBuildRecord replaces the builder's own row and leaves the others.   *)
(***************************************************************************)
LEMMA Saved ==
  ASSUME TypeOK, NEW b \in Builders, mine[b] # None, NEW rec \in Record,
         SaveBuildRecord(b, rec)
  PROVE  /\ recs' \in Seq(Record)
         /\ DOMAIN recs' = DOMAIN recs
         /\ recs'[mine[b].id] = rec
         /\ \A i \in DOMAIN recs : i # mine[b].id => recs'[i] = recs[i]
<1>1. recs \in Seq(Record) /\ mine[b].id \in 1 .. Len(recs)
  BY MineFields DEF TypeOK
<1>2. recs' = [recs EXCEPT ![mine[b].id] = rec]
  BY DEF SaveBuildRecord
<1>3. recs' \in Seq(Record) /\ Len(recs') = Len(recs)
  BY <1>1, <1>2, ExceptSeq
<1>. QED
  BY <1>1, <1>2, <1>3

(***************************************************************************)
(* What a step of builder b does to everything that is not its own:        *)
(* nothing but rows it owns, images and plans change, and those only grow. *)
(***************************************************************************)
Apart(b) ==
  /\ \A c \in Builders \ {b} :
       pc'[c] = pc[c] /\ plan'[c] = plan[c] /\ mine'[c] = mine[c] /\ cands'[c] = cands[c]
  /\ DOMAIN recs \subseteq DOMAIN recs'
  /\ \A i \in DOMAIN recs : (mine[b] # None => i # mine[b].id) => recs'[i] = recs[i]
  /\ DOMAIN images \subseteq DOMAIN images'
  /\ plan[b] # None => /\ plan'[b] # None
                       /\ plan'[b].pg = plan[b].pg
                       /\ plan'[b].digest = plan[b].digest

SavesForward(b) ==
  mine[b] # None =>
    LET old == recs[mine[b].id]
        new == recs'[mine[b].id]
    IN  /\ new.digest = old.digest
        /\ old.commit # None => new.commit = old.commit
        /\ old.status # "pending" => new.status # "pending"

(***************************************************************************)
(* The record b has after the step is the one it had, or a new one; and    *)
(* every open record was there before and is not b's, or is b's now.       *)
(***************************************************************************)
Accounts(b) ==
  /\ mine'[b] # None =>
       \/ mine[b] # None /\ mine'[b].id = mine[b].id
       \/ mine'[b].id \notin DOMAIN recs
  /\ pc[b] # "dead"
  /\ \A i \in DOMAIN recs' :
       Open(recs'[i]) =>
         \/ mine'[b] # None /\ mine'[b].id = i
         \/ /\ i \in DOMAIN recs /\ recs'[i] = recs[i]
            /\ mine[b] # None => mine[b].id # i

LEMMA BuildsKept ==
  ASSUME NEW b \in Builders, Apart(b), NEW g, NEW digest, Builds(g, digest)
  PROVE  Builds(g, digest)'
BY DEF Builds, Apart

LEMMA FitsKept ==
  ASSUME NEW b \in Builders, Apart(b), NEW rec, Fits(rec)
  PROVE  /\ rec.image \in DOMAIN images'
         /\ rec.image.commit = rec.commit
         /\ Builds(rec.image.pg, rec.digest)'
<1>1. Builds(rec.image.pg, rec.digest)'
  BY BuildsKept DEF Fits
<1>. QED
  BY <1>1 DEF Fits, Apart

LEMMA OthersStaySound ==
  ASSUME BInv, NEW b \in Builders, Apart(b), SavesForward(b),
         NEW c \in Builders, c # b
  PROVE  Sound(c)'
<1> DEFINE rec == Copy(c)
<1>1. /\ pc'[c] = pc[c] /\ plan'[c] = plan[c]
      /\ mine'[c] = mine[c] /\ cands'[c] = cands[c]
  BY DEF Apart
<1>2. Copy(c)' = Copy(c) /\ ServiceOf(c)' = ServiceOf(c)
  BY <1>1 DEF Copy, ServiceOf
<1>3. TypeOK /\ Sound(c) /\ OwnRecords
  BY DEF BInv
<1>4. ASSUME pc[c] \in Working PROVE OwnRow(c)'
  <2>1. mine[c] # None /\ OwnRow(c)
    BY <1>3, <1>4 DEF Sound
  <2>2. mine[c].id \in DOMAIN recs
    BY <1>3, <2>1, MineFields
  <2>3. mine[b] # None => mine[c].id # mine[b].id
    BY <1>3, <2>1 DEF OwnRecords
  <2>4. RowOf(c)' = RowOf(c)
    BY <1>1, <2>2, <2>3 DEF Apart, RowOf
  <2>. QED
    BY <1>1, <1>2, <2>1, <2>4 DEF OwnRow
<1>5. ASSUME pc[c] \in Working PROVE OwnCopy(c)'
  <2>1. OwnCopy(c)
    BY <1>3, <1>5 DEF Sound
  <2>2. ASSUME pc[c] = "save" PROVE Fits(Copy(c))'
    <3>1. Fits(Copy(c))
      BY <2>1, <2>2 DEF OwnCopy
    <3>. QED
      BY <3>1, <1>2, FitsKept DEF Fits
  <2>. QED
    BY <1>1, <1>2, <2>1, <2>2 DEF OwnCopy, DeterministicImageRef
<1>6. ASSUME pc[c] \in Listing, NEW i \in DOMAIN cands[c] PROVE Candidate(c, i)'
  <2>1. Candidate(c, i) /\ pc[c] \in Working \ {"commit", "fail"}
    BY <1>3, <1>6 DEF Sound, Listing, Working, Searching
  <2>2. i \in DOMAIN recs
    BY <1>3 DEF TypeOK
  <2>3. Copy(c).commit # None
    <3>1. OwnCopy(c)
      BY <1>3, <2>1 DEF Sound
    <3>. QED
      BY <3>1, <2>1, ConstantsAssumption DEF OwnCopy, Commits
  <2>4. /\ recs'[i].status # "pending"
        /\ recs'[i].commit = Copy(c).commit
        /\ recs'[i].digest = Copy(c).digest
    <3>1. CASE mine[b] # None => i # mine[b].id
      BY <3>1, <2>1, <2>2 DEF Apart, Candidate
    <3>2. CASE mine[b] # None /\ i = mine[b].id
      BY <3>2, <2>1, <2>3 DEF SavesForward, Candidate
    <3>. QED
      BY <3>1, <3>2
  <2>5. ASSUME pc[c] = "reuse" PROVE Fits(cands[c][i])'
    <3>1. Fits(cands[c][i])
      BY <2>1, <2>5 DEF Candidate
    <3>. QED
      BY <3>1, <1>1, FitsKept DEF Fits
  <2>. QED
    BY <1>1, <1>2, <2>1, <2>4, <2>5 DEF Candidate
<1>. QED
  BY <1>1, <1>3, <1>4, <1>5, <1>6 DEF Sound

(***************************************************************************)
(* Hence a step of b preserves the invariant if it keeps b's own part.     *)
(***************************************************************************)
LEMMA BuilderStep ==
  ASSUME BInv, TypeOK', NEW b \in Builders,
         Apart(b), SavesForward(b), Accounts(b), Sound(b)', ImagesAreBuilt'
  PROVE  BInv'
<1>1. \A c \in Builders : Sound(c)'
  BY OthersStaySound
<1>2. OwnRecords'
  <2> SUFFICES ASSUME NEW c \in Builders, NEW d \in Builders,
                      mine'[c] # None, mine'[d] # None, mine'[c].id = mine'[d].id
               PROVE  c = d
    BY DEF OwnRecords
  <2>1. TypeOK /\ OwnRecords
    BY DEF BInv
  <2>2. ASSUME NEW e \in Builders, e # b, mine'[b] # None, mine'[e] # None
        PROVE  mine'[e].id # mine'[b].id
    <3>1. mine'[e] = mine[e]
      BY <2>2 DEF Apart
    <3>2. mine[e].id \in DOMAIN recs
      BY <2>1, <2>2, <3>1, MineFields
    <3>. QED
      BY <2>1, <2>2, <3>1, <3>2 DEF Accounts, OwnRecords
  <2>3. c # b /\ d # b => c = d
    BY <2>1 DEF Apart, OwnRecords
  <2>. QED
    BY <2>2, <2>3
<1>3. OpenRecordHasOwner'
  <2> SUFFICES ASSUME \A c \in Builders : pc'[c] # "dead",
                      NEW i \in DOMAIN recs', Open(recs'[i])
               PROVE  \E c \in Builders : mine'[c] # None /\ mine'[c].id = i
    BY DEF OpenRecordHasOwner, Open
  <2>1. \A c \in Builders : pc[c] # "dead"
    BY DEF Apart, Accounts
  <2>2. CASE mine'[b] # None /\ mine'[b].id = i
    BY <2>2
  <2>3. CASE /\ i \in DOMAIN recs /\ recs'[i] = recs[i]
             /\ mine[b] # None => mine[b].id # i
    <3>1. PICK c \in Builders : mine[c] # None /\ mine[c].id = i
      BY <2>1, <2>3 DEF BInv, OpenRecordHasOwner, Open
    <3>2. c # b /\ mine'[c] = mine[c]
      BY <2>3, <3>1 DEF Apart
    <3>. QED
      BY <3>1, <3>2
  <2>. QED
    BY <2>2, <2>3 DEF Accounts
<1>. QED
  BY <1>1, <1>2, <1>3 DEF BInv

LEMMA SameImages ==
  ASSUME ImagesAreBuilt, NEW b \in Builders, Apart(b), UNCHANGED images
  PROVE  ImagesAreBuilt'
BY BuildsKept DEF ImagesAreBuilt

(***************************************************************************)
(* Steps that only move the builder and narrow what it looks at.           *)
(***************************************************************************)
Looks(b) ==
  /\ UNCHANGED <<recs, images, head, plan, mine>>
  /\ DOMAIN cands' = DOMAIN cands
  /\ \A c \in Builders \ {b} : pc'[c] = pc[c] /\ cands'[c] = cands[c]
  /\ pc[b] # "dead"

LEMMA LookStep ==
  ASSUME BInv, TypeOK', NEW b \in Builders, Looks(b), Sound(b)'
  PROVE  BInv'
<1>1. Apart(b)
  BY DEF Looks, Apart
<1>2. SavesForward(b)
  BY DEF Looks, SavesForward
<1>3. Accounts(b)
  <2>1. ASSUME NEW i \in DOMAIN recs, mine[b] # None /\ mine[b].id = i
        PROVE  mine'[b] # None /\ mine'[b].id = i
    BY <2>1 DEF Looks
  <2>. QED
    BY <2>1 DEF Looks, Accounts
<1>4. ImagesAreBuilt'
  BY <1>1, SameImages DEF BInv, Looks
<1>. QED
  BY <1>1, <1>2, <1>3, <1>4, BuilderStep

LEMMA LookType ==
  ASSUME TypeOK, NEW b \in Builders, NEW point \in Points, Goto(b, point),
         UNCHANGED <<recs, images, head, plan, mine>>, mishaps' \in 0 .. MaxMishaps,
         \/ UNCHANGED cands
         \/ \E ids \in SUBSET DOMAIN cands[b] : LookOnlyAt(b, ids)
         \/ /\ DOMAIN cands' = Builders
            /\ \A c \in Builders \ {b} : cands'[c] = cands[c]
            /\ DOMAIN cands'[b] \subseteq DOMAIN recs
            /\ cands'[b] \in [DOMAIN cands'[b] -> Record]
  PROVE  TypeOK'
<1>1. pc' \in [Builders -> Points]
  BY DEF Goto, TypeOK
<1>2. /\ DOMAIN cands' = Builders
      /\ \A c \in Builders : /\ DOMAIN cands'[c] \subseteq DOMAIN recs
                             /\ cands'[c] \in [DOMAIN cands'[c] -> Record]
  <2>1. CASE UNCHANGED cands
    BY <2>1 DEF TypeOK
  <2>2. CASE \E ids \in SUBSET DOMAIN cands[b] : LookOnlyAt(b, ids)
    <3>1. PICK ids \in SUBSET DOMAIN cands[b] : LookOnlyAt(b, ids)
      BY <2>2
    <3>2. \A c \in Builders :
            cands'[c] = IF c = b THEN [i \in ids |-> cands[b][i]] ELSE cands[c]
      BY <3>1 DEF LookOnlyAt, TypeOK
    <3>3. [i \in ids |-> cands[b][i]] \in [ids -> Record]
      BY <3>1 DEF TypeOK
    <3>. QED
      BY <3>1, <3>2, <3>3 DEF LookOnlyAt, TypeOK
  <2>3. CASE /\ DOMAIN cands' = Builders
             /\ \A c \in Builders \ {b} : cands'[c] = cands[c]
             /\ DOMAIN cands'[b] \subseteq DOMAIN recs
             /\ cands'[b] \in [DOMAIN cands'[b] -> Record]
    BY <2>3 DEF TypeOK
  <2>. QED
    BY <2>1, <2>2, <2>3
<1>. QED
  BY <1>1, <1>2 DEF TypeOK

LEMMA ListReusableStep ==
  ASSUME BInv, NEW b \in Builders, ListReusable(b)
  PROVE  BInv'
<1>1. /\ pc[b] = "list" /\ pc' = [pc EXCEPT ![b] = "verify"]
      /\ cands' = [cands EXCEPT ![b] = Listed(Copy(b))]
      /\ UNCHANGED <<recs, images, head, plan, mine, mishaps>>
  BY DEF ListReusable, Goto
<1>2. TypeOK /\ Sound(b)
  BY DEF BInv
<1>3. /\ DOMAIN Listed(Copy(b)) \subseteq DOMAIN recs
      /\ Listed(Copy(b)) \in [DOMAIN Listed(Copy(b)) -> Record]
  BY <1>2 DEF Listed, TypeOK
<1>4. /\ cands'[b] = Listed(Copy(b)) /\ pc'[b] = "verify"
      /\ \A c \in Builders \ {b} : cands'[c] = cands[c] /\ pc'[c] = pc[c]
      /\ DOMAIN cands' = Builders
  BY <1>1, <1>2 DEF TypeOK
<1>5. TypeOK'
  <2>1. "verify" \in Points
    BY DEF Points
  <2>. QED
    BY <1>1, <1>2, <1>3, <1>4, <2>1, LookType DEF TypeOK, Goto
<1>6. mine[b] # None /\ OwnRow(b) /\ OwnCopy(b)
  BY <1>1, <1>2 DEF Sound, Working, Searching
<1>7. Copy(b)' = Copy(b) /\ ServiceOf(b)' = ServiceOf(b) /\ RowOf(b)' = RowOf(b)
  BY <1>1 DEF Copy, ServiceOf, RowOf
<1>8. \A i \in DOMAIN cands'[b] : Candidate(b, i)'
  BY <1>1, <1>4, <1>7 DEF Candidate, Listed, Reusable
<1>9. OwnRow(b)' /\ OwnCopy(b)'
  BY <1>1, <1>4, <1>6, <1>7
     DEF OwnRow, OwnCopy, Working, Searching, DeterministicImageRef
<1>10. Sound(b)'
  BY <1>1, <1>2, <1>4, <1>6, <1>8, <1>9 DEF Sound, Working, Searching, Listing
<1>11. Looks(b)
  BY <1>1, <1>2, <1>4 DEF Looks, TypeOK
<1>. QED
  BY <1>5, <1>10, <1>11, LookStep

(***************************************************************************)
(* A builder that goes through its list keeps its row and its copy, and a  *)
(* candidate it keeps stays one.                                           *)
(***************************************************************************)
LEMMA ListingStep ==
  ASSUME BInv, NEW b \in Builders, pc[b] \in Listing,
         NEW point \in Listing \cup {"mark", "fail"}, Goto(b, point),
         UNCHANGED <<recs, images, head, plan, mine>>, mishaps' \in 0 .. MaxMishaps,
         UNCHANGED cands \/ \E ids \in SUBSET DOMAIN cands[b] : LookOnlyAt(b, ids),
         point = "reuse" => \A i \in DOMAIN cands'[b] : Fits(cands[b][i])
  PROVE  BInv'
<1>1. TypeOK /\ Sound(b)
  BY DEF BInv
<1>2. /\ pc'[b] = point
      /\ \A c \in Builders \ {b} : cands'[c] = cands[c] /\ pc'[c] = pc[c]
      /\ DOMAIN cands' = Builders
      /\ DOMAIN cands'[b] \subseteq DOMAIN cands[b]
      /\ \A i \in DOMAIN cands'[b] : cands'[b][i] = cands[b][i]
  BY <1>1 DEF TypeOK, Goto, LookOnlyAt
<1>3. TypeOK'
  <2>1. point \in Points
    BY DEF Points, Listing
  <2>. QED
    BY <1>1, <2>1, LookType
<1>4. mine[b] # None /\ OwnRow(b) /\ OwnCopy(b) /\ plan[b] # None
  BY <1>1 DEF Sound, Working, Searching, Listing
<1>5. Copy(b)' = Copy(b) /\ ServiceOf(b)' = ServiceOf(b) /\ RowOf(b)' = RowOf(b)
  BY DEF Copy, ServiceOf, RowOf
<1>6. ASSUME point \in Listing, NEW i \in DOMAIN cands'[b] PROVE Candidate(b, i)'
  <2>1. Candidate(b, i)
    BY <1>1, <1>2 DEF Sound
  <2>2. point = "reuse" => Fits(cands[b][i])'
    BY <1>2, <1>6 DEF Fits, Builds
  <2>. QED
    BY <1>2, <1>5, <2>1, <2>2, <1>6 DEF Candidate
<1>7. OwnRow(b)'
  BY <1>2, <1>4, <1>5 DEF OwnRow, Working, Searching, Listing
<1>8. OwnCopy(b)'
  BY <1>2, <1>4, <1>5 DEF OwnCopy, Working, Searching, Listing, DeterministicImageRef
<1>9. Sound(b)'
  BY <1>2, <1>4, <1>6, <1>7, <1>8 DEF Sound, Working, Searching, Listing
<1>10. Looks(b)
  BY <1>1, <1>2 DEF Looks, TypeOK, Listing
<1>. QED
  BY <1>3, <1>9, <1>10, LookStep

(***************************************************************************)
(* The labels of an image that exists show what its tag says, and some     *)
(* build has its identity.                                                 *)
(***************************************************************************)
LEMMA ExistingFits ==
  ASSUME ImagesAreBuilt, NEW rec, ImageExistsForBuild(rec)
  PROVE  Fits(rec)
BY DEF ImagesAreBuilt, ImageExistsForBuild, Fits

LEMMA VerifySuccessStep ==
  ASSUME BInv, NEW b \in Builders, VerifySuccess(b)
  PROVE  BInv'
<1>1. /\ pc[b] = "verify" /\ UNCHANGED <<recs, images, head, plan, mine, mishaps>>
      /\ TypeOK /\ ImagesAreBuilt
  BY DEF VerifySuccess, BInv
<1>2. mishaps' \in 0 .. MaxMishaps /\ pc[b] \in Listing
  BY <1>1 DEF TypeOK, Listing
<1>3. ASSUME NEW i \in Succeeded(b), ImageExistsForBuild(cands[b][i]),
             LookOnlyAt(b, {i}), Goto(b, "reuse")
      PROVE  BInv'
  <2>1. {i} \in SUBSET DOMAIN cands[b]
    BY DEF Succeeded
  <2>2. cands'[b] = [j \in {i} |-> cands[b][j]]
    BY <1>1, <1>3 DEF LookOnlyAt, TypeOK
  <2>3. \A j \in DOMAIN cands'[b] : Fits(cands[b][j])
    BY <1>1, <1>3, <2>2, ExistingFits
  <2>4. "reuse" \in Listing
    BY DEF Listing
  <2>. QED
    BY <1>1, <1>2, <1>3, <2>1, <2>3, <2>4, ListingStep
<1>4. ASSUME NEW i \in Succeeded(b), LookOnlyAt(b, DOMAIN cands[b] \ {i}),
             UNCHANGED pc
      PROVE  BInv'
  <2>1. Goto(b, "verify")
    BY <1>1, <1>4 DEF Goto, TypeOK
  <2>2. DOMAIN cands[b] \ {i} \in SUBSET DOMAIN cands[b] /\ "verify" \in Listing
    BY DEF Listing
  <2>. QED
    BY <1>1, <1>2, <1>4, <2>1, <2>2, ListingStep
<1>5. ASSUME NEW fresh \in SUBSET DOMAIN cands[b],
             LookOnlyAt(b, Waitable(b, fresh)), Goto(b, "await")
      PROVE  BInv'
  <2>1. Waitable(b, fresh) \in SUBSET DOMAIN cands[b] /\ "await" \in Listing
    BY DEF Waitable, Listing
  <2>. QED
    BY <1>1, <1>2, <1>5, <2>1, ListingStep
<1>. QED
  BY <1>3, <1>4, <1>5 DEF VerifySuccess

LEMMA AwaitBuildingStep ==
  ASSUME BInv, NEW b \in Builders, AwaitBuilding(b)
  PROVE  BInv'
<1>1. /\ pc[b] = "await" /\ UNCHANGED <<recs, images, head, plan, mine, mishaps>>
      /\ TypeOK /\ ImagesAreBuilt
  BY DEF AwaitBuilding, BInv
<1>2. mishaps' \in 0 .. MaxMishaps /\ pc[b] \in Listing
  BY <1>1 DEF TypeOK, Listing
<1>3. ASSUME Goto(b, "mark") \/ Goto(b, "poll"), UNCHANGED cands
      PROVE  BInv'
  <2>1. "mark" # "reuse" /\ "poll" # "reuse" /\ "poll" \in Listing
    BY DEF Listing
  <2>. QED
    BY <1>1, <1>2, <1>3, <2>1, ListingStep
<1>4. ASSUME NEW i \in DOMAIN cands[b], ImageExistsForBuild(cands[b][i]),
             LookOnlyAt(b, {i}), Goto(b, "reuse")
      PROVE  BInv'
  <2>1. {i} \in SUBSET DOMAIN cands[b] /\ "reuse" \in Listing
    BY DEF Listing
  <2>2. cands'[b] = [j \in {i} |-> cands[b][j]]
    BY <1>1, <1>4 DEF LookOnlyAt, TypeOK
  <2>3. \A j \in DOMAIN cands'[b] : Fits(cands[b][j])
    BY <1>1, <1>4, <2>2, ExistingFits
  <2>. QED
    BY <1>1, <1>2, <1>4, <2>1, <2>3, ListingStep
<1>. QED
  BY <1>3, <1>4 DEF AwaitBuilding

LEMMA IgnoreStep ==
  ASSUME BInv, NEW b \in Builders, pc[b] = "poll", NEW i \in DOMAIN cands[b],
         Ignore(b, i), UNCHANGED <<recs, images, head, plan, mine, mishaps>>
  PROVE  BInv'
<1>1. DOMAIN cands[b] \ {i} \in SUBSET DOMAIN cands[b] /\ "await" \in Listing
  BY DEF Listing
<1>2. mishaps' \in 0 .. MaxMishaps /\ pc[b] \in Listing
  BY DEF BInv, TypeOK, Listing
<1>. QED
  BY <1>1, <1>2, ListingStep DEF Ignore

(***************************************************************************)
(* A record polled as successful is taken as it is now; what made it a     *)
(* candidate has not changed.                                              *)
(***************************************************************************)
LEMMA PollStep ==
  ASSUME BInv, NEW b \in Builders, Poll(b)
  PROVE  BInv'
<1>1. /\ pc[b] = "poll" /\ UNCHANGED <<recs, images, head, plan, mine, mishaps>>
      /\ TypeOK /\ ImagesAreBuilt /\ Sound(b)
  BY DEF Poll, BInv
<1>2. ASSUME NEW i \in DOMAIN cands[b], ImageExistsForBuild(recs[i]),
             cands' = [cands EXCEPT ![b] = [j \in {i} |-> recs[j]]],
             Goto(b, "reuse")
      PROVE  BInv'
  <2>1. /\ pc'[b] = "reuse"
        /\ \A c \in Builders \ {b} : cands'[c] = cands[c] /\ pc'[c] = pc[c]
        /\ DOMAIN cands' = Builders
        /\ cands'[b] = [j \in {i} |-> recs[j]]
    BY <1>1, <1>2 DEF TypeOK, Goto
  <2>2. i \in DOMAIN recs /\ recs[i] \in Record
    BY <1>1 DEF TypeOK
  <2>3. TypeOK'
    <3>1. "reuse" \in Points /\ mishaps' \in 0 .. MaxMishaps
      BY <1>1 DEF Points, TypeOK
    <3>2. DOMAIN cands'[b] \subseteq DOMAIN recs
      BY <2>1, <2>2
    <3>3. cands'[b] \in [DOMAIN cands'[b] -> Record]
      BY <2>1, <2>2
    <3>. QED
      BY <1>1, <1>2, <2>1, <3>1, <3>2, <3>3, LookType
  <2>4. mine[b] # None /\ OwnRow(b) /\ OwnCopy(b) /\ plan[b] # None
    BY <1>1 DEF Sound, Working, Searching
  <2>5. Copy(b)' = Copy(b) /\ ServiceOf(b)' = ServiceOf(b) /\ RowOf(b)' = RowOf(b)
    BY <1>1 DEF Copy, ServiceOf, RowOf
  <2>6. Candidate(b, i)'
    <3>1. Candidate(b, i)
      BY <1>1 DEF Sound, Listing
    <3>2. Fits(recs[i])
      BY <1>1, <1>2, ExistingFits
    <3>3. Fits(cands[b][i])'
      BY <1>1, <2>1, <3>2 DEF Fits, Builds
    <3>. QED
      BY <1>1, <2>1, <2>5, <3>1, <3>3 DEF Candidate
  <2>7. OwnRow(b)'
    BY <2>1, <1>1, <2>4, <2>5 DEF OwnRow, Searching
  <2>8. OwnCopy(b)'
    BY <2>1, <1>1, <2>4, <2>5 DEF OwnCopy, Working, Searching, DeterministicImageRef
  <2>9. Sound(b)'
    BY <1>1, <2>1, <2>4, <2>6, <2>7, <2>8 DEF Sound, Working, Searching, Listing
  <2>10. Looks(b)
    BY <1>1, <2>1 DEF Looks, TypeOK
  <2>. QED
    BY <2>3, <2>9, <2>10, LookStep
<1>. QED
  BY <1>1, <1>2, IgnoreStep DEF Poll, Polled

LEMMA LookFailsStep ==
  ASSUME BInv, NEW b \in Builders, LookFails(b)
  PROVE  BInv'
<1>1. mishaps' \in 0 .. MaxMishaps /\ pc[b] \in Listing
  BY ConstantsAssumption DEF BInv, TypeOK, LookFails, Mishap, Listing
<1>. QED
  BY <1>1, ListingStep DEF LookFails

(***************************************************************************)
(* Begin and the two steps that give a builder its record and its commit.  *)
(***************************************************************************)
LEMMA BeginStep ==
  ASSUME BInv, NEW b \in Builders, Begin(b)
  PROVE  BInv'
<1>1. PICK pg \in Playgrounds, digest \in Digests :
        plan' = [plan EXCEPT ![b] = [pg |-> pg, digest |-> digest, at |-> 1]]
  BY DEF Begin
<1>2. /\ pc[b] = "new" /\ pc' = [pc EXCEPT ![b] = "create"]
      /\ UNCHANGED <<recs, images, head, mine, cands, mishaps>>
      /\ TypeOK /\ Sound(b) /\ ImagesAreBuilt
  BY DEF Begin, Goto, BInv
<1>3. [pg |-> pg, digest |-> digest, at |-> 1] \in Plan
  <2>1. 1 \in 1 .. Len(Services)
    BY ConstantsAssumption, EmptySeq
  <2>. QED
    BY <2>1 DEF Plan
<1>4. /\ pc'[b] = "create" /\ plan'[b] \in Plan /\ plan'[b] # None
      /\ \A c \in Builders \ {b} : pc'[c] = pc[c] /\ plan'[c] = plan[c]
  BY <1>1, <1>2, <1>3, NoneAssumption DEF TypeOK
<1>5. TypeOK'
  BY <1>1, <1>2, <1>3 DEF TypeOK, Points
<1>6. plan[b] = None /\ mine[b] = None
  BY <1>2 DEF Sound, Working, Searching
<1>7. Apart(b)
  BY <1>2, <1>4, <1>6 DEF Apart
<1>8. SavesForward(b) /\ Accounts(b)
  BY <1>2, <1>6 DEF SavesForward, Accounts
<1>9. Sound(b)'
  BY <1>2, <1>4, <1>6 DEF Sound, Working, Searching, Listing
<1>. QED
  BY <1>2, <1>5, <1>7, <1>8, <1>9, BuilderStep, SameImages

LEMMA CreateBuildRecordStep ==
  ASSUME BInv, NEW b \in Builders, CreateBuildRecord(b)
  PROVE  BInv'
<1> DEFINE rec == NewPendingRecord(b)
<1>1. /\ pc[b] = "create" /\ pc' = [pc EXCEPT ![b] = "commit"]
      /\ recs' = Append(recs, rec)
      /\ mine' = [mine EXCEPT ![b] = [id |-> Len(recs) + 1, rec |-> rec]]
      /\ UNCHANGED <<images, head, plan, cands, mishaps>>
      /\ TypeOK /\ Sound(b) /\ ImagesAreBuilt
  BY DEF CreateBuildRecord, Goto, BInv
<1>2. mine[b] = None /\ plan[b] # None
  BY <1>1 DEF Sound, Working, Searching
<1>3. /\ rec \in Record /\ rec.digest = plan[b].digest /\ rec.commit = None
      /\ rec.status = "pending"
  <2>1. plan[b].pg \in Playgrounds /\ plan[b].digest \in Digests /\ ServiceOf(b) \in STRING
    BY <1>1, <1>2, PlanFields
  <2>. QED
    BY <2>1 DEF NewPendingRecord, Record, Statuses
<1> HIDE DEF rec
<1>4. /\ recs' \in Seq(Record)
      /\ DOMAIN recs \subseteq DOMAIN recs'
      /\ \A i \in DOMAIN recs : recs'[i] = recs[i]
      /\ Len(recs) + 1 \in DOMAIN recs' /\ Len(recs) + 1 \notin DOMAIN recs
      /\ Len(recs) + 1 \in Nat
      /\ recs'[Len(recs) + 1] = rec
      /\ \A i \in DOMAIN recs' : i = Len(recs) + 1 \/ i \in DOMAIN recs
  <2>1. recs \in Seq(Record)
    BY <1>1 DEF TypeOK
  <2>2. recs' \in Seq(Record) /\ Len(recs') = Len(recs) + 1
    BY <1>1, <1>3, <2>1, AppendProperties
  <2>3. DOMAIN recs = 1 .. Len(recs) /\ DOMAIN recs' = 1 .. Len(recs) + 1
    BY <2>1, <2>2, LenProperties
  <2>4. \A i \in 1 .. Len(recs) : recs'[i] = recs[i]
    BY <1>1, <1>3, <2>1, AppendProperties
  <2>5. recs'[Len(recs) + 1] = rec
    BY <1>1, <1>3, <2>1, AppendProperties
  <2>6. Len(recs) \in Nat
    BY <2>1, LenProperties
  <2>. QED
    BY <2>2, <2>3, <2>4, <2>5, <2>6
<1>5. /\ pc'[b] = "commit" /\ mine'[b] = [id |-> Len(recs) + 1, rec |-> rec]
      /\ mine'[b] \in Mine /\ mine'[b] # None
      /\ \A c \in Builders \ {b} : pc'[c] = pc[c] /\ mine'[c] = mine[c]
  BY <1>1, <1>3, <1>4, NoneAssumption DEF TypeOK, Mine
<1>6. TypeOK'
  <2>1. pc' \in [Builders -> Points]
    BY <1>1 DEF TypeOK, Points
  <2>2. mine' \in [Builders -> Mine \cup {None}]
    BY <1>1, <1>5 DEF TypeOK
  <2>3. \A c \in Builders : mine'[c] # None => mine'[c].id \in DOMAIN recs'
    BY <1>1, <1>4, <1>5 DEF TypeOK
  <2>4. \A c \in Builders : /\ DOMAIN cands[c] \subseteq DOMAIN recs'
                            /\ cands[c] \in [DOMAIN cands[c] -> Record]
    BY <1>1, <1>4 DEF TypeOK
  <2>. QED
    BY <1>1, <1>4, <2>1, <2>2, <2>3, <2>4 DEF TypeOK
<1>7. Apart(b)
  BY <1>1, <1>4, <1>5 DEF Apart
<1>8. SavesForward(b)
  BY <1>2 DEF SavesForward
<1>9. Accounts(b)
  BY <1>1, <1>2, <1>4, <1>5 DEF Accounts
<1>10. Copy(b)' = rec /\ RowOf(b)' = rec
  BY <1>4, <1>5 DEF Copy, RowOf
<1>11. OwnRow(b)' /\ OwnCopy(b)'
  BY <1>1, <1>3, <1>5, <1>10 DEF OwnRow, OwnCopy
<1>12. Sound(b)'
  BY <1>1, <1>2, <1>5, <1>11 DEF Sound, Working, Listing
<1>. QED
  BY <1>1, <1>6, <1>7, <1>8, <1>9, <1>12, BuilderStep, SameImages

LEMMA ResolveSourceCommitStep ==
  ASSUME BInv, NEW b \in Builders, ResolveSourceCommit(b)
  PROVE  BInv'
<1>1. /\ pc[b] = "commit" /\ UNCHANGED <<recs, images, head, plan, cands>>
      /\ TypeOK /\ Sound(b) /\ ImagesAreBuilt
  BY DEF ResolveSourceCommit, BInv
<1>2. /\ mine[b] # None /\ plan[b] # None /\ OwnRow(b) /\ OwnCopy(b)
      /\ RowOf(b).commit = None /\ RowOf(b).status = "pending"
  BY <1>1 DEF Sound, Working, Searching, OwnRow, OwnCopy
<1>3. /\ mine[b] \in Mine /\ mine[b].id \in DOMAIN recs /\ Copy(b) \in Record
      /\ plan[b].pg \in Playgrounds /\ ServiceOf(b) \in STRING
  BY <1>1, <1>2, MineFields, PlanFields
<1>4. CASE Keep(b, AttachCommit(b, head[plan[b].pg])) /\ Goto(b, "list") /\ UNCHANGED mishaps
  <2> DEFINE rec == AttachCommit(b, head[plan[b].pg])
  <2>1. head[plan[b].pg] \in Commits
    BY <1>1, <1>3 DEF TypeOK
  <2>2. /\ rec \in Record /\ rec.digest = plan[b].digest
        /\ rec.commit \in Commits
        /\ rec.image = DeterministicImageRef(plan[b].pg, ServiceOf(b), rec.commit)
    <3>1. DeterministicImageRef(plan[b].pg, ServiceOf(b), head[plan[b].pg]) \in Refs
      BY <1>3, <2>1 DEF DeterministicImageRef, Refs
    <3>. QED
      BY <1>2, <1>3, <2>1, <3>1 DEF AttachCommit, OwnCopy, Record
  <2> HIDE DEF rec
  <2>3. /\ mine' = [mine EXCEPT ![b] = [id |-> mine[b].id, rec |-> rec]]
        /\ pc' = [pc EXCEPT ![b] = "list"]
    BY <1>4 DEF Keep, Goto, rec
  <2>4. /\ pc'[b] = "list" /\ mine'[b] = [id |-> mine[b].id, rec |-> rec]
        /\ mine'[b] \in Mine /\ mine'[b] # None
        /\ \A c \in Builders \ {b} : pc'[c] = pc[c] /\ mine'[c] = mine[c]
    BY <1>1, <1>3, <2>2, <2>3, NoneAssumption DEF TypeOK, Mine
  <2>5. TypeOK'
    <3>1. pc' \in [Builders -> Points]
      BY <1>1, <2>3 DEF TypeOK, Points
    <3>2. mine' \in [Builders -> Mine \cup {None}]
      BY <1>1, <2>3, <2>4 DEF TypeOK
    <3>3. \A c \in Builders : mine'[c] # None => mine'[c].id \in DOMAIN recs
      BY <1>1, <1>3, <2>4 DEF TypeOK
    <3>. QED
      BY <1>1, <1>4, <3>1, <3>2, <3>3 DEF TypeOK
  <2>6. Apart(b)
    BY <1>1, <2>4 DEF Apart
  <2>7. SavesForward(b)
    BY <1>1 DEF SavesForward
  <2>8. Accounts(b)
    BY <1>1, <1>2, <2>4 DEF Accounts
  <2>9. Copy(b)' = rec /\ RowOf(b)' = RowOf(b) /\ ServiceOf(b)' = ServiceOf(b)
    BY <1>1, <2>4 DEF Copy, RowOf, ServiceOf
  <2>10. OwnRow(b)'
    BY <1>2, <2>2, <2>9 DEF OwnRow, OwnCopy
  <2>11. OwnCopy(b)'
    BY <1>1, <2>2, <2>4, <2>9 DEF OwnCopy, DeterministicImageRef
  <2>12. Sound(b)'
    BY <1>1, <1>2, <2>4, <2>10, <2>11 DEF Sound, Working, Searching, Listing
  <2>. QED
    BY <1>1, <2>5, <2>6, <2>7, <2>8, <2>12, BuilderStep, SameImages
<1>5. CASE Mishap /\ Goto(b, "fail") /\ UNCHANGED mine
  <2>1. pc'[b] = "fail" /\ \A c \in Builders \ {b} : pc'[c] = pc[c]
    BY <1>1, <1>5 DEF Goto, TypeOK
  <2>2. TypeOK'
    BY <1>1, <1>5, LookType, ConstantsAssumption DEF Mishap, TypeOK, Points
  <2>3. Copy(b)' = Copy(b) /\ RowOf(b)' = RowOf(b)
    BY <1>1, <1>5 DEF Copy, RowOf
  <2>4. OwnRow(b)' /\ OwnCopy(b)'
    BY <1>1, <1>2, <1>5, <2>1, <2>3 DEF OwnRow, OwnCopy, Searching
  <2>5. Sound(b)'
    BY <1>1, <1>2, <1>5, <2>1, <2>4 DEF Sound, Working, Listing
  <2>6. Looks(b)
    BY <1>1, <1>5, <2>1 DEF Looks
  <2>. QED
    BY <2>2, <2>5, <2>6, LookStep
<1>. QED
  BY <1>4, <1>5 DEF ResolveSourceCommit

-----------------------------------------------------------------------------
(***************************************************************************)
(* The saves, and docker build.                                            *)
(***************************************************************************)
LEMMA SaveBuildingStep ==
  ASSUME BInv, NEW b \in Builders, SaveBuilding(b)
  PROVE  BInv'
<1> DEFINE rec == [Copy(b) EXCEPT !.status = "building"]
<1>1. /\ pc[b] = "mark" /\ pc' = [pc EXCEPT ![b] = "docker"]
      /\ SaveBuildRecord(b, rec)
      /\ mine' = [mine EXCEPT ![b] = [id |-> mine[b].id, rec |-> rec]]
      /\ UNCHANGED <<images, head, plan, cands, mishaps>>
      /\ TypeOK /\ Sound(b) /\ ImagesAreBuilt
  BY DEF SaveBuilding, Keep, Goto, BInv
<1>2. mine[b] # None /\ plan[b] # None /\ OwnRow(b) /\ OwnCopy(b)
  BY <1>1 DEF Sound, Working, Searching
<1>3. mine[b] \in Mine /\ mine[b].id \in DOMAIN recs /\ Copy(b) \in Record
  BY <1>1, <1>2, MineFields
<1>4. /\ rec \in Record /\ rec.digest = Copy(b).digest /\ rec.commit = Copy(b).commit
      /\ rec.image = Copy(b).image /\ rec.status = "building"
  BY <1>3 DEF Record, Statuses
<1> HIDE DEF rec
<1>5. /\ recs' \in Seq(Record) /\ DOMAIN recs' = DOMAIN recs
      /\ recs'[mine[b].id] = rec
      /\ \A i \in DOMAIN recs : i # mine[b].id => recs'[i] = recs[i]
  BY <1>1, <1>2, <1>4, Saved
<1>6. /\ pc'[b] = "docker" /\ mine'[b] = [id |-> mine[b].id, rec |-> rec]
      /\ mine'[b] \in Mine /\ mine'[b] # None
      /\ \A c \in Builders \ {b} : pc'[c] = pc[c] /\ mine'[c] = mine[c]
  BY <1>1, <1>3, <1>4, NoneAssumption DEF TypeOK, Mine
<1>7. TypeOK'
  <2>1. pc' \in [Builders -> Points]
    BY <1>1 DEF TypeOK, Points
  <2>2. mine' \in [Builders -> Mine \cup {None}]
    BY <1>1, <1>6 DEF TypeOK
  <2>3. \A c \in Builders : mine'[c] # None => mine'[c].id \in DOMAIN recs'
    BY <1>1, <1>3, <1>5, <1>6 DEF TypeOK
  <2>. QED
    BY <1>1, <1>5, <2>1, <2>2, <2>3 DEF TypeOK
<1>8. Apart(b)
  <2>1. DOMAIN recs \subseteq DOMAIN recs'
    BY <1>5
  <2>2. plan'[b] = plan[b] /\ DOMAIN images \subseteq DOMAIN images'
    BY <1>1
  <2>. QED
    BY <1>1, <1>2, <1>5, <1>6, <2>1, <2>2 DEF Apart
<1>9. SavesForward(b)
  BY <1>2, <1>4, <1>5 DEF SavesForward, OwnRow, RowOf
<1>10. Accounts(b)
  BY <1>1, <1>2, <1>5, <1>6 DEF Accounts
<1>11. Copy(b)' = rec /\ RowOf(b)' = rec /\ ServiceOf(b)' = ServiceOf(b)
  BY <1>1, <1>5, <1>6 DEF Copy, RowOf, ServiceOf
<1>12. OwnRow(b)'
  BY <1>6, <1>11 DEF OwnRow, Searching
<1>13. OwnCopy(b)'
  BY <1>1, <1>2, <1>4, <1>6, <1>11
     DEF OwnCopy, Working, Searching, DeterministicImageRef
<1>14. Sound(b)'
  BY <1>1, <1>2, <1>6, <1>12, <1>13 DEF Sound, Working, Listing
<1>. QED
  BY <1>1, <1>7, <1>8, <1>9, <1>10, <1>14, BuilderStep, SameImages

(***************************************************************************)
(* The last save of a record, after which its builder forgets it.          *)
(***************************************************************************)
LEMMA SettleStep ==
  ASSUME BInv, NEW b \in Builders, pc[b] \in {"reuse", "save", "fail"},
         NEW rec \in Record, SaveBuildRecord(b, rec), Forget(b),
         rec.digest = Copy(b).digest, rec.commit = Copy(b).commit,
         rec.status \in {"success", "failed"},
         NextService(b) \/ (Goto(b, "failed") /\ UNCHANGED plan),
         UNCHANGED <<images, head, mishaps>>
  PROVE  BInv'
<1>1. TypeOK /\ Sound(b) /\ ImagesAreBuilt
  BY DEF BInv
<1>2. mine[b] # None /\ plan[b] # None /\ OwnRow(b)
  BY <1>1 DEF Sound, Working, Searching
<1>3. mine[b].id \in DOMAIN recs /\ plan[b] \in Plan
  BY <1>1, <1>2, MineFields, PlanFields
<1>4. /\ recs' \in Seq(Record) /\ DOMAIN recs' = DOMAIN recs
      /\ recs'[mine[b].id] = rec
      /\ \A i \in DOMAIN recs : i # mine[b].id => recs'[i] = recs[i]
  BY <1>1, <1>2, Saved
<1>5. /\ mine' = [mine EXCEPT ![b] = None]
      /\ cands' = [cands EXCEPT ![b] = NothingListed]
  BY DEF Forget
<1>6. /\ plan' \in [Builders -> Plan \cup {None}]
      /\ plan'[b] # None /\ plan'[b].pg = plan[b].pg
      /\ plan'[b].digest = plan[b].digest
      /\ \A c \in Builders \ {b} : plan'[c] = plan[c]
  <2>1. CASE plan' = [plan EXCEPT ![b] = [plan[b] EXCEPT !.at = @ + 1]]
             /\ plan[b].at < Len(Services)
    <3> DEFINE next == [plan[b] EXCEPT !.at = @ + 1]
    <3>1. /\ next \in Plan /\ next.pg = plan[b].pg /\ next.digest = plan[b].digest
          /\ next # None
      <4>1. plan[b].at + 1 \in 1 .. Len(Services)
        BY <1>3, <2>1, ConstantsAssumption, LenProperties DEF Plan
      <4>2. /\ next \in Plan /\ next.pg = plan[b].pg
            /\ next.digest = plan[b].digest
        BY <1>3, <4>1 DEF Plan
      <4>. QED
        BY <4>2, NoneAssumption
    <3>2. plan' = [plan EXCEPT ![b] = next]
      BY <2>1
    <3> HIDE DEF next
    <3>. QED
      BY <1>1, <3>1, <3>2 DEF TypeOK
  <2>2. CASE UNCHANGED plan
    BY <1>1, <1>2, <2>2 DEF TypeOK
  <2>. QED
    BY <2>1, <2>2 DEF NextService
<1>7. PICK point \in {"create", "done", "failed"} : pc' = [pc EXCEPT ![b] = point]
  BY DEF NextService, Goto
<1>8. /\ pc'[b] = point /\ mine'[b] = None
      /\ \A c \in Builders \ {b} :
           pc'[c] = pc[c] /\ mine'[c] = mine[c] /\ cands'[c] = cands[c]
  BY <1>1, <1>5, <1>7 DEF TypeOK
<1>9. TypeOK'
  <2>1. pc' \in [Builders -> Points]
    BY <1>1, <1>7 DEF TypeOK, Points
  <2>2. mine' \in [Builders -> Mine \cup {None}]
    BY <1>1, <1>5 DEF TypeOK
  <2>3. \A c \in Builders : mine'[c] # None => mine'[c].id \in DOMAIN recs'
    BY <1>1, <1>4, <1>8 DEF TypeOK
  <2>4. /\ DOMAIN cands' = Builders
        /\ \A c \in Builders : /\ DOMAIN cands'[c] \subseteq DOMAIN recs'
                               /\ cands'[c] \in [DOMAIN cands'[c] -> Record]
    <3>1. NothingListed \in [{} -> Record] /\ DOMAIN NothingListed = {}
      BY DEF NothingListed
    <3>. QED
      BY <1>1, <1>4, <1>5, <3>1 DEF TypeOK
  <2>. QED
    BY <1>1, <1>4, <1>6, <2>1, <2>2, <2>3, <2>4 DEF TypeOK
<1>10. Apart(b)
  <2>1. DOMAIN recs \subseteq DOMAIN recs'
    BY <1>4
  <2>2. DOMAIN images \subseteq DOMAIN images'
    OBVIOUS
  <2>. QED
    BY <1>2, <1>4, <1>6, <1>8, <2>1, <2>2 DEF Apart
<1>11. SavesForward(b)
  BY <1>2, <1>4 DEF SavesForward, OwnRow, RowOf
<1>12. Accounts(b)
  BY <1>2, <1>4, <1>8 DEF Accounts, Open
<1>13. Sound(b)'
  BY <1>6, <1>7, <1>8 DEF Sound, Working, Searching, Listing
<1>. QED
  BY <1>1, <1>9, <1>10, <1>11, <1>12, <1>13, BuilderStep, SameImages

LEMMA SaveReusedStep ==
  ASSUME BInv, NEW b \in Builders, SaveReused(b)
  PROVE  BInv'
<1>1. pc[b] = "reuse" /\ TypeOK /\ Sound(b)
  BY DEF SaveReused, BInv
<1>2. PICK i \in DOMAIN cands[b] :
        SaveBuildRecord(b, [Copy(b) EXCEPT !.status = "success", !.reused = TRUE,
                                           !.image = cands[b][i].image])
  BY DEF SaveReused
<1>3. Copy(b) \in Record
  BY <1>1, MineFields DEF Sound, Working, Searching
<1>4. cands[b][i].image \in Refs
  <2>1. Candidate(b, i)
    BY <1>1 DEF Sound, Listing
  <2>. QED
    BY <1>1, <2>1 DEF Candidate, Fits, TypeOK
<1> DEFINE rec == [Copy(b) EXCEPT !.status = "success", !.reused = TRUE,
                                  !.image = cands[b][i].image]
<1>5. /\ rec \in Record /\ rec.digest = Copy(b).digest /\ rec.commit = Copy(b).commit
      /\ rec.status = "success"
  BY <1>3, <1>4 DEF Record, Statuses
<1>. QED
  BY <1>1, <1>2, <1>5, SettleStep DEF SaveReused

LEMMA SaveSuccessfulStep ==
  ASSUME BInv, NEW b \in Builders, SaveSuccessful(b)
  PROVE  BInv'
<1>1. pc[b] = "save" /\ TypeOK /\ Sound(b)
  BY DEF SaveSuccessful, BInv
<1>2. Copy(b) \in Record
  BY <1>1, MineFields DEF Sound, Working
<1> DEFINE rec == [Copy(b) EXCEPT !.status = "success"]
<1>3. /\ rec \in Record /\ rec.digest = Copy(b).digest /\ rec.commit = Copy(b).commit
      /\ rec.status = "success"
  BY <1>2 DEF Record, Statuses
<1>. QED
  BY <1>1, <1>3, SettleStep DEF SaveSuccessful

LEMMA FailBuildRecordStep ==
  ASSUME BInv, NEW b \in Builders, FailBuildRecord(b)
  PROVE  BInv'
<1>1. pc[b] = "fail" /\ TypeOK /\ Sound(b)
  BY DEF FailBuildRecord, BInv
<1>2. Copy(b) \in Record
  BY <1>1, MineFields DEF Sound, Working
<1> DEFINE rec == [Copy(b) EXCEPT !.status = "failed"]
<1>3. /\ rec \in Record /\ rec.digest = Copy(b).digest /\ rec.commit = Copy(b).commit
      /\ rec.status = "failed"
  BY <1>2 DEF Record, Statuses
<1>. QED
  BY <1>1, <1>3, SettleStep DEF FailBuildRecord

LEMMA BuildImageStep ==
  ASSUME BInv, NEW b \in Builders, BuildImage(b)
  PROVE  BInv'
<1>1. /\ pc[b] = "docker" /\ UNCHANGED <<recs, head, plan, mine, cands>>
      /\ TypeOK /\ Sound(b) /\ ImagesAreBuilt
  BY DEF BuildImage, BInv
<1>2. mine[b] # None /\ plan[b] # None /\ OwnRow(b) /\ OwnCopy(b)
  BY <1>1 DEF Sound, Working, Searching
<1>3. /\ Copy(b).commit \in Commits /\ Copy(b).digest = plan[b].digest
      /\ Copy(b).image = DeterministicImageRef(plan[b].pg, ServiceOf(b), Copy(b).commit)
  BY <1>1, <1>2 DEF OwnCopy, Working, Searching
<1>4. /\ Copy(b).image \in Refs /\ Copy(b).image.commit = Copy(b).commit
      /\ Copy(b).image.pg = plan[b].pg
      /\ plan[b].digest \in Digests
  <2>1. plan[b].pg \in Playgrounds /\ plan[b].digest \in Digests /\ ServiceOf(b) \in STRING
    BY <1>1, <1>2, PlanFields
  <2>. QED
    BY <1>3, <2>1 DEF DeterministicImageRef, Refs
<1>5. Copy(b)' = Copy(b) /\ RowOf(b)' = RowOf(b) /\ ServiceOf(b)' = ServiceOf(b)
  BY <1>1 DEF Copy, RowOf, ServiceOf
<1>6. CASE /\ images' = [r \in DOMAIN images \cup {Copy(b).image} |->
                           IF r = Copy(b).image
                           THEN [commit |-> Copy(b).commit, digest |-> Copy(b).digest]
                           ELSE images[r]]
           /\ Goto(b, "save") /\ UNCHANGED mishaps
  <2>1. pc'[b] = "save" /\ \A c \in Builders \ {b} : pc'[c] = pc[c]
    BY <1>1, <1>6 DEF Goto, TypeOK
  <2>2. TypeOK'
    <3>1. pc' \in [Builders -> Points]
      BY <1>1, <1>6 DEF TypeOK, Points, Goto
    <3>2. DOMAIN images' \subseteq Refs /\ images' \in [DOMAIN images' -> Labels]
      BY <1>1, <1>3, <1>4, <1>6 DEF TypeOK, Labels
    <3>. QED
      BY <1>1, <1>6, <3>1, <3>2 DEF TypeOK
  <2>3. Apart(b)
    BY <1>1, <1>6, <2>1 DEF Apart
  <2>4. SavesForward(b)
    BY <1>1 DEF SavesForward
  <2>5. Accounts(b)
    BY <1>1, <1>2 DEF Accounts
  <2>6. Builds(plan[b].pg, plan[b].digest)'
    BY <1>1, <1>2 DEF Builds
  <2>7. ImagesAreBuilt'
    <3> SUFFICES ASSUME NEW ref \in DOMAIN images'
                 PROVE  (/\ images[ref].commit = ref.commit
                         /\ Builds(ref.pg, images[ref].digest))'
      BY DEF ImagesAreBuilt
    <3>1. CASE ref = Copy(b).image
      <4>1. images'[ref] = [commit |-> Copy(b).commit, digest |-> plan[b].digest]
        BY <1>3, <1>6, <3>1
      <4>. QED
        BY <1>1, <1>4, <2>6, <3>1, <4>1 DEF Builds
    <3>2. CASE ref # Copy(b).image
      <4>1. ref \in DOMAIN images /\ images'[ref] = images[ref]
        BY <1>6, <3>2
      <4>. QED
        BY <1>1, <2>3, <4>1, BuildsKept DEF ImagesAreBuilt, Builds
    <3>. QED
      BY <3>1, <3>2
  <2>8. Fits(Copy(b))'
    BY <1>1, <1>3, <1>4, <1>5, <1>6, <2>6 DEF Fits, Builds
  <2>9. OwnRow(b)'
    BY <1>2, <1>5, <2>1 DEF OwnRow, Searching
  <2>10. OwnCopy(b)'
    BY <1>1, <1>2, <1>5, <2>1, <2>8 DEF OwnCopy, Working, Searching, DeterministicImageRef
  <2>11. Sound(b)'
    BY <1>1, <1>2, <2>1, <2>9, <2>10 DEF Sound, Working, Listing
  <2>. QED
    BY <2>2, <2>3, <2>4, <2>5, <2>7, <2>11, BuilderStep
<1>7. CASE Mishap /\ Goto(b, "fail") /\ UNCHANGED images
  <2>1. pc'[b] = "fail" /\ \A c \in Builders \ {b} : pc'[c] = pc[c]
    BY <1>1, <1>7 DEF Goto, TypeOK
  <2>2. TypeOK'
    BY <1>1, <1>7, LookType, ConstantsAssumption DEF Mishap, TypeOK, Points
  <2>3. OwnRow(b)' /\ OwnCopy(b)'
    BY <1>1, <1>2, <1>5, <2>1 DEF OwnRow, OwnCopy, Searching
  <2>4. Sound(b)'
    BY <1>1, <1>2, <2>1, <2>3 DEF Sound, Working, Listing
  <2>5. Looks(b)
    BY <1>1, <1>7, <2>1 DEF Looks
  <2>. QED
    BY <2>2, <2>4, <2>5, LookStep
<1>. QED
  BY <1>6, <1>7 DEF BuildImage

-----------------------------------------------------------------------------
(***************************************************************************)
(* Steps of nobody in particular.                                          *)
(***************************************************************************)
LEMMA SourceMovesStep ==
  ASSUME BInv, SourceMoves
  PROVE  BInv'
<1>1. UNCHANGED <<recs, images, pc, plan, mine, cands, mishaps>>
  BY DEF SourceMoves
<1>2. TypeOK'
  <2>1. PICK b \in Builders :
          /\ plan[b] # None /\ head[plan[b].pg] < MaxCommit
          /\ head' = [head EXCEPT ![plan[b].pg] = @ + 1]
    BY DEF SourceMoves
  <2>2. TypeOK /\ plan[b].pg \in Playgrounds
    BY <2>1, PlanFields DEF BInv
  <2>3. head[plan[b].pg] + 1 \in Commits
    BY <2>1, <2>2, ConstantsAssumption DEF TypeOK, Commits
  <2>4. head' \in [Playgrounds -> Commits]
    BY <2>1, <2>2, <2>3 DEF TypeOK
  <2>. QED
    BY <1>1, <2>2, <2>4 DEF TypeOK
<1>3. ASSUME NEW b \in Builders PROVE Sound(b)'
  BY <1>1 DEF BInv, Sound, OwnRow, OwnCopy, Candidate, Fits, Builds, Copy, RowOf,
             ServiceOf, DeterministicImageRef
<1>. QED
  BY <1>1, <1>2, <1>3
     DEF BInv, OwnRecords, ImagesAreBuilt, Builds, OpenRecordHasOwner

LEMMA CrashStep ==
  ASSUME BInv, Crash
  PROVE  BInv'
<1>1. /\ mishaps' = mishaps + 1 /\ mishaps < MaxMishaps
      /\ pc' = [b \in Builders |->
                  IF pc[b] \in {"new", "done", "failed"} THEN pc[b] ELSE "dead"]
      /\ mine' = [b \in Builders |-> None]
      /\ cands' = [b \in Builders |-> NothingListed]
      /\ UNCHANGED <<recs, images, head, plan>>
      /\ TypeOK
  BY DEF Crash, Mishap, BInv
<1>2. TypeOK'
  <2>1. mishaps' \in 0 .. MaxMishaps
    BY <1>1, ConstantsAssumption DEF TypeOK
  <2>2. pc' \in [Builders -> Points]
    BY <1>1 DEF TypeOK, Points
  <2>3. /\ DOMAIN cands' = Builders
        /\ \A c \in Builders : /\ DOMAIN cands'[c] \subseteq DOMAIN recs
                               /\ cands'[c] \in [DOMAIN cands'[c] -> Record]
    <3>1. NothingListed \in [{} -> Record] /\ DOMAIN NothingListed = {}
      BY DEF NothingListed
    <3>. QED
      BY <1>1, <3>1
  <2>. QED
    BY <1>1, <2>1, <2>2, <2>3 DEF TypeOK
<1>3. ASSUME NEW b \in Builders PROVE Sound(b)'
  BY <1>1 DEF BInv, Sound, Working, Searching, Listing
<1>4. ImagesAreBuilt'
  BY <1>1 DEF BInv, ImagesAreBuilt, Builds
<1>5. OpenRecordHasOwner'
  <2> SUFFICES ASSUME \A b \in Builders : pc'[b] # "dead"
               PROVE  \A i \in DOMAIN recs : ~Open(recs[i])
    BY <1>1 DEF OpenRecordHasOwner, Open
  <2>1. \A b \in Builders : pc[b] \in {"new", "done", "failed"}
    BY <1>1
  <2>2. \A b \in Builders : mine[b] = None
    BY <2>1 DEF BInv, Sound, Working, Searching
  <2>. QED
    BY <2>1, <2>2 DEF BInv, OpenRecordHasOwner, Open
<1>. QED
  BY <1>1, <1>2, <1>3, <1>4, <1>5 DEF BInv, OwnRecords

-----------------------------------------------------------------------------
LEMMA InvStep == BInv /\ [Next]_vars => BInv'
<1> SUFFICES ASSUME BInv, [Next]_vars PROVE BInv'
  OBVIOUS
<1>1. ASSUME NEW b \in Builders, Build(b) PROVE BInv'
  BY <1>1, CreateBuildRecordStep, ResolveSourceCommitStep, ListReusableStep,
     VerifySuccessStep, AwaitBuildingStep, PollStep, LookFailsStep, SaveReusedStep,
     SaveBuildingStep, BuildImageStep, SaveSuccessfulStep, FailBuildRecordStep,
     IgnoreStep DEF Build, PollDeadline
<1>2. CASE UNCHANGED vars
  <2>1. UNCHANGED <<recs, images, head, pc, plan, mine, cands, mishaps>>
    BY <1>2 DEF vars
  <2>2. TypeOK'
    BY <2>1 DEF BInv, TypeOK
  <2>3. ASSUME NEW b \in Builders PROVE Sound(b)'
    BY <2>1 DEF BInv, Sound, OwnRow, OwnCopy, Candidate, Fits, Builds, Copy, RowOf,
               ServiceOf, DeterministicImageRef
  <2>. QED
    BY <2>1, <2>2, <2>3
       DEF BInv, OwnRecords, ImagesAreBuilt, Builds, OpenRecordHasOwner
<1>. QED
  BY <1>1, <1>2, BeginStep, SourceMovesStep, CrashStep DEF Next

LEMMA InvInit == Init => BInv
<1> SUFFICES ASSUME Init PROVE BInv
  OBVIOUS
<1>1. TypeOK
  <2>1. recs \in Seq(Record)
    BY EmptySeq DEF Init
  <2>2. /\ DOMAIN cands = Builders
        /\ \A c \in Builders : /\ DOMAIN cands[c] \subseteq DOMAIN recs
                               /\ cands[c] \in [DOMAIN cands[c] -> Record]
    BY DEF Init, NothingListed
  <2>3. 0 \in Commits /\ mishaps \in 0 .. MaxMishaps
    BY ConstantsAssumption DEF Commits, Init
  <2>. QED
    BY <2>1, <2>2, <2>3 DEF Init, TypeOK, Points
<1>2. recs = <<>> /\ DOMAIN recs = {} /\ DOMAIN images = {}
  BY DEF Init
<1>3. ASSUME NEW b \in Builders PROVE Sound(b)
  BY DEF Init, Sound, Working, Searching, Listing
<1>4. OwnRecords
  BY DEF Init, OwnRecords
<1>. QED
  BY <1>1, <1>2, <1>3, <1>4 DEF BInv, ImagesAreBuilt, OpenRecordHasOwner

LEMMA InvAlways == Spec => []BInv
BY InvInit, InvStep, PTL DEF Spec

(***************************************************************************)
(* Every variable keeps its type; in particular ids that builders hold, or *)
(* listed, are ids of rows of build_records.                               *)
(***************************************************************************)
THEOREM BuildsTypeCorrect == Spec => []TypeOK
<1>1. BInv => TypeOK
  BY DEF BInv
<1>. QED
  BY <1>1, InvAlways, PTL

(***************************************************************************)
(* waitForReusableBuildCandidates polls records marked building only, and  *)
(* a build marks its own record after its search: however many builds run, *)
(* nobody waits for one that may itself be waiting.                        *)
(***************************************************************************)
THEOREM WaitsAreAcyclic == Spec => []NoWaitCycle
<1>1. BInv => NoWaitCycle
  <2> SUFFICES ASSUME BInv, NEW b \in Builders, NEW c \in Builders, pc[b] = "poll",
                      pc[c] \in {"list", "verify", "await", "poll"}
               PROVE  mine[c].id \notin DOMAIN cands[b]
    BY DEF NoWaitCycle
  <2>1. recs[mine[c].id].status = "pending"
    BY DEF BInv, Sound, Working, Searching, OwnRow, RowOf
  <2>2. \A i \in DOMAIN cands[b] : recs[i].status # "pending"
    BY DEF BInv, Sound, Listing, Candidate
  <2>. QED
    BY <2>1, <2>2
<1>. QED
  BY <1>1, InvAlways, PTL

(***************************************************************************)
(* A record left pending or building, whichever command of its builder     *)
(* failed, is one a build still works on, unless the process died.         *)
(***************************************************************************)
THEOREM OpenRecordsAreOwned == Spec => []OpenRecordHasOwner
<1>1. BInv => OpenRecordHasOwner
  BY DEF BInv
<1>. QED
  BY <1>1, InvAlways, PTL

(***************************************************************************)
(* A build that completes, fresh or reused, names an image that is on the  *)
(* host with the commit and the identity of its own record - as long as    *)
(* the playground of that image is not built under two identities.         *)
(***************************************************************************)
LEMMA ServedStep ==
  ASSUME BInv, [Next]_vars, NEW b \in Builders, Completes(b)
  PROVE  LET rec == recs'[mine[b].id]
         IN  Undisputed(rec.image) => ImageExistsForBuild(rec)
<1>1. /\ pc[b] \in {"save", "reuse"} /\ mine'[b] = None /\ pc'[b] # "dead"
      /\ TypeOK /\ Sound(b) /\ ImagesAreBuilt
  BY DEF Completes, BInv
<1>2. mine[b] # None /\ Copy(b) \in Record
  BY <1>1, MineFields DEF Sound, Working, Searching
<1>3. ASSUME NEW rec \in Record, SaveBuildRecord(b, rec), Fits(rec)
      PROVE  Undisputed(recs'[mine[b].id].image)
               => ImageExistsForBuild(recs'[mine[b].id])
  <2>1. recs'[mine[b].id] = rec
    BY <1>1, <1>2, <1>3, Saved
  <2>2. Undisputed(rec.image) => ImageExistsForBuild(rec)
    BY <1>1, <1>3 DEF Fits, Builds, ImagesAreBuilt, Undisputed, ImageExistsForBuild
  <2>. QED
    BY <2>1, <2>2
<1>4. CASE SaveReused(b)
  <2>1. pc[b] = "reuse"
    BY <1>4 DEF SaveReused
  <2>2. PICK i \in DOMAIN cands[b] :
          SaveBuildRecord(b, [Copy(b) EXCEPT !.status = "success", !.reused = TRUE,
                                             !.image = cands[b][i].image])
    BY <1>4 DEF SaveReused
  <2> DEFINE rec == [Copy(b) EXCEPT !.status = "success", !.reused = TRUE,
                                    !.image = cands[b][i].image]
  <2>3. Candidate(b, i) /\ Fits(cands[b][i])
    BY <1>1, <2>1 DEF Sound, Listing, Candidate
  <2>4. /\ rec \in Record /\ rec.digest = Copy(b).digest
        /\ rec.commit = Copy(b).commit /\ rec.image = cands[b][i].image
    BY <1>1, <1>2, <2>3 DEF Record, Statuses, Fits, TypeOK
  <2>5. Fits(rec)
    BY <2>3, <2>4 DEF Fits, Candidate
  <2>. QED
    BY <1>3, <2>2, <2>4, <2>5
<1>5. CASE SaveSuccessful(b)
  <2> DEFINE rec == [Copy(b) EXCEPT !.status = "success"]
  <2>1. pc[b] = "save" /\ SaveBuildRecord(b, rec)
    BY <1>5 DEF SaveSuccessful
  <2>2. Fits(Copy(b))
    BY <1>1, <2>1 DEF Sound, Working, OwnCopy
  <2>3. rec \in Record /\ Fits(rec)
    BY <1>2, <2>2 DEF Record, Statuses, Fits
  <2>. QED
    BY <1>3, <2>1, <2>3
<1>6. SaveReused(b) \/ SaveSuccessful(b)
  <2>1. ~Crash
    BY <1>1 DEF Crash
  <2>2. ASSUME NEW c \in Builders, Begin(c) \/ Build(c), c # b PROVE FALSE
    <3>1. UNCHANGED mine \/ \E m : mine' = [mine EXCEPT ![c] = m]
      BY <2>2 DEF Begin, Build, CreateBuildRecord, ResolveSourceCommit, ListReusable,
                  VerifySuccess, AwaitBuilding, Poll, PollDeadline, LookFails,
                  SaveReused, SaveBuilding, BuildImage, SaveSuccessful,
                  FailBuildRecord, Keep, Forget
    <3>2. mine'[b] = mine[b]
      BY <1>1, <2>2, <3>1 DEF TypeOK
    <3>. QED
      BY <1>1, <1>2, <3>2
  <2>3. ~SourceMoves /\ ~(UNCHANGED vars)
    BY <1>1, <1>2 DEF SourceMoves, vars
  <2>4. Begin(b) \/ Build(b)
    BY <2>1, <2>2, <2>3 DEF Next
  <2>. QED
    BY <1>1, <1>2, <2>4
       DEF Begin, Build, CreateBuildRecord, ResolveSourceCommit, ListReusable,
           VerifySuccess, AwaitBuilding, Poll, PollDeadline, LookFails,
           SaveBuilding, BuildImage, FailBuildRecord
<1>. QED
  BY <1>4, <1>5, <1>6

(***************************************************************************)
(* verifiedReusableBuildRecord and runBuildImage: no deployment is given   *)
(* the image of another commit or of another identity.                     *)
(***************************************************************************)
THEOREM ServedImagesFit == Spec => ServedImage
<1>1. BInv /\ [Next]_vars =>
        [\A b \in Builders :
           Completes(b) => LET rec == recs'[mine[b].id]
                           IN  Undisputed(rec.image) => ImageExistsForBuild(rec)]_vars
  BY ServedStep
<1>. QED
  BY <1>1, InvAlways, PTL DEF Spec, ServedImage
=============================================================================
