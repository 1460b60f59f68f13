-------------------------- MODULE ResourcesProofs --------------------------
(***************************************************************************)
(* Proofs about Resources, for any requests, any number of threads and any *)
(* failures.  First, whatever the documents say, the constraints of the    *)
(* tables, the synced columns of Props and the cleanup of launches.  Then, *)
(* for the requests of PlainRequests, what the operators of                *)
(* ComposeDocuments do to the labels that decide routes, and with it that  *)
(* every deployed service is routed as it was asked.                       *)
(***************************************************************************)
EXTENDS PlainRequests, TLAPS

(***************************************************************************)
(* The inductive invariant, in two parts.  Tables is about the rows.       *)
(***************************************************************************)
Ids == [playspec : Nat \ {0}, prop : Nat \ {0}, playground : Nat \ {0}]

About(row) == row.meta \in {None, Canonical[row.repo].id}

Tables ==
  /\ ids \in Ids
  /\ WellFormed(playspecs, ids.playspec)
  /\ WellFormed(props, ids.prop)
  /\ WellFormed(playgrounds, ids.playground)
  /\ \A g \in DOMAIN playgrounds : playgrounds[g].playspec \in DOMAIN playspecs \cup {None}
  /\ \A i \in DOMAIN playspecs : Validate(playspecs[i].doc)
  /\ \A i \in DOMAIN props : About(props[i])
  /\ \A g \in DOMAIN playgrounds : {"name", "playspec"} \subseteq DOMAIN playgrounds[g]

(***************************************************************************)
(* Thread t carries what its next steps rely on: the rows it is about to   *)
(* save are good, what it has made are ids given out already, and it has   *)
(* made nothing that a refusal from here would not undo.                   *)
(***************************************************************************)
Made == [playspec : Nat \cup {None}, prop : Nat \cup {None}, playground : Nat \cup {None}]

Launching == {"prepare", "create_playspec", "replay_playspec", "create_prop", "replay_prop"}

Shared == {"load", "lookup", "insert", "again"}

Undoing == {"cleanup", "cleanup_props"}

Before == Points \ (Shared \cup Undoing \cup {"idle", "deploy", "create_prop", "replay_prop"})

NothingMade(t) == made[t].playspec = None /\ made[t].prop = None /\ made[t].playground = None

Carries(t) ==
  /\ made[t].playspec # None => made[t].playspec < ids.playspec
  /\ made[t].prop # None => made[t].prop < ids.prop
  /\ pc[t] \in Launching => req[t].kind = "launch"
  /\ pc[t] \in Before => NothingMade(t)
  /\ pc[t] \in Shared /\ req[t].kind # "launch" => NothingMade(t)
  /\ pc[t] \in Shared \cup Undoing \cup {"create_prop", "replay_prop"} => made[t].playground = None
  /\ pc[t] = "cleanup_props" => made[t].playspec \notin DOMAIN playspecs
  /\ pc[t] = "save_prop" => About(prop[t].row)
  /\ pc[t] = "save_playspec" => Validate(ps[t].row.doc)
  /\ answer[t] = "refused" =>
       /\ pc[t] = "idle"
       /\ made[t].playspec \notin DOMAIN playspecs
       /\ made[t].prop \notin DOMAIN props
       /\ made[t].playground = None

Locals ==
  /\ pc \in [Threads -> Points]
  /\ req \in [Threads -> Requests \cup {None}]
  /\ left \in [requests : 0 .. MaxRequests, troubles : 0 .. MaxTroubles]
  /\ made \in [Threads -> Made]
  /\ DOMAIN answer = Threads /\ DOMAIN ps = Threads /\ DOMAIN prop = Threads

RInv == Tables /\ Locals /\ \A t \in Threads : Carries(t)

LEMMA InitRInv == Init => RInv
<1> SUFFICES ASSUME Init PROVE RInv
  OBVIOUS
<1>1. Tables
  BY DEF Init, Tables, Ids, Empty, WellFormed
<1>2. made \in [Threads -> Made] /\ \A t \in Threads : NothingMade(t)
  BY DEF Init, Made, NothingMade
<1>3. left \in [requests : 0 .. MaxRequests, troubles : 0 .. MaxTroubles]
  BY ResourcesAssumption DEF Init
<1>4. \A t \in Threads : Carries(t)
  BY <1>2, ResourcesAssumption
     DEF Init, Carries, Launching, Before, Shared, Undoing, NothingMade
<1> QED
  BY <1>1, <1>2, <1>3, <1>4 DEF Init, RInv, Locals, Points

-----------------------------------------------------------------------------
(***************************************************************************)
(* How a table may change: rows only come under the next id, which is      *)
(* never given out again.                                                  *)
(***************************************************************************)
Grow ==
  /\ \A i \in DOMAIN playspecs' : i \in DOMAIN playspecs \/ i >= ids.playspec
  /\ \A i \in DOMAIN props' : i \in DOMAIN props \/ i >= ids.prop
  /\ ids.playspec <= ids'.playspec /\ ids.prop <= ids'.prop

(***************************************************************************)
(* A step of thread t leaves the others alone.                             *)
(***************************************************************************)
OthersKeep(t) ==
  \A u \in Threads \ {t} :
    /\ pc'[u] = pc[u] /\ req'[u] = req[u] /\ answer'[u] = answer[u]
    /\ ps'[u] = ps[u] /\ prop'[u] = prop[u] /\ made'[u] = made[u]

LEMMA ThreadStep ==
  ASSUME RInv, NEW t \in Threads, Tables', Grow, OthersKeep(t), Locals', Carries(t)'
  PROVE  RInv'
<1>1. ASSUME NEW u \in Threads, u # t PROVE Carries(u)'
  <2>1. Carries(u) /\ made[u] \in Made /\ ids \in Ids /\ ids' \in Ids
    BY DEF RInv, Locals, Tables
  <2>2. /\ pc'[u] = pc[u] /\ req'[u] = req[u] /\ answer'[u] = answer[u]
        /\ ps'[u] = ps[u] /\ prop'[u] = prop[u] /\ made'[u] = made[u]
    BY <1>1 DEF OthersKeep
  <2>3. /\ made[u].playspec # None => made[u].playspec < ids'.playspec
        /\ made[u].prop # None => made[u].prop < ids'.prop
    BY <2>1 DEF Carries, Grow, Made, Ids
  <2>4. None \notin DOMAIN playspecs' /\ None \notin DOMAIN props'
    BY ResourcesAssumption DEF Tables, WellFormed, Ids
  <2>5. /\ made[u].playspec \notin DOMAIN playspecs => made[u].playspec \notin DOMAIN playspecs'
        /\ made[u].prop \notin DOMAIN props => made[u].prop \notin DOMAIN props'
    BY <2>1, <2>4 DEF Carries, Grow, Made, Ids
  <2> QED
    BY <2>1, <2>2, <2>3, <2>5 DEF Carries, NothingMade, About
<1> QED
  BY <1>1 DEF RInv

(***************************************************************************)
(* A step that leaves the tables alone.                                    *)
(***************************************************************************)
LEMMA QuietStep ==
  ASSUME RInv, NEW t \in Threads, UNCHANGED tables, OthersKeep(t), Locals', Carries(t)'
  PROVE  RInv'
<1>1. Tables' /\ Grow
  BY DEF RInv, Tables, tables, WellFormed, About, Grow, Ids
<1> QED
  BY <1>1, ThreadStep

-----------------------------------------------------------------------------
(***************************************************************************)
(* What a thread that is busy knows.                                       *)
(***************************************************************************)
LEMMA Standing ==
  ASSUME RInv, NEW t \in Threads
  PROVE  /\ Carries(t) /\ pc[t] \in Points /\ made[t] \in Made
         /\ None \notin DOMAIN playspecs /\ None \notin DOMAIN props
         /\ pc[t] # "idle" => answer[t] # "refused"
         /\ DOMAIN answer = Threads /\ DOMAIN pc = Threads
  BY ResourcesAssumption DEF RInv, Locals, Carries, Tables, WellFormed, Ids

(***************************************************************************)
(* The three ways a step that writes no row may end.                       *)
(***************************************************************************)
LEMMA Refusal ==
  ASSUME RInv, NEW t \in Threads, Refuse(t), UNCHANGED <<tables, made>>, NothingMade(t)
  PROVE  Carries(t)'
  BY Standing DEF Refuse, Answer, tables, NothingMade, Carries, Launching, Shared, Undoing, Before

LEMMA Reply ==
  ASSUME RInv, NEW t \in Threads, NEW a, a # "refused", Answer(t, a), UNCHANGED <<tables, made>>
  PROVE  Carries(t)'
  BY Standing DEF Answer, tables, Carries, Launching, Shared, Undoing, Before

LEMMA Move ==
  ASSUME RInv, NEW t \in Threads, NEW point \in Points, Goto(t, point), pc[t] # "idle",
         UNCHANGED <<tables, made, req>>,
         point \in Launching => req[t].kind = "launch",
         point \in Before => NothingMade(t),
         point \in Shared /\ req[t].kind # "launch" => NothingMade(t),
         point \in Shared \cup Undoing \cup {"create_prop", "replay_prop"}
           => made[t].playground = None,
         point # "cleanup_props",
         point = "save_prop" => About(prop'[t].row),
         point = "save_playspec" => Validate(ps'[t].row.doc)
  PROVE  Carries(t)'
<1>1. pc'[t] = point /\ answer'[t] # "refused" /\ made'[t] = made[t] /\ req'[t] = req[t]
  BY Standing DEF Goto
<1>2. Carries(t) /\ ids' = ids
  BY Standing DEF tables
<1> QED
  BY <1>1, <1>2 DEF Carries, NothingMade, About

LEMMA PrepareLaunchStep ==
  ASSUME RInv, NEW t \in Threads, PrepareLaunch(t)
  PROVE  RInv'
<1>1. UNCHANGED tables /\ OthersKeep(t) /\ Locals'
  BY ResourcesAssumption
     DEF PrepareLaunch, RInv, Locals, OthersKeep, tables, locals, Goto, Answer, Refuse, Trouble,
         NotWritable, Points
<1>2. Carries(t)'
  BY Standing, Refusal, Move
     DEF PrepareLaunch, tables, locals, Carries, Points, Launching, Shared, Undoing, Before,
         NothingMade
<1> QED
  BY <1>1, <1>2, QuietStep

LEMMA ReplayLaunchPlayspecStep ==
  ASSUME RInv, NEW t \in Threads, ReplayLaunchPlayspec(t)
  PROVE  RInv'
<1>1. UNCHANGED tables /\ OthersKeep(t) /\ Locals'
  BY ResourcesAssumption
     DEF ReplayLaunchPlayspec, RInv, Locals, OthersKeep, tables, locals, Goto, Answer, Refuse,
         Trouble, NotWritable, Points, Continue, AfterPlayspec, Found
<1>2. Carries(t)'
  BY Standing, Refusal, Reply, Move
     DEF ReplayLaunchPlayspec, tables, locals, Continue, AfterPlayspec, Found, Carries, Points,
         Launching, Shared, Undoing, Before, NothingMade
<1> QED
  BY <1>1, <1>2, QuietStep

LEMMA ReplayLaunchPropStep ==
  ASSUME RInv, NEW t \in Threads, ReplayLaunchProp(t)
  PROVE  RInv'
<1>1. UNCHANGED tables /\ OthersKeep(t) /\ Locals'
  BY ResourcesAssumption
     DEF ReplayLaunchProp, RInv, Locals, OthersKeep, tables, locals, Goto, Answer, Refuse,
         Trouble, NotWritable, Points, Continue, AfterProp
<1>2. Carries(t)'
  BY Standing, Refusal, Reply, Move
     DEF ReplayLaunchProp, tables, locals, Continue, AfterProp, Carries, Points, Launching,
         Shared, Undoing, Before, NothingMade
<1> QED
  BY <1>1, <1>2, QuietStep

LEMMA ResolvePlayspecStep ==
  ASSUME RInv, NEW t \in Threads, ResolvePlayspec(t)
  PROVE  RInv'
<1>1. UNCHANGED tables /\ OthersKeep(t) /\ Locals'
  BY ResourcesAssumption
     DEF ResolvePlayspec, RInv, Locals, OthersKeep, tables, locals, Goto, Answer, Refuse, Trouble,
         NotWritable, Points, Found
<1>2. Carries(t)'
  BY Standing, Refusal, Move
     DEF ResolvePlayspec, tables, locals, Found, Carries, Points, Launching, Shared, Undoing,
         Before, NothingMade
<1> QED
  BY <1>1, <1>2, QuietStep

LEMMA LoadPlayspecStep ==
  ASSUME RInv, NEW t \in Threads, LoadPlayspec(t)
  PROVE  RInv'
<1>1. UNCHANGED tables /\ OthersKeep(t) /\ Locals'
  BY ResourcesAssumption
     DEF LoadPlayspec, RInv, Locals, OthersKeep, tables, locals, Goto, Answer, Refuse, Trouble,
         NotWritable, Points, FailPlayground, Found
<1>2. Carries(t)'
  BY Standing, Refusal, Move
     DEF LoadPlayspec, tables, locals, FailPlayground, Found, Carries, Points, Launching, Shared,
         Undoing, Before, NothingMade
<1> QED
  BY <1>1, <1>2, QuietStep

LEMMA LookupPlaygroundStep ==
  ASSUME RInv, NEW t \in Threads, LookupPlayground(t)
  PROVE  RInv'
<1>1. UNCHANGED tables /\ OthersKeep(t) /\ Locals'
  BY ResourcesAssumption
     DEF LookupPlayground, RInv, Locals, OthersKeep, tables, locals, Goto, Answer, Refuse,
         Trouble, NotWritable, Points, FailPlayground
<1>2. Carries(t)'
  BY Standing, Refusal, Reply, Move
     DEF LookupPlayground, tables, locals, FailPlayground, Carries, Points, Launching, Shared,
         Undoing, Before, NothingMade
<1> QED
  BY <1>1, <1>2, QuietStep

LEMMA LookupAgainStep ==
  ASSUME RInv, NEW t \in Threads, LookupAgain(t)
  PROVE  RInv'
<1>1. UNCHANGED tables /\ OthersKeep(t) /\ Locals'
  BY ResourcesAssumption
     DEF LookupAgain, RInv, Locals, OthersKeep, tables, locals, Goto, Answer, Refuse, Trouble,
         NotWritable, Points, FailPlayground
<1>2. Carries(t)'
  BY Standing, Refusal, Reply, Move
     DEF LookupAgain, tables, locals, FailPlayground, Carries, Points, Launching, Shared, Undoing,
         Before, NothingMade
<1> QED
  BY <1>1, <1>2, QuietStep

LEMMA DeployStep ==
  ASSUME RInv, NEW t \in Threads, Deploy(t)
  PROVE  RInv'
<1>1. UNCHANGED tables /\ OthersKeep(t) /\ Locals'
  BY ResourcesAssumption
     DEF Deploy, RInv, Locals, OthersKeep, tables, locals, Goto, Answer, Refuse, Trouble,
         NotWritable, Points
<1>2. Carries(t)'
  BY Standing, Reply
     DEF Deploy, tables, locals, Carries, Points, Launching, Shared, Undoing, Before, NothingMade
<1> QED
  BY <1>1, <1>2, QuietStep

LEMMA FindPlayspecStep ==
  ASSUME RInv, NEW t \in Threads, FindPlayspec(t)
  PROVE  RInv'
<1>1. UNCHANGED tables /\ OthersKeep(t) /\ Locals'
  BY ResourcesAssumption
     DEF FindPlayspec, RInv, Locals, OthersKeep, tables, locals, Goto, Answer, Refuse, Trouble,
         NotWritable, Points, Found
<1>2. Carries(t)'
  BY Standing, Refusal, Move
     DEF FindPlayspec, tables, locals, Found, Carries, Points, Launching, Shared, Undoing, Before,
         NothingMade
<1> QED
  BY <1>1, <1>2, QuietStep

LEMMA CountPlaygroundsStep ==
  ASSUME RInv, NEW t \in Threads, CountPlaygrounds(t)
  PROVE  RInv'
<1>1. UNCHANGED tables /\ OthersKeep(t) /\ Locals'
  BY ResourcesAssumption
     DEF CountPlaygrounds, RInv, Locals, OthersKeep, tables, locals, Goto, Answer, Refuse,
         Trouble, NotWritable, Points
<1>2. Carries(t)'
  BY Standing, Refusal, Move
     DEF CountPlaygrounds, tables, locals, Carries, Points, Launching, Shared, Undoing, Before,
         NothingMade
<1> QED
  BY <1>1, <1>2, QuietStep

LEMMA FindPropStep ==
  ASSUME RInv, NEW t \in Threads, FindProp(t)
  PROVE  RInv'
<1>1. UNCHANGED tables /\ OthersKeep(t) /\ Locals'
  BY ResourcesAssumption
     DEF FindProp, RInv, Locals, OthersKeep, tables, locals, Goto, Answer, Refuse, Trouble,
         NotWritable, Points, Found
<1>2. Carries(t)'
  BY Standing, Refusal, Reply, Move
     DEF FindProp, tables, locals, Found, Carries, Points, Launching, Shared, Undoing, Before,
         NothingMade
<1> QED
  BY <1>1, <1>2, QuietStep

LEMMA FetchMetadataStep ==
  ASSUME RInv, NEW t \in Threads, FetchMetadata(t)
  PROVE  RInv'
<1>1. UNCHANGED tables /\ OthersKeep(t) /\ Locals'
  BY ResourcesAssumption
     DEF FetchMetadata, RInv, Locals, OthersKeep, tables, locals, Goto, Answer, Refuse, Trouble,
         NotWritable, Points
<1>2. Carries(t)'
  BY Standing, Refusal, Move
     DEF FetchMetadata, tables, locals, Carries, Points, Launching, Shared, Undoing, Before,
         NothingMade
<1> QED
  BY <1>1, <1>2, QuietStep

LEMMA FindReferencesStep ==
  ASSUME RInv, NEW t \in Threads, FindReferences(t)
  PROVE  RInv'
<1>1. UNCHANGED tables /\ OthersKeep(t) /\ Locals'
  BY ResourcesAssumption
     DEF FindReferences, RInv, Locals, OthersKeep, tables, locals, Goto, Answer, Refuse, Trouble,
         NotWritable, Points
<1>2. Carries(t)'
  BY Standing, Refusal, Move
     DEF FindReferences, tables, locals, Carries, Points, Launching, Shared, Undoing, Before,
         NothingMade
<1> QED
  BY <1>1, <1>2, QuietStep

LEMMA ApplyPlayspecUpdateStep ==
  ASSUME RInv, NEW t \in Threads, ApplyPlayspecUpdate(t)
  PROVE  RInv'
<1>1. UNCHANGED tables /\ OthersKeep(t) /\ Locals'
  BY DEF ApplyPlayspecUpdate, RInv, Locals, OthersKeep, tables, Goto, Answer, Refuse, Points
<1>2. pc[t] # "idle" /\ NothingMade(t) /\ UNCHANGED <<tables, made, req>>
  BY Standing DEF ApplyPlayspecUpdate, tables, Carries, Points, Launching, Shared, Undoing, Before
<1>3. Refuse(t) \/ (Goto(t, "save_playspec") /\ Validate(ps'[t].row.doc))
  BY DEF ApplyPlayspecUpdate, RInv, Locals, Tables, Stored
<1>4. Carries(t)'
  BY <1>2, <1>3, Standing, Refusal, Move
     DEF Points, Launching, Shared, Undoing, Before, NothingMade
<1> QED
  BY <1>1, <1>4, QuietStep

LEMMA ApplyPropUpdateStep ==
  ASSUME RInv, NEW t \in Threads, ApplyPropUpdate(t)
  PROVE  RInv'
<1>1. UNCHANGED tables /\ OthersKeep(t) /\ Locals'
  BY ResourcesAssumption
     DEF ApplyPropUpdate, RInv, Locals, OthersKeep, tables, Goto, Answer, Refuse, Trouble,
         NotWritable, Points
<1>2. pc[t] # "idle" /\ NothingMade(t) /\ UNCHANGED <<tables, made, req>>
  BY Standing DEF ApplyPropUpdate, tables, Carries, Points, Launching, Shared, Undoing, Before
<1>3. \/ Refuse(t)
      \/ /\ Goto(t, "save_prop") /\ prop[t].id \in DOMAIN props
         /\ prop' = [prop EXCEPT ![t] = [id |-> prop[t].id, row |->
              [name |-> IF req[t].name # None THEN req[t].name ELSE props[prop[t].id].name,
               repo |-> IF req[t].repo # None THEN req[t].repo ELSE props[prop[t].id].repo,
               meta |-> IF req[t].repo # None
                             /\ ~SameRepository(req[t].repo, props[prop[t].id].repo)
                        THEN None ELSE props[prop[t].id].meta]]]
  BY DEF ApplyPropUpdate
<1>4. Goto(t, "save_prop") => Refuse(t) \/ About(prop'[t].row)
  BY <1>3 DEF RInv, Locals, Tables, About, SameRepository
<1>5. Carries(t)'
  BY <1>2, <1>3, <1>4, Standing, Refusal, Move
     DEF Points, Launching, Shared, Undoing, Before, NothingMade
<1> QED
  BY <1>1, <1>5, QuietStep

LEMMA MergeMetadataStep ==
  ASSUME RInv, NEW t \in Threads, MergeMetadata(t)
  PROVE  RInv'
<1>1. UNCHANGED tables /\ OthersKeep(t) /\ Locals'
  BY DEF MergeMetadata, RInv, Locals, OthersKeep, tables, Goto, Answer, Refuse, Points
<1>2. pc[t] # "idle" /\ NothingMade(t) /\ UNCHANGED <<tables, made, req>>
  BY Standing DEF MergeMetadata, tables, Carries, Points, Launching, Shared, Undoing, Before
<1>3. Refuse(t) \/ Answer(t, "unchanged") \/ (Goto(t, "save_prop") /\ About(prop'[t].row))
  BY DEF MergeMetadata, RInv, Locals, Tables, About, SameRepository, Synced
<1>4. Carries(t)'
  BY <1>2, <1>3, Standing, Refusal, Reply, Move
     DEF Points, Launching, Shared, Undoing, Before, NothingMade
<1> QED
  BY <1>1, <1>4, QuietStep
-----------------------------------------------------------------------------
(***************************************************************************)
(* The statements that write the tables.                                   *)
(***************************************************************************)
LEMMA RowInserted ==
  ASSUME NEW table, NEW next \in Nat \ {0}, NEW r,
         WellFormed(table, next), Named(table, r.name) = {}
  PROVE  /\ WellFormed(Having(table, next, r), next + 1)
         /\ DOMAIN Having(table, next, r) = DOMAIN table \cup {next}
         /\ \A i \in DOMAIN table : Having(table, next, r)[i] = table[i]
         /\ Having(table, next, r)[next] = r
  BY DEF WellFormed, Having, Named

LEMMA RowsRemoved ==
  ASSUME NEW table, NEW next \in Nat \ {0}, NEW out, WellFormed(table, next)
  PROVE  /\ WellFormed(Without(table, out), next)
         /\ DOMAIN Without(table, out) = DOMAIN table \ out
         /\ \A i \in DOMAIN table \ out : Without(table, out)[i] = table[i]
  BY DEF WellFormed, Without

LEMMA RowSaved ==
  ASSUME NEW table, NEW next \in Nat \ {0}, NEW row, NEW i,
         WellFormed(table, next), Savable(table, i, row)
  PROVE  /\ WellFormed([table EXCEPT ![i] = row], next)
         /\ DOMAIN [table EXCEPT ![i] = row] = DOMAIN table
         /\ \A j \in DOMAIN table :
              [table EXCEPT ![i] = row][j] = IF j = i THEN row ELSE table[j]
  BY DEF WellFormed, Savable, Named

LEMMA PlayspecInserted ==
  ASSUME RInv, NEW row, InsertPlayspec(row), Validate(row.doc), UNCHANGED <<props, playgrounds>>
  PROVE  Tables' /\ Grow
<1>1. /\ ids \in Ids /\ ids' = [ids EXCEPT !.playspec = @ + 1] /\ ids' \in Ids
      /\ ids.playspec \in Nat \ {0}
  BY DEF RInv, Tables, InsertPlayspec, Ids
<1>2. WellFormed(playspecs, ids.playspec) /\ Named(playspecs, row.name) = {}
  BY DEF RInv, Tables, InsertPlayspec
<1>3. playspecs' = Having(playspecs, ids.playspec, row)
  BY DEF InsertPlayspec
<1>4. /\ WellFormed(playspecs', ids.playspec + 1)
      /\ DOMAIN playspecs' = DOMAIN playspecs \cup {ids.playspec}
      /\ \A i \in DOMAIN playspecs : playspecs'[i] = playspecs[i]
      /\ playspecs'[ids.playspec] = row
  <2>1. ids.playspec \in Nat \ {0}
    BY <1>1
  <2>2. WellFormed(Having(playspecs, ids.playspec, row), ids.playspec + 1)
    BY <2>1, <1>2, RowInserted
  <2>3. DOMAIN Having(playspecs, ids.playspec, row) = DOMAIN playspecs \cup {ids.playspec}
    BY <2>1, <1>2, RowInserted
  <2>4. /\ \A i \in DOMAIN playspecs : Having(playspecs, ids.playspec, row)[i] = playspecs[i]
        /\ Having(playspecs, ids.playspec, row)[ids.playspec] = row
    BY <2>1, <1>2 DEF Having, WellFormed
  <2> QED
    BY <1>3, <2>2, <2>3, <2>4
<1>5. WellFormed(props', ids'.prop) /\ WellFormed(playgrounds', ids'.playground)
  BY <1>1 DEF RInv, Tables, WellFormed, Ids
<1> QED
  BY <1>1, <1>4, <1>5 DEF RInv, Tables, Grow, About, Ids

LEMMA PropInserted ==
  ASSUME RInv, NEW row, InsertProp(row), About(row), UNCHANGED <<playspecs, playgrounds>>
  PROVE  Tables' /\ Grow
<1>1. /\ ids \in Ids /\ ids' = [ids EXCEPT !.prop = @ + 1] /\ ids' \in Ids
      /\ ids.prop \in Nat \ {0}
  BY DEF RInv, Tables, InsertProp, Ids
<1>2. WellFormed(props, ids.prop) /\ Named(props, row.name) = {}
  BY DEF RInv, Tables, InsertProp
<1>3. props' = Having(props, ids.prop, row)
  BY DEF InsertProp
<1>4. /\ WellFormed(props', ids.prop + 1)
      /\ DOMAIN props' = DOMAIN props \cup {ids.prop}
      /\ \A i \in DOMAIN props : props'[i] = props[i]
      /\ props'[ids.prop] = row
  <2>1. ids.prop \in Nat \ {0}
    BY <1>1
  <2>2. WellFormed(Having(props, ids.prop, row), ids.prop + 1)
    BY <2>1, <1>2, RowInserted
  <2>3. DOMAIN Having(props, ids.prop, row) = DOMAIN props \cup {ids.prop}
    BY <2>1, <1>2, RowInserted
  <2>4. /\ \A i \in DOMAIN props : Having(props, ids.prop, row)[i] = props[i]
        /\ Having(props, ids.prop, row)[ids.prop] = row
    BY <2>1, <1>2 DEF Having, WellFormed
  <2> QED
    BY <1>3, <2>2, <2>3, <2>4
<1>5. WellFormed(playspecs', ids'.playspec) /\ WellFormed(playgrounds', ids'.playground)
  BY <1>1 DEF RInv, Tables, WellFormed, Ids
<1>6. \A i \in DOMAIN props' : About(props'[i])
  BY <1>4 DEF RInv, Tables, About
<1> QED
  BY <1>1, <1>4, <1>5, <1>6 DEF RInv, Tables, Grow, About, Ids

LEMMA PlayspecsDeleted ==
  ASSUME RInv, NEW gone, DeletePlayspecs(gone), UNCHANGED <<props, ids>>
  PROVE  Tables' /\ Grow /\ DOMAIN playspecs' = DOMAIN playspecs \ gone
<1>1. /\ ids \in Ids /\ ids.playspec \in Nat \ {0}
      /\ WellFormed(playspecs, ids.playspec) /\ playspecs' = Without(playspecs, gone)
  BY DEF RInv, Tables, Ids, DeletePlayspecs
<1>2. /\ WellFormed(playspecs', ids.playspec)
      /\ DOMAIN playspecs' = DOMAIN playspecs \ gone
      /\ \A i \in DOMAIN playspecs' : playspecs'[i] = playspecs[i]
  <2>1. WellFormed(Without(playspecs, gone), ids.playspec)
    BY <1>1, RowsRemoved
  <2>2. DOMAIN Without(playspecs, gone) = DOMAIN playspecs \ gone
    BY <1>1, RowsRemoved
  <2>3. \A i \in DOMAIN playspecs \ gone : Without(playspecs, gone)[i] = playspecs[i]
    BY <1>1, RowsRemoved
  <2> QED
    BY <1>1, <2>1, <2>2, <2>3
<1>3. DOMAIN playgrounds' = DOMAIN playgrounds
  BY DEF DeletePlayspecs
<1>4. \A g \in DOMAIN playgrounds :
        /\ DOMAIN playgrounds'[g] = DOMAIN playgrounds[g]
        /\ playgrounds'[g].name = playgrounds[g].name
        /\ playgrounds'[g].playspec
             = IF playgrounds[g].playspec \in gone THEN None ELSE playgrounds[g].playspec
  BY DEF RInv, Tables, DeletePlayspecs
<1>5. WellFormed(playgrounds', ids'.playground)
  BY <1>3, <1>4 DEF RInv, Tables, WellFormed
<1>6. \A g \in DOMAIN playgrounds' : playgrounds'[g].playspec \in DOMAIN playspecs' \cup {None}
  BY <1>2, <1>3, <1>4 DEF RInv, Tables
<1> QED
  BY <1>1, <1>2, <1>3, <1>4, <1>5, <1>6 DEF RInv, Tables, Grow, About, Ids

LEMMA PropsDeleted ==
  ASSUME RInv, NEW gone, props' = Without(props, gone), UNCHANGED <<playspecs, playgrounds, ids>>
  PROVE  Tables' /\ Grow /\ DOMAIN props' = DOMAIN props \ gone
<1>1. /\ ids \in Ids /\ ids.prop \in Nat \ {0}
      /\ WellFormed(props, ids.prop) /\ props' = Without(props, gone)
  BY DEF RInv, Tables, Ids, DeletePlayspecs
<1>2. /\ WellFormed(props', ids.prop)
      /\ DOMAIN props' = DOMAIN props \ gone
      /\ \A i \in DOMAIN props' : props'[i] = props[i]
  <2>1. WellFormed(Without(props, gone), ids.prop)
    BY <1>1, RowsRemoved
  <2>2. DOMAIN Without(props, gone) = DOMAIN props \ gone
    BY <1>1, RowsRemoved
  <2>3. \A i \in DOMAIN props \ gone : Without(props, gone)[i] = props[i]
    BY <1>1, RowsRemoved
  <2> QED
    BY <1>1, <2>1, <2>2, <2>3
<1>3. \A i \in DOMAIN props' : About(props'[i])
  BY <1>2 DEF RInv, Tables, About
<1> QED
  BY <1>1, <1>2, <1>3 DEF RInv, Tables, Grow, About, Ids

LEMMA NothingWritten ==
  ASSUME RInv, UNCHANGED tables
  PROVE  Tables' /\ Grow
  BY DEF RInv, Tables, tables, WellFormed, About, Grow, Ids

LEMMA CreatePlayspecStep ==
  ASSUME RInv, NEW t \in Threads, CreatePlayspec(t)
  PROVE  RInv'
<1>1. Tables' /\ Grow
  <2>1. CASE UNCHANGED tables
    BY <2>1, NothingWritten
  <2>2. CASE ~UNCHANGED tables
    <3>1. PICK d \in Stored(req[t].doc, req[t].metadata) :
            InsertPlayspec([name |-> req[t].name, doc |-> d])
      BY <2>2 DEF CreatePlayspec, tables
    <3>2. Validate([name |-> req[t].name, doc |-> d].doc)
      BY DEF Stored
    <3> QED
      BY <3>1, <3>2, PlayspecInserted DEF CreatePlayspec
  <2> QED
    BY <2>1, <2>2
<1>2. OthersKeep(t) /\ Locals'
  <2>1. \E a : Answer(t, a)
    BY DEF CreatePlayspec, Refuse
  <2>2. UNCHANGED <<locals, left>>
    BY DEF CreatePlayspec
  <2> QED
    BY <2>1, <2>2 DEF RInv, Locals, OthersKeep, locals, Answer, Points
<1>3. Carries(t)'
  <2>1. NothingMade(t) /\ ids' \in Ids /\ None \notin DOMAIN playspecs' /\ None \notin DOMAIN props'
    BY <1>1, Standing, ResourcesAssumption
       DEF CreatePlayspec, Carries, Points, Launching, Shared, Undoing, Before, Tables, Ids,
           WellFormed
  <2>2. pc'[t] = "idle" /\ made'[t] = made[t]
    BY Standing DEF CreatePlayspec, Answer, Refuse, locals
  <2> QED
    BY <2>1, <2>2 DEF Carries, NothingMade, Launching, Shared, Undoing, Before
<1> QED
  BY <1>1, <1>2, <1>3, ThreadStep

LEMMA CreatePropStep ==
  ASSUME RInv, NEW t \in Threads, CreateProp(t)
  PROVE  RInv'
<1>1. Tables' /\ Grow
  <2>1. CASE UNCHANGED tables
    BY <2>1, NothingWritten
  <2>2. CASE ~UNCHANGED tables
    <3> DEFINE row == [name |-> req[t].name, repo |-> req[t].repo, meta |-> None]
    <3>1. InsertProp(row)
      BY <2>2 DEF CreateProp, tables
    <3>2. About(row)
      BY DEF About
    <3> HIDE DEF row
    <3> QED
      BY <3>1, <3>2, PropInserted DEF CreateProp
  <2> QED
    BY <2>1, <2>2
<1>2. OthersKeep(t) /\ Locals'
  BY ResourcesAssumption
     DEF CreateProp, RInv, Locals, OthersKeep, locals, Goto, Answer, Refuse, Trouble, NotWritable,
         Points
<1>3. Carries(t)'
  <2>1. NothingMade(t) /\ ids' \in Ids /\ None \notin DOMAIN playspecs' /\ None \notin DOMAIN props'
    BY <1>1, Standing, ResourcesAssumption
       DEF CreateProp, Carries, Points, Launching, Shared, Undoing, Before, Tables, Ids, WellFormed
  <2>2. pc'[t] = "idle" /\ made'[t] = made[t]
    BY Standing DEF CreateProp, Answer, Refuse, locals
  <2> QED
    BY <2>1, <2>2 DEF Carries, NothingMade, Launching, Shared, Undoing, Before
<1> QED
  BY <1>1, <1>2, <1>3, ThreadStep

LEMMA SavePlayspecStep ==
  ASSUME RInv, NEW t \in Threads, SavePlayspec(t)
  PROVE  RInv'
<1>1. Tables' /\ Grow
  <2>1. CASE UNCHANGED tables
    BY <2>1, NothingWritten
  <2>2. CASE ~UNCHANGED tables
    <3>1. /\ Savable(playspecs, ps[t].id, ps[t].row)
          /\ playspecs' = [playspecs EXCEPT ![ps[t].id] = ps[t].row]
          /\ UNCHANGED <<props, playgrounds, ids>>
      BY <2>2 DEF SavePlayspec, tables
    <3>2. ids \in Ids /\ WellFormed(playspecs, ids.playspec) /\ Validate(ps[t].row.doc)
      BY Standing DEF RInv, Tables, SavePlayspec, Carries
    <3>3. /\ WellFormed(playspecs', ids.playspec)
          /\ DOMAIN playspecs' = DOMAIN playspecs
          /\ \A j \in DOMAIN playspecs :
               playspecs'[j] = IF j = ps[t].id THEN ps[t].row ELSE playspecs[j]
      BY <3>1, <3>2, RowSaved DEF Ids
    <3> QED
      BY <3>1, <3>2, <3>3 DEF RInv, Tables, Grow, About, Ids
  <2> QED
    BY <2>1, <2>2
<1>2. OthersKeep(t) /\ Locals'
  BY ResourcesAssumption
     DEF SavePlayspec, RInv, Locals, OthersKeep, locals, Goto, Answer, Refuse, Trouble, NotWritable,
         Points
<1>3. Carries(t)'
  <2>1. NothingMade(t) /\ ids' \in Ids /\ None \notin DOMAIN playspecs' /\ None \notin DOMAIN props'
    BY <1>1, Standing, ResourcesAssumption
       DEF SavePlayspec, Carries, Points, Launching, Shared, Undoing, Before, Tables, Ids,
           WellFormed
  <2>2. pc'[t] = "idle" /\ made'[t] = made[t]
    BY Standing DEF SavePlayspec, Answer, Refuse, locals
  <2> QED
    BY <2>1, <2>2 DEF Carries, NothingMade, Launching, Shared, Undoing, Before
<1> QED
  BY <1>1, <1>2, <1>3, ThreadStep

LEMMA SavePropStep ==
  ASSUME RInv, NEW t \in Threads, SaveProp(t)
  PROVE  RInv'
<1>1. Tables' /\ Grow
  <2>1. CASE UNCHANGED tables
    BY <2>1, NothingWritten
  <2>2. CASE ~UNCHANGED tables
    <3>1. /\ Savable(props, prop[t].id, prop[t].row)
          /\ props' = [props EXCEPT ![prop[t].id] = prop[t].row]
          /\ UNCHANGED <<playspecs, playgrounds, ids>>
      BY <2>2 DEF SaveProp, tables
    <3>2. ids \in Ids /\ WellFormed(props, ids.prop) /\ About(prop[t].row)
      BY Standing DEF RInv, Tables, SaveProp, Carries
    <3>3. /\ WellFormed(props', ids.prop)
          /\ DOMAIN props' = DOMAIN props
          /\ \A j \in DOMAIN props :
               props'[j] = IF j = prop[t].id THEN prop[t].row ELSE props[j]
      BY <3>1, <3>2, RowSaved DEF Ids
    <3>4. \A j \in DOMAIN props' : About(props'[j])
      BY <3>2, <3>3 DEF RInv, Tables, About
    <3> QED
      BY <3>1, <3>2, <3>3, <3>4 DEF RInv, Tables, Grow, About, Ids
  <2> QED
    BY <2>1, <2>2
<1>2. OthersKeep(t) /\ Locals'
  BY ResourcesAssumption
     DEF SaveProp, RInv, Locals, OthersKeep, locals, Goto, Answer, Refuse, Trouble, NotWritable,
         Points
<1>3. Carries(t)'
  <2>1. NothingMade(t) /\ ids' \in Ids /\ None \notin DOMAIN playspecs' /\ None \notin DOMAIN props'
    BY <1>1, Standing, ResourcesAssumption
       DEF SaveProp, Carries, Points, Launching, Shared, Undoing, Before, Tables, Ids, WellFormed
  <2>2. pc'[t] = "idle" /\ made'[t] = made[t]
    BY Standing DEF SaveProp, Answer, Refuse, locals
  <2> QED
    BY <2>1, <2>2 DEF Carries, NothingMade, Launching, Shared, Undoing, Before
<1> QED
  BY <1>1, <1>2, <1>3, ThreadStep

LEMMA DeletePlayspecStep ==
  ASSUME RInv, NEW t \in Threads, DeletePlayspec(t)
  PROVE  RInv'
<1>1. Tables' /\ Grow
  BY PlayspecsDeleted DEF DeletePlayspec
<1>2. OthersKeep(t) /\ Locals'
  BY ResourcesAssumption
     DEF DeletePlayspec, RInv, Locals, OthersKeep, locals, Goto, Answer, Refuse, Trouble,
         NotWritable,
         Points, DeletePlayspecs
<1>3. Carries(t)'
  <2>1. NothingMade(t) /\ ids' \in Ids /\ None \notin DOMAIN playspecs' /\ None \notin DOMAIN props'
    BY <1>1, Standing, ResourcesAssumption
       DEF DeletePlayspec, Carries, Points, Launching, Shared, Undoing, Before, Tables, Ids,
           WellFormed
  <2>2. pc'[t] = "idle" /\ made'[t] = made[t]
    BY Standing DEF DeletePlayspec, Answer, Refuse, locals
  <2> QED
    BY <2>1, <2>2 DEF Carries, NothingMade, Launching, Shared, Undoing, Before
<1> QED
  BY <1>1, <1>2, <1>3, ThreadStep

LEMMA DeletePropStep ==
  ASSUME RInv, NEW t \in Threads, DeleteProp(t)
  PROVE  RInv'
<1>1. Tables' /\ Grow
  BY PropsDeleted DEF DeleteProp
<1>2. OthersKeep(t) /\ Locals'
  BY ResourcesAssumption
     DEF DeleteProp, RInv, Locals, OthersKeep, locals, Goto, Answer, Refuse, Trouble, NotWritable,
         Points
<1>3. Carries(t)'
  <2>1. NothingMade(t) /\ ids' \in Ids /\ None \notin DOMAIN playspecs' /\ None \notin DOMAIN props'
    BY <1>1, Standing, ResourcesAssumption
       DEF DeleteProp, Carries, Points, Launching, Shared, Undoing, Before, Tables, Ids, WellFormed
  <2>2. pc'[t] = "idle" /\ made'[t] = made[t]
    BY Standing DEF DeleteProp, Answer, Refuse, locals
  <2> QED
    BY <2>1, <2>2 DEF Carries, NothingMade, Launching, Shared, Undoing, Before
<1> QED
  BY <1>1, <1>2, <1>3, ThreadStep

LEMMA DeletePlaygroundStep ==
  ASSUME RInv, NEW t \in Threads, DeletePlayground(t)
  PROVE  RInv'
<1>1. Tables' /\ Grow
  <2> DEFINE gone == Named(playgrounds, req[t].of)
  <2>1. ids \in Ids /\ WellFormed(playgrounds, ids.playground)
    BY DEF RInv, Tables
  <2>2. playgrounds' = Without(playgrounds, gone) /\ UNCHANGED <<playspecs, props, ids>>
    BY DEF DeletePlayground
  <2> HIDE DEF gone
  <2>3. /\ WellFormed(playgrounds', ids.playground)
        /\ DOMAIN playgrounds' = DOMAIN playgrounds \ gone
        /\ \A g \in DOMAIN playgrounds' : playgrounds'[g] = playgrounds[g]
    BY <2>1, <2>2, RowsRemoved DEF Ids
  <2> QED
    BY <2>1, <2>2, <2>3 DEF RInv, Tables, Grow, About, Ids
<1>2. OthersKeep(t) /\ Locals'
  BY ResourcesAssumption
     DEF DeletePlayground, RInv, Locals, OthersKeep, locals, Goto, Answer, Refuse, Trouble,
         NotWritable,
         Points
<1>3. Carries(t)'
  <2>1. NothingMade(t) /\ ids' \in Ids /\ None \notin DOMAIN playspecs' /\ None \notin DOMAIN props'
    BY <1>1, Standing, ResourcesAssumption
       DEF DeletePlayground, Carries, Points, Launching, Shared, Undoing, Before, Tables, Ids,
           WellFormed
  <2>2. pc'[t] = "idle" /\ made'[t] = made[t]
    BY Standing DEF DeletePlayground, Answer, Refuse, locals
  <2> QED
    BY <2>1, <2>2 DEF Carries, NothingMade, Launching, Shared, Undoing, Before
<1> QED
  BY <1>1, <1>2, <1>3, ThreadStep
LEMMA ReceiveStep ==
  ASSUME RInv, NEW t \in Threads, Receive(t)
  PROVE  RInv'
<1> DEFINE nothing == [playspec |-> None, prop |-> None, playground |-> None]
<1>1. PICK q \in Requests : /\ req' = [req EXCEPT ![t] = q]
                            /\ pc' = [pc EXCEPT ![t] = FirstPoint(q.kind)]
  BY DEF Receive
<1>2. FirstPoint(q.kind) \in Points /\ (FirstPoint(q.kind) \in Launching => q.kind = "launch")
  BY ResourcesAssumption DEF FirstPoint, Points, Launching
<1>3. FirstPoint(q.kind) \notin Shared \cup Undoing
                                 \cup {"create_prop", "replay_prop", "save_prop", "save_playspec"}
  BY ResourcesAssumption DEF FirstPoint, Shared, Undoing
<1>4. OthersKeep(t) /\ Locals' /\ nothing \in Made
  BY <1>1, <1>2, ResourcesAssumption DEF Receive, RInv, Locals, OthersKeep, Made
<1>5. made'[t] = nothing /\ answer'[t] = None /\ UNCHANGED tables
  BY Standing DEF Receive, RInv, Locals
<1>6. Carries(t)'
  BY <1>1, <1>2, <1>3, <1>5, Standing, ResourcesAssumption
     DEF RInv, Locals, Carries, NothingMade, Shared, Undoing
<1> QED
  BY <1>4, <1>5, <1>6, QuietStep

LEMMA CreateLaunchPlayspecStep ==
  ASSUME RInv, NEW t \in Threads, CreateLaunchPlayspec(t)
  PROVE  RInv'
<1> DEFINE row == [name |-> req[t].name, doc |-> doc[t]]
<1>1. /\ pc[t] = "create_playspec" /\ req[t].kind = "launch" /\ NothingMade(t)
      /\ UNCHANGED <<props, playgrounds, req, prop>>
  BY Standing DEF CreateLaunchPlayspec, Carries, Launching, Before, Points, Shared, Undoing
<1>2. CASE UNCHANGED <<tables, made, ps>>
  <2>1. OthersKeep(t) /\ Locals'
    BY <1>2, ResourcesAssumption
       DEF CreateLaunchPlayspec, RInv, Locals, OthersKeep, Continue, Goto, Answer, Refuse, Trouble,
           AfterPlayspec, Points
  <2>2. Refuse(t) \/ Goto(t, "replay_playspec")
    BY <1>2 DEF CreateLaunchPlayspec, InsertPlayspec, tables, RInv, Tables, Ids
  <2>3. Carries(t)'
    BY <1>1, <1>2, <2>2, Refusal, Move
       DEF tables, Points, Launching, Shared, Undoing, Before, NothingMade
  <2> QED
    BY <1>2, <2>1, <2>3, QuietStep DEF tables
<1>3. CASE ~UNCHANGED <<tables, made, ps>>
  <2>1. /\ Validate(row.doc) /\ InsertPlayspec(row)
        /\ ps' = [ps EXCEPT ![t] = [id |-> ids.playspec, row |-> row]]
        /\ made' = [made EXCEPT ![t] = [@ EXCEPT !.playspec = ids.playspec]]
        /\ Continue(t, AfterPlayspec(req[t])) /\ UNCHANGED left
    BY <1>3 DEF CreateLaunchPlayspec, tables
  <2>2. Tables' /\ Grow
    <3> HIDE DEF row
    <3> QED
      BY <1>1, <2>1, PlayspecInserted
  <2>3. ids \in Ids /\ ids' \in Ids /\ ids'.playspec = ids.playspec + 1 /\ ids'.prop = ids.prop
    BY <2>1, <2>2 DEF RInv, Tables, InsertPlayspec, Ids
  <2>4. /\ made[t] \in Made /\ made'[t] = [made[t] EXCEPT !.playspec = ids.playspec]
        /\ made' \in [Threads -> Made]
    BY <2>1, <2>3 DEF RInv, Locals, Made, Ids
  <2>5. OthersKeep(t) /\ Locals'
    BY <1>1, <2>1, <2>4
       DEF RInv, Locals, OthersKeep, Continue, Goto, Answer, AfterPlayspec, Points
  <2>6. /\ pc'[t] \in {"create_prop", "load", "idle"} /\ answer'[t] # "refused"
        /\ req'[t].kind = "launch"
    BY <1>1, <2>1, Standing DEF Continue, Goto, Answer, AfterPlayspec, RInv, Locals
  <2>7. Carries(t)'
    BY <1>1, <2>3, <2>4, <2>6, ResourcesAssumption
       DEF Carries, Launching, Shared, Undoing, Before, NothingMade, Made, Ids
  <2> QED
    BY <2>2, <2>5, <2>7, ThreadStep
<1> QED
  BY <1>2, <1>3

LEMMA CreateLaunchPropStep ==
  ASSUME RInv, NEW t \in Threads, CreateLaunchProp(t)
  PROVE  RInv'
<1> DEFINE row == [name |-> req[t].name, repo |-> req[t].repo, meta |-> None]
<1>1. /\ pc[t] = "create_prop" /\ req[t].kind = "launch" /\ made[t].playground = None
      /\ UNCHANGED <<playspecs, playgrounds, req, prop, ps>>
  BY Standing DEF CreateLaunchProp, Carries, Launching
<1>2. CASE UNCHANGED <<tables, made>>
  <2>1. OthersKeep(t) /\ Locals'
    BY <1>2, ResourcesAssumption
       DEF CreateLaunchProp, RInv, Locals, OthersKeep, Continue, Goto, Answer, Trouble,
           AfterProp, Points
  <2>2. Goto(t, "cleanup") \/ Goto(t, "replay_prop")
    BY <1>2 DEF CreateLaunchProp, InsertProp, tables, RInv, Tables, Ids
  <2>3. Carries(t)'
    BY <1>1, <1>2, <2>2, Move DEF tables, Points, Launching, Shared, Undoing, Before
  <2> QED
    BY <1>2, <2>1, <2>3, QuietStep
<1>3. CASE ~UNCHANGED <<tables, made>>
  <2>1. /\ InsertProp(row)
        /\ made' = [made EXCEPT ![t] = [@ EXCEPT !.prop = ids.prop]]
        /\ Continue(t, AfterProp(req[t])) /\ UNCHANGED left
    BY <1>3 DEF CreateLaunchProp, tables
  <2>2. Tables' /\ Grow
    <3>1. About(row)
      BY DEF About
    <3> HIDE DEF row
    <3> QED
      BY <1>1, <2>1, <3>1, PropInserted
  <2>3. ids \in Ids /\ ids' \in Ids /\ ids'.prop = ids.prop + 1 /\ ids'.playspec = ids.playspec
    BY <2>1, <2>2 DEF RInv, Tables, InsertProp, Ids
  <2>4. /\ made[t] \in Made /\ made'[t] = [made[t] EXCEPT !.prop = ids.prop]
        /\ made' \in [Threads -> Made]
    BY <2>1, <2>3 DEF RInv, Locals, Made, Ids
  <2>5. OthersKeep(t) /\ Locals'
    BY <1>1, <2>1, <2>4 DEF RInv, Locals, OthersKeep, Continue, Goto, Answer, AfterProp, Points
  <2>6. /\ pc'[t] \in {"load", "idle"} /\ answer'[t] # "refused"
        /\ req'[t].kind = "launch" /\ Carries(t)
    BY <1>1, <2>1, Standing DEF Continue, Goto, Answer, AfterProp, RInv, Locals
  <2>7. Carries(t)'
    BY <1>1, <2>3, <2>4, <2>6, ResourcesAssumption
       DEF Carries, Launching, Shared, Undoing, Before, Made, Ids
  <2> QED
    BY <2>2, <2>5, <2>7, ThreadStep
<1> QED
  BY <1>2, <1>3

LEMMA InsertPlaygroundStep ==
  ASSUME RInv, NEW t \in Threads, InsertPlayground(t)
  PROVE  RInv'
<1> DEFINE row == PlaygroundRow(t)
<1>1. /\ pc[t] = "insert" /\ made[t].playground = None
      /\ req[t].kind # "launch" => NothingMade(t)
      /\ UNCHANGED <<playspecs, props, req, ps, prop>>
  BY Standing DEF InsertPlayground, Carries, Shared
<1>2. CASE UNCHANGED <<tables, made>>
  <2>1. OthersKeep(t) /\ Locals'
    BY <1>2, ResourcesAssumption
       DEF InsertPlayground, RInv, Locals, OthersKeep, FailPlayground, Goto, Answer, Refuse,
           Trouble, Points
  <2>2. Goto(t, "again") \/ FailPlayground(t)
    BY <1>2 DEF InsertPlayground, tables, RInv, Tables, Ids
  <2>3. Carries(t)'
    BY <1>1, <1>2, <2>2, Refusal, Move
       DEF FailPlayground, tables, Points, Launching, Shared, Undoing, Before
  <2> QED
    BY <1>2, <2>1, <2>3, QuietStep
<1>3. CASE ~UNCHANGED <<tables, made>>
  <2>1. /\ Named(playgrounds, req[t].name) = {} /\ ps[t].id \in DOMAIN playspecs
        /\ playgrounds' = Having(playgrounds, ids.playground, row)
        /\ ids' = [ids EXCEPT !.playground = @ + 1]
        /\ made' = [made EXCEPT ![t] = [@ EXCEPT !.playground = ids.playground]]
        /\ Goto(t, "deploy") /\ UNCHANGED left
    BY <1>3 DEF InsertPlayground, tables
  <2>2. /\ ids \in Ids /\ ids' \in Ids /\ ids.playground \in Nat \ {0}
        /\ ids'.playground = ids.playground + 1
        /\ ids'.playspec = ids.playspec /\ ids'.prop = ids.prop
    BY <2>1 DEF RInv, Tables, Ids
  <2>3. /\ row.name = req[t].name /\ row.playspec = ps[t].id
        /\ {"name", "playspec"} \subseteq DOMAIN row
    BY DEF PlaygroundRow
  <2>4. Tables' /\ Grow
    <3> HIDE DEF row
    <3>1. WellFormed(playgrounds, ids.playground) /\ Named(playgrounds, row.name) = {}
      BY <2>1, <2>3 DEF RInv, Tables
    <3>2. WellFormed(Having(playgrounds, ids.playground, row), ids.playground + 1)
      BY <2>2, <3>1, RowInserted
    <3>3. /\ DOMAIN playgrounds' = DOMAIN playgrounds \cup {ids.playground}
          /\ \A g \in DOMAIN playgrounds' :
               playgrounds'[g] = IF g = ids.playground THEN row ELSE playgrounds[g]
      BY <2>1 DEF Having
    <3> QED
      BY <1>1, <2>1, <2>2, <2>3, <3>2, <3>3 DEF RInv, Tables, Grow, About, WellFormed, Ids
  <2>5. /\ made[t] \in Made /\ made'[t] = [made[t] EXCEPT !.playground = ids.playground]
        /\ made' \in [Threads -> Made]
    BY <2>1, <2>2 DEF RInv, Locals, Made, Ids
  <2>6. OthersKeep(t) /\ Locals'
    BY <1>1, <2>1, <2>5 DEF RInv, Locals, OthersKeep, Goto, Points
  <2>7. pc'[t] = "deploy" /\ answer'[t] # "refused" /\ Carries(t)
    BY <1>1, <2>1, Standing DEF Goto, RInv, Locals
  <2>8. Carries(t)'
    BY <1>1, <2>2, <2>5, <2>7
       DEF Carries, Launching, Shared, Undoing, Before, Made, Ids
  <2> QED
    BY <2>4, <2>6, <2>8, ThreadStep
<1> QED
  BY <1>2, <1>3

LEMMA CleanupLaunchPlayspecStep ==
  ASSUME RInv, NEW t \in Threads, CleanupLaunchPlayspec(t)
  PROVE  RInv'
<1>1. /\ pc[t] = "cleanup" /\ made[t].playground = None /\ UNCHANGED <<props, ids, locals>>
  BY Standing DEF CleanupLaunchPlayspec, Carries, Undoing
<1>2. OthersKeep(t) /\ Locals'
  <2>1. left' \in [requests : 0 .. MaxRequests, troubles : 0 .. MaxTroubles]
    <3>1. UNCHANGED left \/ Trouble
      BY DEF CleanupLaunchPlayspec
    <3> QED
      BY <3>1, ResourcesAssumption DEF RInv, Locals, Trouble
  <2>2. /\ \E point \in Points : pc' = [pc EXCEPT ![t] = point]
        /\ answer' = answer \/ \E a : answer' = [answer EXCEPT ![t] = a]
    BY DEF CleanupLaunchPlayspec, Goto, Answer, Points
  <2>3. UNCHANGED <<req, ps, prop, made>>
    BY <1>1 DEF locals
  <2>4. pc' \in [Threads -> Points] /\ DOMAIN answer' = Threads
    BY <2>2 DEF RInv, Locals
  <2>5. Locals'
    BY <2>1, <2>3, <2>4 DEF RInv, Locals
  <2> QED
    BY <2>2, <2>3, <2>5 DEF RInv, Locals, OthersKeep
<1>3. CASE DeletePlayspecs({made[t].playspec}) /\ Goto(t, "cleanup_props")
  <2>1. Tables' /\ Grow /\ DOMAIN playspecs' = DOMAIN playspecs \ {made[t].playspec}
    BY <1>1, <1>3, PlayspecsDeleted
  <2>2. pc'[t] = "cleanup_props" /\ answer'[t] # "refused" /\ made'[t] = made[t]
    BY <1>1, <1>3, Standing DEF Goto, locals
  <2>3. Carries(t) /\ ids' = ids
    BY <1>1, Standing
  <2>4. made[t].playspec \notin DOMAIN playspecs'
    BY <2>1
  <2>5. Carries(t)'
    BY <1>1, <2>2, <2>3, <2>4 DEF Carries, Launching, Shared, Undoing, Before, locals
  <2> QED
    BY <1>2, <2>1, <2>5, ThreadStep
<1>4. CASE Answer(t, "left behind") /\ UNCHANGED <<playspecs, playgrounds>>
  BY <1>1, <1>2, <1>4, Reply, QuietStep DEF tables, locals
<1> QED
  BY <1>3, <1>4 DEF CleanupLaunchPlayspec

LEMMA CleanupLaunchPropsStep ==
  ASSUME RInv, NEW t \in Threads, CleanupLaunchProps(t)
  PROVE  RInv'
<1>1. /\ pc[t] = "cleanup_props" /\ made[t].playground = None
      /\ made[t].playspec \notin DOMAIN playspecs
      /\ UNCHANGED <<playspecs, playgrounds, ids, locals>>
  BY Standing DEF CleanupLaunchProps, Carries, Undoing
<1>2. OthersKeep(t) /\ Locals'
  <2>1. left' \in [requests : 0 .. MaxRequests, troubles : 0 .. MaxTroubles]
    <3>1. UNCHANGED left \/ Trouble
      BY DEF CleanupLaunchProps
    <3> QED
      BY <3>1, ResourcesAssumption DEF RInv, Locals, Trouble
  <2>2. /\ \E point \in Points : pc' = [pc EXCEPT ![t] = point]
        /\ answer' = answer \/ \E a : answer' = [answer EXCEPT ![t] = a]
    BY DEF CleanupLaunchProps, Answer, Refuse, Points
  <2>3. UNCHANGED <<req, ps, prop, made>>
    BY <1>1 DEF locals
  <2>4. pc' \in [Threads -> Points] /\ DOMAIN answer' = Threads
    BY <2>2 DEF RInv, Locals
  <2>5. Locals'
    BY <2>1, <2>3, <2>4 DEF RInv, Locals
  <2> QED
    BY <2>2, <2>3, <2>5 DEF RInv, Locals, OthersKeep
<1>3. CASE props' = Without(props, {made[t].prop}) /\ Refuse(t)
  <2>1. Tables' /\ Grow /\ DOMAIN props' = DOMAIN props \ {made[t].prop}
    BY <1>1, <1>3, PropsDeleted
  <2>2. pc'[t] = "idle" /\ made'[t] = made[t] /\ Carries(t)
    BY <1>1, <1>3, Standing DEF Refuse, Answer, locals
  <2>3. Carries(t)'
    BY <1>1, <2>1, <2>2 DEF Carries, Launching, Shared, Undoing, Before
  <2> QED
    BY <1>2, <2>1, <2>3, ThreadStep
<1>4. CASE Answer(t, "left behind") /\ UNCHANGED props
  BY <1>1, <1>2, <1>4, Reply, QuietStep DEF tables, locals
<1> QED
  BY <1>3, <1>4 DEF CleanupLaunchProps

-----------------------------------------------------------------------------
LEMMA NextRInv ==
  ASSUME RInv, [Next]_vars
  PROVE  RInv'
<1>1. CASE UNCHANGED vars
  <2>1. Tables'
    BY <1>1, NothingWritten DEF vars, tables
  <2> QED
    BY <1>1, <2>1 DEF RInv, Locals, Carries, NothingMade, About, vars, tables, locals
<1>2. ASSUME NEW t \in Threads, Receive(t) PROVE RInv'
  BY <1>2, ReceiveStep
<1>3. ASSUME NEW t \in Threads, Launch(t) PROVE RInv'
  BY <1>3, PrepareLaunchStep, CreateLaunchPlayspecStep, ReplayLaunchPlayspecStep,
     CreateLaunchPropStep, ReplayLaunchPropStep, CleanupLaunchPlayspecStep,
     CleanupLaunchPropsStep
     DEF Launch
<1>4. ASSUME NEW t \in Threads, PlaygroundStep(t) PROVE RInv'
  BY <1>4, ResolvePlayspecStep, LoadPlayspecStep, LookupPlaygroundStep, InsertPlaygroundStep,
     LookupAgainStep, DeployStep, DeletePlaygroundStep
     DEF PlaygroundStep
<1>5. ASSUME NEW t \in Threads, PlayspecStep(t) PROVE RInv'
  BY <1>5, CreatePlayspecStep, FindPlayspecStep, ApplyPlayspecUpdateStep, SavePlayspecStep,
     CountPlaygroundsStep, DeletePlayspecStep
     DEF PlayspecStep
<1>6. ASSUME NEW t \in Threads, PropStep(t) PROVE RInv'
  BY <1>6, CreatePropStep, FindPropStep, ApplyPropUpdateStep, FetchMetadataStep,
     MergeMetadataStep, SavePropStep, FindReferencesStep, DeletePropStep
     DEF PropStep
<1> QED
  BY <1>1, <1>2, <1>3, <1>4, <1>5, <1>6 DEF Next

(***************************************************************************)
(* The invariant holds of every behaviour of the request handlers.         *)
(***************************************************************************)
THEOREM RInvAlways == Spec => []RInv
  BY InitRInv, NextRInv, PTL DEF Spec

(***************************************************************************)
(* The handlers keep the tables' constraints: ids are never given out      *)
(* again, names stay unique, a Playground's Playspec is there or none, and *)
(* every stored document is one Validate accepts.                          *)
(***************************************************************************)
THEOREM TablesKeepTheirConstraints == Spec => []TypeOK
<1>1. RInv => TypeOK
  BY DEF RInv, Tables, Locals, TypeOK
<1> QED
  BY <1>1, RInvAlways, PTL

(***************************************************************************)
(* However PATCH and sync of a Prop interleave, the metadata GitHub gave   *)
(* for one repository is never saved under another.                        *)
(***************************************************************************)
THEOREM SyncedColumnsAreTrue == Spec => []MetadataMatchesRepository
<1>1. RInv => MetadataMatchesRepository
  BY DEF RInv, Tables, About, MetadataMatchesRepository
<1> QED
  BY <1>1, RInvAlways, PTL

(***************************************************************************)
(* A launch answers with a refusal only after its rows are gone, whatever  *)
(* other requests did to them, and whatever failed before the cleanup.     *)
(***************************************************************************)
THEOREM RefusedLaunchIsUndone == Spec => []FailedLaunchLeavesNothing
<1>1. RInv => FailedLaunchLeavesNothing
  BY DEF RInv, Carries, FailedLaunchLeavesNothing
<1> QED
  BY <1>1, RInvAlways, PTL

-----------------------------------------------------------------------------
LabelText(labels, k) == IF k \in DOMAIN labels THEN labels[k].text ELSE ""

ExposureOf(o) == IF "exposure" \in DOMAIN o THEN o.exposure ELSE Empty

Given(o, k, flat, text) ==
  IF k \in DOMAIN ExposureOf(o) THEN ExposureOf(o)[k].text
  ELSE IF flat \in DOMAIN o THEN o[flat].text ELSE text

LEMMA UpdatedAt ==
  ASSUME NEW old, NEW new
  PROVE  /\ DOMAIN Updated(old, new) = DOMAIN old \cup DOMAIN new
         /\ \A k \in DOMAIN new : Updated(old, new)[k] = new[k]
         /\ \A k \in DOMAIN old \ DOMAIN new : Updated(old, new)[k] = old[k]
BY DEF Updated

(***************************************************************************)
(* The labels out are the given ones with the fields mapped into them.     *)
(***************************************************************************)
Carried(out, labels, fields, mapping) ==
  LET given == DOMAIN fields \cap DOMAIN mapping
  IN  /\ DOMAIN out = DOMAIN labels \cup {mapping[f] : f \in given}
      /\ \A f \in given : out[mapping[f]] = [fields[f] EXCEPT !.kind = "string"]
      /\ \A l \in DOMAIN labels : (\A f \in given : mapping[f] # l) => out[l] = labels[l]

LEMMA MappedAt ==
  ASSUME NEW labels, NEW fields, NEW mapping,
         \A f, g \in DOMAIN mapping : mapping[f] = mapping[g] => f = g
  PROVE  Carried(Mapped(labels, fields, mapping), labels, fields, mapping)
<1> DEFINE given == DOMAIN fields \cap DOMAIN mapping
           new == [l \in {mapping[f] : f \in given} |->
                     [fields[CHOOSE f \in given : mapping[f] = l] EXCEPT !.kind = "string"]]
<1>1. Mapped(labels, fields, mapping) = Updated(labels, new)
  BY DEF Mapped
<1>2. ASSUME NEW f \in given PROVE (CHOOSE g \in given : mapping[g] = mapping[f]) = f
  BY <1>2
<1>3. \A f \in given : new[mapping[f]] = [fields[f] EXCEPT !.kind = "string"]
  BY <1>2
<1>4. DOMAIN new = {mapping[f] : f \in given}
  OBVIOUS
<1> HIDE DEF new
<1>5. /\ DOMAIN Mapped(labels, fields, mapping) = DOMAIN labels \cup DOMAIN new
      /\ \A l \in DOMAIN new : Mapped(labels, fields, mapping)[l] = new[l]
      /\ \A l \in DOMAIN labels \ DOMAIN new : Mapped(labels, fields, mapping)[l] = labels[l]
  BY <1>1 DEF Updated
<1>6. \A f \in given : Mapped(labels, fields, mapping)[mapping[f]] = [fields[f] EXCEPT !.kind = "string"]
  BY <1>3, <1>4, <1>5
<1>7. ASSUME NEW l \in DOMAIN labels, \A f \in given : mapping[f] # l
      PROVE  Mapped(labels, fields, mapping)[l] = labels[l]
  BY <1>4, <1>5, <1>7
<1> QED
  BY <1>4, <1>5, <1>6, <1>7 DEF Carried

LEMMA DirectAt ==
  ASSUME NEW labels, NEW o, NEW out, out = Mapped(labels, o, DirectLabels),
         PlainLabels(labels), PlainOverride(o)
  PROVE  /\ PlainLabels(out)
         /\ "basicauth.users" \in DOMAIN out <=> "basicauth.users" \in DOMAIN labels
         /\ LabelText(out, "port") = IF "exposure_port" \in DOMAIN o THEN o.exposure_port.text
                                     ELSE LabelText(labels, "port")
         /\ LabelText(out, "subdomain") = IF "subdomain" \in DOMAIN o THEN o.subdomain.text
                                          ELSE LabelText(labels, "subdomain")
         /\ LabelText(out, "visibility") =
              IF "exposure_visibility" \in DOMAIN o THEN o.exposure_visibility.text
              ELSE LabelText(labels, "visibility")
<1> DEFINE given == DOMAIN o \cap DOMAIN DirectLabels
<1>1. /\ DOMAIN DirectLabels = {"subdomain", "exposure_visibility", "path_rule", "exposure_port"}
      /\ DirectLabels["subdomain"] = "subdomain" /\ DirectLabels["exposure_visibility"] = "visibility"
      /\ DirectLabels["path_rule"] = "path_rule" /\ DirectLabels["exposure_port"] = "port"
  BY DEF DirectLabels
<1>2. /\ DOMAIN out = DOMAIN labels \cup {DirectLabels[f] : f \in given}
      /\ \A f \in given : out[DirectLabels[f]] = [o[f] EXCEPT !.kind = "string"]
      /\ \A l \in DOMAIN labels : (\A f \in given : DirectLabels[f] # l) => out[l] = labels[l]
  <2>1. \A f, g \in DOMAIN DirectLabels : DirectLabels[f] = DirectLabels[g] => f = g
    BY <1>1
  <2>2. Carried(out, labels, o, DirectLabels)
    BY <2>1, MappedAt
  <2> QED
    BY <2>2 DEF Carried
<1>3. ASSUME NEW f \in {"subdomain", "exposure_visibility", "exposure_port"}, f \in DOMAIN o
      PROVE  /\ DirectLabels[f] \in DOMAIN out
             /\ out[DirectLabels[f]].text = o[f].text /\ IsPlain(out[DirectLabels[f]])
  <2>1. f \in given /\ IsPlain(o[f])
    BY <1>1, <1>3 DEF PlainOverride
  <2>2. out[DirectLabels[f]] = [o[f] EXCEPT !.kind = "string"] /\ DirectLabels[f] \in DOMAIN out
    BY <2>1, <1>2
  <2> QED
    BY <2>1, <2>2 DEF IsPlain, IsScalar
<1>4. ASSUME NEW f \in {"subdomain", "exposure_visibility", "exposure_port"}, f \notin DOMAIN o
      PROVE  /\ DirectLabels[f] \in DOMAIN out <=> DirectLabels[f] \in DOMAIN labels
             /\ DirectLabels[f] \in DOMAIN labels => out[DirectLabels[f]] = labels[DirectLabels[f]]
  <2>1. \A g \in given : DirectLabels[g] # DirectLabels[f]
    BY <1>1, <1>4
  <2> QED
    BY <2>1, <1>2
<1>5. PlainLabels(out)
  <2> SUFFICES ASSUME NEW k \in DOMAIN out \cap Routing PROVE IsPlain(out[k])
    BY DEF PlainLabels
  <2>1. PICK f \in {"subdomain", "exposure_visibility", "exposure_port"} : DirectLabels[f] = k
    BY <1>1 DEF Routing
  <2>2. CASE f \in DOMAIN o
    BY <2>1, <2>2, <1>3
  <2>3. CASE f \notin DOMAIN o
    BY <2>1, <2>3, <1>4 DEF PlainLabels
  <2> QED
    BY <2>2, <2>3
<1>6. "basicauth.users" \in DOMAIN out <=> "basicauth.users" \in DOMAIN labels
  BY <1>1, <1>2
<1>7. ASSUME NEW f \in {"subdomain", "exposure_visibility", "exposure_port"}
      PROVE  LabelText(out, DirectLabels[f]) =
               IF f \in DOMAIN o THEN o[f].text ELSE LabelText(labels, DirectLabels[f])
  BY <1>3, <1>4 DEF LabelText
<1> QED
  BY <1>1, <1>5, <1>6, <1>7

(***************************************************************************)
(* An exposure that is not switched off, on labels that may get a port.    *)
(***************************************************************************)
NeedsPort(labels, e) ==
  /\ "enabled" \in DOMAIN e /\ "port" \notin DOMAIN e
  /\ ~("port" \in DOMAIN labels /\ IsPort(labels["port"]))

LEMMA ExposureAt ==
  ASSUME NEW labels, NEW e, NEW out, out = ExposureOverridden(labels, e),
         PlainLabels(labels), ~Disabled(e),
         \A k \in DOMAIN e \cap Routing : IsPlain(e[k])
  PROVE  /\ PlainLabels(out)
         /\ "basicauth.users" \in DOMAIN out <=> "basicauth.users" \in DOMAIN labels
         /\ LabelText(out, "port") = IF "port" \in DOMAIN e THEN e.port.text
                                     ELSE IF NeedsPort(labels, e) THEN "80"
                                     ELSE LabelText(labels, "port")
         /\ \A k \in {"subdomain", "visibility"} :
              LabelText(out, k) = IF k \in DOMAIN e THEN e[k].text ELSE LabelText(labels, k)
<1> DEFINE base == IF NeedsPort(labels, e) THEN Updated(labels, Entry("port", Text("80"))) ELSE labels
           given == DOMAIN e \cap DOMAIN ExposureLabels
<1>0. out = Mapped(base, e, ExposureLabels)
  BY DEF ExposureOverridden, NeedsPort
<1>1. /\ DOMAIN ExposureLabels = {"port", "subdomain", "visibility", "path_rule"}
      /\ \A f \in DOMAIN ExposureLabels : ExposureLabels[f] = f
  BY DEF ExposureLabels
<1>2. Carried(out, base, e, ExposureLabels)
  BY <1>0, <1>1, MappedAt
<1>3. /\ PlainLabels(base)
      /\ "basicauth.users" \in DOMAIN base <=> "basicauth.users" \in DOMAIN labels
      /\ LabelText(base, "port") = IF NeedsPort(labels, e) THEN "80" ELSE LabelText(labels, "port")
      /\ \A k \in {"subdomain", "visibility"} : LabelText(base, k) = LabelText(labels, k)
  BY DEF PlainLabels, Updated, Entry, Text, IsPlain, IsScalar, LabelText
<1> HIDE DEF base
<1>4. /\ DOMAIN out = DOMAIN base \cup given
      /\ \A f \in given : out[f] = [e[f] EXCEPT !.kind = "string"]
      /\ \A l \in DOMAIN base : l \notin given => out[l] = base[l]
  BY <1>1, <1>2 DEF Carried
<1>5. Routing \subseteq DOMAIN ExposureLabels
  BY <1>1 DEF Routing
<1>6. ASSUME NEW f \in Routing, f \in DOMAIN e
      PROVE  f \in DOMAIN out /\ out[f].text = e[f].text /\ IsPlain(out[f])
  <2>1. f \in given /\ IsPlain(e[f])
    BY <1>5, <1>6
  <2> QED
    BY <2>1, <1>4 DEF IsPlain, IsScalar
<1>7. ASSUME NEW f \in Routing, f \notin DOMAIN e
      PROVE  /\ f \in DOMAIN out <=> f \in DOMAIN base
             /\ f \in DOMAIN base => out[f] = base[f]
  BY <1>4, <1>7
<1>8. PlainLabels(out)
  BY <1>3, <1>6, <1>7 DEF PlainLabels
<1>9. "basicauth.users" \in DOMAIN out <=> "basicauth.users" \in DOMAIN labels
  BY <1>1, <1>3, <1>4
<1>10. ASSUME NEW f \in Routing
       PROVE  LabelText(out, f) = IF f \in DOMAIN e THEN e[f].text ELSE LabelText(base, f)
  BY <1>6, <1>7 DEF LabelText
<1> QED
  BY <1>3, <1>8, <1>9, <1>10 DEF Routing

(***************************************************************************)
(* The port a service is left with, when it is not switched off: the one   *)
(* given, else "80" where an exposure is enabled without one.              *)
(***************************************************************************)
LEMMA LabelsGiven ==
  ASSUME NEW labels, NEW o, NEW out, out = LabelsOverridden(labels, o),
         PlainLabels(labels), PlainOverride(o)
  PROVE  /\ PlainLabels(out)
         /\ "basicauth.users" \in DOMAIN out <=> "basicauth.users" \in DOMAIN labels
         /\ Disabled(ExposureOf(o)) => LabelText(out, "port") = ""
         /\ ~Disabled(ExposureOf(o)) =>
              /\ LabelText(out, "subdomain") =
                   Given(o, "subdomain", "subdomain", LabelText(labels, "subdomain"))
              /\ LabelText(out, "visibility") =
                   Given(o, "visibility", "exposure_visibility", LabelText(labels, "visibility"))
              /\ LabelText(out, "port") =
                   Given(o, "port", "exposure_port", LabelText(labels, "port"))
                 \/ /\ "enabled" \in DOMAIN ExposureOf(o) /\ "port" \notin DOMAIN ExposureOf(o)
                    /\ LabelText(out, "port") = "80"
              /\ "enabled" \in DOMAIN ExposureOf(o) /\ "port" \notin DOMAIN ExposureOf(o)
                   => LabelText(out, "port") # ""
<1> DEFINE direct == Mapped(labels, o, DirectLabels)
           exposed == IF "exposure" \in DOMAIN o THEN ExposureOverridden(direct, o.exposure) ELSE direct
           branch == IF "git_config" \in DOMAIN o
                     THEN Updated(exposed, Entry("branch", o.git_config.branch_name)) ELSE exposed
           start == IF "start_command" \in DOMAIN o
                    THEN Updated(branch, Entry("start_command", o.start_command)) ELSE branch
           e == ExposureOf(o)
<1>1. out = Mapped(start, o, MetadataLabels)
  BY DEF LabelsOverridden
<1>2. /\ PlainLabels(direct)
      /\ "basicauth.users" \in DOMAIN direct <=> "basicauth.users" \in DOMAIN labels
      /\ LabelText(direct, "port") = IF "exposure_port" \in DOMAIN o THEN o.exposure_port.text
                                     ELSE LabelText(labels, "port")
      /\ LabelText(direct, "subdomain") = IF "subdomain" \in DOMAIN o THEN o.subdomain.text
                                          ELSE LabelText(labels, "subdomain")
      /\ LabelText(direct, "visibility") =
           IF "exposure_visibility" \in DOMAIN o THEN o.exposure_visibility.text
           ELSE LabelText(labels, "visibility")
  BY DirectAt
<1> HIDE DEF direct
<1>3. /\ PlainLabels(exposed)
      /\ "basicauth.users" \in DOMAIN exposed <=> "basicauth.users" \in DOMAIN direct
      /\ Disabled(e) => LabelText(exposed, "port") = ""
      /\ ~Disabled(e) =>
           /\ LabelText(exposed, "port") = IF "port" \in DOMAIN e THEN e.port.text
                                           ELSE IF NeedsPort(direct, e) THEN "80"
                                           ELSE LabelText(direct, "port")
           /\ \A k \in {"subdomain", "visibility"} :
                LabelText(exposed, k) = IF k \in DOMAIN e THEN e[k].text ELSE LabelText(direct, k)
  <2>1. CASE "exposure" \notin DOMAIN o
    BY <2>1, <1>2 DEF ExposureOf, Empty, Disabled, NeedsPort
  <2>2. CASE "exposure" \in DOMAIN o /\ Disabled(o.exposure)
    <3>1. exposed = [k \in DOMAIN direct \ {"port", "subdomain", "path_rule", "visibility"} |-> direct[k]]
      BY <2>2 DEF ExposureOverridden
    <3> QED
      BY <3>1, <2>2, <1>2 DEF ExposureOf, PlainLabels, LabelText
  <2>3. CASE "exposure" \in DOMAIN o /\ ~Disabled(o.exposure)
    <3>1. \A k \in DOMAIN o.exposure \cap Routing : IsPlain(o.exposure[k])
      BY <2>3 DEF PlainOverride
    <3>2. exposed = ExposureOverridden(direct, o.exposure) /\ e = o.exposure
      BY <2>3 DEF ExposureOf
    <3> HIDE DEF exposed, e
    <3>3. /\ exposed = ExposureOverridden(direct, e) /\ PlainLabels(direct) /\ ~Disabled(e)
          /\ \A k \in DOMAIN e \cap Routing : IsPlain(e[k])
      BY <3>1, <3>2, <2>3, <1>2
    <3>4. /\ PlainLabels(exposed)
          /\ "basicauth.users" \in DOMAIN exposed <=> "basicauth.users" \in DOMAIN direct
          /\ LabelText(exposed, "port") = IF "port" \in DOMAIN e THEN e.port.text
                                           ELSE IF NeedsPort(direct, e) THEN "80"
                                           ELSE LabelText(direct, "port")
          /\ \A k \in {"subdomain", "visibility"} :
                LabelText(exposed, k) = IF k \in DOMAIN e THEN e[k].text ELSE LabelText(direct, k)
      BY ONLY <3>3, ExposureAt
    <3> QED
      BY <3>3, <3>4
  <2> QED
    BY <2>1, <2>2, <2>3
<1> HIDE DEF exposed
<1>4. /\ PlainLabels(start)
      /\ "basicauth.users" \in DOMAIN start <=> "basicauth.users" \in DOMAIN exposed
      /\ \A k \in Routing : LabelText(start, k) = LabelText(exposed, k)
  <2>1. /\ \A k \in Routing \cup {"basicauth.users"} : k \in DOMAIN start <=> k \in DOMAIN exposed
        /\ \A k \in Routing : k \in DOMAIN exposed => start[k] = exposed[k]
    BY DEF Updated, Entry, Routing
  <2> HIDE DEF start
  <2> QED
    BY <2>1, <1>3 DEF PlainLabels, LabelText
<1> HIDE DEF start
<1>5. /\ PlainLabels(out)
      /\ "basicauth.users" \in DOMAIN out <=> "basicauth.users" \in DOMAIN start
      /\ \A k \in Routing : LabelText(out, k) = LabelText(start, k)
  <2>1. /\ DOMAIN MetadataLabels
              = {"dockerfile_path", "repo_url", "build_target", "production", "build_args"}
        /\ MetadataLabels["dockerfile_path"] = "dockerfile" /\ MetadataLabels["repo_url"] = "repo_url"
        /\ MetadataLabels["build_target"] = "build_target"
        /\ MetadataLabels["production"] = "production" /\ MetadataLabels["build_args"] = "build_args"
    BY DEF MetadataLabels
  <2>2. \A f, g \in DOMAIN MetadataLabels : MetadataLabels[f] = MetadataLabels[g] => f = g
    BY <2>1
  <2>3. Carried(out, start, o, MetadataLabels)
    BY <1>1, <2>2, MappedAt
  <2>4. \A f \in DOMAIN MetadataLabels : MetadataLabels[f] \notin Routing \cup {"basicauth.users"}
    BY <2>1 DEF Routing
  <2>5. /\ \A k \in Routing \cup {"basicauth.users"} : k \in DOMAIN out <=> k \in DOMAIN start
        /\ \A k \in Routing : k \in DOMAIN start => out[k] = start[k]
    BY <2>3, <2>4 DEF Carried
  <2> QED
    BY <2>5, <1>4 DEF PlainLabels, LabelText
<1>6. ~Disabled(e) => LabelText(out, "subdomain") =
                        Given(o, "subdomain", "subdomain", LabelText(labels, "subdomain"))
  BY <1>2, <1>3, <1>4, <1>5 DEF Given, Routing
<1>7. ~Disabled(e) => LabelText(out, "visibility") =
                   Given(o, "visibility", "exposure_visibility", LabelText(labels, "visibility"))
  BY <1>2, <1>3, <1>4, <1>5 DEF Given, Routing
<1>8. ~Disabled(e) /\ ~("enabled" \in DOMAIN e /\ "port" \notin DOMAIN e) =>
        LabelText(out, "port") = Given(o, "port", "exposure_port", LabelText(labels, "port"))
  BY <1>2, <1>3, <1>4, <1>5 DEF Given, Routing, NeedsPort
<1>9. ~Disabled(e) /\ "enabled" \in DOMAIN e /\ "port" \notin DOMAIN e =>
        /\ LabelText(out, "port") = Given(o, "port", "exposure_port", LabelText(labels, "port"))
             \/ LabelText(out, "port") = "80"
        /\ LabelText(out, "port") # ""
  <2> SUFFICES ASSUME ~Disabled(e), "enabled" \in DOMAIN e, "port" \notin DOMAIN e
               PROVE  /\ \/ LabelText(out, "port") =
                               Given(o, "port", "exposure_port", LabelText(labels, "port"))
                         \/ LabelText(out, "port") = "80"
                      /\ LabelText(out, "port") # ""
    OBVIOUS
  <2>1. LabelText(out, "port") = IF NeedsPort(direct, e) THEN "80" ELSE LabelText(direct, "port")
    BY <1>3, <1>4, <1>5 DEF Routing
  <2>2. ~NeedsPort(direct, e) => LabelText(direct, "port") # ""
    BY GrammarAssumption DEF NeedsPort, IsPort, LabelText
  <2> QED
    BY <2>1, <2>2, <1>2 DEF Given
<1> QED
  BY <1>2, <1>3, <1>4, <1>5, <1>6, <1>7, <1>8, <1>9 DEF Routing

LEMMA LabelsStayPlain ==
  ASSUME NEW labels, NEW o, PlainLabels(labels), PlainOverride(o)
  PROVE  PlainLabels(LabelsOverridden(labels, o))
BY LabelsGiven

-----------------------------------------------------------------------------
HasUsers(labels) == "basicauth.users" \in DOMAIN labels

LEMMA LabelIsText ==
  ASSUME NEW s, NEW k
  PROVE  /\ Label(s, k).text = LabelText(s.labels, k)
         /\ k \in Routing /\ PlainLabels(s.labels) => IsPlain(Label(s, k))
BY DEF Label, LabelText, Blank, Text, PlainLabels, IsPlain, IsScalar

(***************************************************************************)
(* What the passes over a document do to the labels of routes.             *)
(***************************************************************************)
SameServices(d, e) ==
  /\ DOMAIN e.services = DOMAIN d.services
  /\ DocFields \subseteq DOMAIN e
  /\ e.variables = d.variables
  /\ \A n \in DOMAIN d.services : DOMAIN e.services[n] = ServiceFields

SameRoutes(d, e) ==
  /\ SameServices(d, e)
  /\ \A n \in DOMAIN d.services :
       /\ HasUsers(e.services[n].labels) <=> HasUsers(d.services[n].labels)
       /\ \A k \in Routing :
            /\ k \in DOMAIN e.services[n].labels <=> k \in DOMAIN d.services[n].labels
            /\ k \in DOMAIN d.services[n].labels =>
                 e.services[n].labels[k] = d.services[n].labels[k]

LEMMA SameRoutesLiteral ==
  ASSUME NEW d, NEW e, Literal(d), SameRoutes(d, e)
  PROVE  /\ Literal(e)
         /\ \A n \in DOMAIN d.services, k \in Routing :
              LabelText(e.services[n].labels, k) = LabelText(d.services[n].labels, k)
BY DEF Literal, SameRoutes, SameServices, PlainService, PlainLabels, LabelText

LEMMA OverScalarsSame ==
  ASSUME NEW d, Literal(d), NEW env, NoToken \notin DOMAIN env
  PROVE  SameRoutes(d, ApplyEnvInterpolation(d, env))
<1> DEFINE fill(v) == Replaced(v, env)
           e == ApplyEnvInterpolation(d, env)
<1>1. \A v : IsPlain(v) => fill(v) = v
  BY DEF Replaced, IsPlain
<1>2. "services" \in DOMAIN d /\ \A n \in DOMAIN d.services : DOMAIN d.services[n] = ServiceFields
  BY DEF Literal, PlainService, DocFields
<1>. DEFINE g(n) == OverServiceScalars(d.services[n], fill)
<1>3. e = [d EXCEPT !.services = [n \in DOMAIN d.services |-> g(n)]]
  BY Zenon DEF ApplyEnvInterpolation, OverScalars, OverServiceScalars, Each
<1> HIDE DEF g, e
<1>3a. DOMAIN e = DOMAIN d /\ e.variables = d.variables /\ DOMAIN e.services = DOMAIN d.services
  BY <1>2, <1>3
<1>4. ASSUME NEW n \in DOMAIN d.services
      PROVE  /\ DOMAIN e.services[n] = ServiceFields
             /\ DOMAIN e.services[n].labels = DOMAIN d.services[n].labels
             /\ \A k \in DOMAIN d.services[n].labels :
                  e.services[n].labels[k] = fill(d.services[n].labels[k])
  <2>1. e.services[n] = g(n)
    BY <1>2, <1>3, <1>4
  <2> QED
    BY <1>2, <1>4, <2>1 DEF g, OverServiceScalars, Each, ServiceFields
<1> HIDE DEF fill
<1>5. SameServices(d, e)
  BY <1>3a, <1>4 DEF Literal, SameServices
<1>6. ASSUME NEW n \in DOMAIN d.services, NEW k \in Routing, k \in DOMAIN d.services[n].labels
      PROVE  e.services[n].labels[k] = d.services[n].labels[k]
  BY <1>1, <1>4, <1>6 DEF Literal, PlainService, PlainLabels
<1>7. SameRoutes(d, e)
  BY <1>4, <1>5, <1>6 DEF SameRoutes, HasUsers
<1> QED
  BY <1>7 DEF e

LEMMA GlobalEnvSame ==
  ASSUME NEW d, Literal(d), NEW env
  PROVE  SameRoutes(d, ApplyGlobalEnv(d, env))
<1> DEFINE e == ApplyGlobalEnv(d, env)
<1>1. "services" \in DOMAIN d /\ \A n \in DOMAIN d.services : DOMAIN d.services[n] = ServiceFields
  BY DEF Literal, PlainService, DocFields
<1>2. DOMAIN e = DOMAIN d /\ DOMAIN e.services = DOMAIN d.services /\ e.variables = d.variables
  BY <1>1 DEF ApplyGlobalEnv
<1>3. ASSUME NEW n \in DOMAIN d.services
      PROVE  DOMAIN e.services[n] = ServiceFields /\ e.services[n].labels = d.services[n].labels
  BY <1>1, <1>3 DEF ApplyGlobalEnv, ServiceFields
<1> HIDE DEF e
<1>4. SameServices(d, e)
  BY <1>2, <1>3 DEF Literal, SameServices
<1>5. SameRoutes(d, e)
  BY <1>3, <1>4 DEF SameRoutes
<1> QED
  BY <1>5 DEF e

LEMMA RootDomainSame ==
  ASSUME NEW d, Literal(d), NEW domain, NEW e \in ApplyRootDomainToken(d, domain)
  PROVE  SameRoutes(d, e)
<1> DEFINE fill(v) == WithRootDomain(v, domain)
<1>1. e = d \/ e = OverScalars(d, fill)
  BY DEF ApplyRootDomainToken
<1>2. CASE e = d
  BY <1>2 DEF SameRoutes, SameServices, Literal, PlainService
<1>3. CASE e = OverScalars(d, fill)
  <2>1. \A v : IsPlain(v) => fill(v) = v
    BY DEF IsPlain, NoToken, RootDomain, WithRootDomain
  <2>2. "services" \in DOMAIN d /\ \A n \in DOMAIN d.services : DOMAIN d.services[n] = ServiceFields
    BY DEF Literal, PlainService, DocFields
  <2>. DEFINE g(n) == OverServiceScalars(d.services[n], fill)
  <2>3. e = [d EXCEPT !.services = [n \in DOMAIN d.services |-> g(n)]]
    BY <1>3, Zenon DEF OverScalars, OverServiceScalars, Each
  <2> HIDE DEF g
  <2>3a. DOMAIN e = DOMAIN d /\ e.variables = d.variables /\ DOMAIN e.services = DOMAIN d.services
    BY <2>2, <2>3
  <2>4. ASSUME NEW n \in DOMAIN d.services
        PROVE  /\ DOMAIN e.services[n] = ServiceFields
               /\ DOMAIN e.services[n].labels = DOMAIN d.services[n].labels
               /\ \A k \in DOMAIN d.services[n].labels :
                    e.services[n].labels[k] = fill(d.services[n].labels[k])
    <3>1. e.services[n] = g(n)
      BY <2>2, <2>3, <2>4
    <3> QED
      BY <2>2, <2>4, <3>1 DEF g, OverServiceScalars, Each, ServiceFields
  <2> HIDE DEF fill
  <2>5. SameServices(d, e)
    BY <2>3a, <2>4 DEF Literal, SameServices
  <2>6. ASSUME NEW n \in DOMAIN d.services, NEW k \in Routing, k \in DOMAIN d.services[n].labels
        PROVE  e.services[n].labels[k] = d.services[n].labels[k]
    BY <2>1, <2>4, <2>6 DEF Literal, PlainService, PlainLabels
  <2> QED
    BY <2>4, <2>5, <2>6 DEF SameRoutes, HasUsers
<1> QED
  BY <1>1, <1>2, <1>3

LEMMA ServicesOverridden ==
  ASSUME NEW d, Literal(d), NEW ov, PlainOverrides(ov), NEW e \in ApplyServiceOverrides(d, ov)
  PROVE  /\ Literal(e)
         /\ DOMAIN e.services = DOMAIN d.services
         /\ \A n \in DOMAIN d.services :
              e.services[n].labels =
                IF n \in DOMAIN ov \ {Global} THEN LabelsOverridden(d.services[n].labels, ov[n])
                ELSE d.services[n].labels
<1> DEFINE named == DOMAIN ov \ {Global}
           over(n) == IF n \in named THEN ServiceOverridden(d.services[n], ov[n]) ELSE d.services[n]
           global == IF Global \in DOMAIN ov THEN EnvVars(ov[Global]) ELSE <<>>
           own(n) == IF n \in named THEN EnvVars(ov[n]) ELSE <<>>
           env(n, late) == IF n \in late THEN Updated(Updated(d.services[n].env, global), own(n))
                           ELSE Updated(Updated(d.services[n].env, own(n)), global)
<1>1. PICK late \in SUBSET named :
        e = [d EXCEPT !.services = [n \in DOMAIN d.services |-> [over(n) EXCEPT !.env = env(n, late)]]]
  BY Zenon DEF ApplyServiceOverrides
<1> HIDE DEF env
<1>2. ASSUME NEW n \in DOMAIN d.services
      PROVE  /\ DOMAIN over(n) = ServiceFields
             /\ over(n).labels = IF n \in named THEN LabelsOverridden(d.services[n].labels, ov[n])
                                 ELSE d.services[n].labels
  <2>1. DOMAIN d.services[n] = ServiceFields
    BY <1>2 DEF Literal, PlainService
  <2> QED
    BY <2>1 DEF ServiceOverridden, ServiceFields
<1> HIDE DEF over
<1>3. ASSUME NEW n \in DOMAIN d.services
      PROVE  /\ DOMAIN e.services[n] = ServiceFields
             /\ e.services[n].labels = IF n \in named THEN LabelsOverridden(d.services[n].labels, ov[n])
                                       ELSE d.services[n].labels
  BY <1>1, <1>2, <1>3 DEF Literal, DocFields, ServiceFields
<1>4. ASSUME NEW n \in DOMAIN d.services PROVE PlainLabels(e.services[n].labels)
  <2>1. PlainLabels(d.services[n].labels)
    BY <1>4 DEF Literal, PlainService
  <2>2. CASE n \in named
    <3>1. PlainOverride(ov[n])
      BY <2>2 DEF PlainOverrides
    <3>2. e.services[n].labels = LabelsOverridden(d.services[n].labels, ov[n])
      BY <1>3, <1>4, <2>2
    <3> QED
      BY <2>1, <3>1, <3>2, LabelsStayPlain
  <2> QED
    BY <1>3, <1>4, <2>1, <2>2
<1>5. DOMAIN e.services = DOMAIN d.services /\ e.variables = d.variables /\ DocFields \subseteq DOMAIN e
  BY <1>1 DEF Literal, DocFields
<1> QED
  BY <1>3, <1>4, <1>5 DEF Literal, PlainService

-----------------------------------------------------------------------------
(***************************************************************************)
(* The labels of a service before the overrides of a request s, and after. *)
(***************************************************************************)
Base(s, n, k) ==
  IF k = "subdomain" /\ n \in DOMAIN s.subdomains THEN s.subdomains[n].text ELSE Declared(s, n, k)

Raw(labels, s, n) == \A k \in Routing : LabelText(labels, k) = Base(s, n, k)

Done(labels, s, n) ==
  /\ LabelText(labels, "port") = "" <=> AskedPort(s, n) = ""
  /\ ~Disabled(Exposure(s, n)) =>
       /\ LabelText(labels, "subdomain") = Asked(s, n, "subdomain", "subdomain", "subdomain")
       /\ LabelText(labels, "visibility") =
            Asked(s, n, "visibility", "exposure_visibility", "visibility")

ValidServices(ov) == PlainOverrides(ov) /\ \A n \in DOMAIN ov : ValidOverride(n, ov[n])

LEMMA AskedIsGiven ==
  ASSUME NEW s, NEW n, NEW k \in Routing, NEW flat
  PROVE  /\ Asked(s, n, k, flat, k) = Given(Overrides(s, n), k, flat, Base(s, n, k))
         /\ Exposure(s, n) = ExposureOf(Overrides(s, n))
BY DEF Asked, Given, Base, ExposureOf, Exposure

(***************************************************************************)
(* Where nothing is asked for the routes of a service they are as before.  *)
(***************************************************************************)
LEMMA NothingAsked ==
  ASSUME NEW s, NEW n, NEW labels, Raw(labels, s, n),
         {"exposure", "subdomain", "exposure_visibility", "exposure_port"}
           \cap DOMAIN Overrides(s, n) = {}
  PROVE  Done(labels, s, n)
<1>1. DOMAIN Exposure(s, n) = {} /\ ~Disabled(Exposure(s, n))
  BY DEF Exposure, Empty, Disabled
<1>2. \A k \in Routing, flat \in {"subdomain", "exposure_visibility", "exposure_port"} :
        Asked(s, n, k, flat, k) = Base(s, n, k)
  BY <1>1 DEF Asked, Base
<1> QED
  BY <1>1, <1>2 DEF Raw, Done, AskedPort, Routing

LEMMA OverriddenOnce ==
  ASSUME NEW s, NEW n \in DOMAIN s.services, NEW labels, NEW out,
         PlainLabels(labels), PlainOverride(s.services[n]), ValidOverride(n, s.services[n]),
         out = LabelsOverridden(labels, s.services[n]),
         Raw(labels, s, n) \/ Done(labels, s, n)
  PROVE  Done(out, s, n)
<1> DEFINE o == s.services[n]
           e == ExposureOf(o)
<1>1. Overrides(s, n) = o /\ Exposure(s, n) = e
  BY DEF Overrides, Exposure, ExposureOf
<1>2. \A k \in Routing, flat \in {"subdomain", "exposure_visibility", "exposure_port"} :
        Asked(s, n, k, flat, k) = Given(o, k, flat, Base(s, n, k))
  BY <1>1, AskedIsGiven
<1>3. /\ Disabled(e) => LabelText(out, "port") = ""
      /\ ~Disabled(e) =>
           /\ LabelText(out, "subdomain") =
                Given(o, "subdomain", "subdomain", LabelText(labels, "subdomain"))
           /\ LabelText(out, "visibility") =
                Given(o, "visibility", "exposure_visibility", LabelText(labels, "visibility"))
           /\ \/ LabelText(out, "port") = Given(o, "port", "exposure_port", LabelText(labels, "port"))
              \/ /\ "enabled" \in DOMAIN e /\ "port" \notin DOMAIN e
                 /\ LabelText(out, "port") = "80"
           /\ "enabled" \in DOMAIN e /\ "port" \notin DOMAIN e => LabelText(out, "port") # ""
  <2>1. PlainLabels(labels) /\ PlainOverride(o) /\ out = LabelsOverridden(labels, o)
    OBVIOUS
  <2> HIDE DEF o
  <2> QED
    BY ONLY <2>1, LabelsGiven
<1>4. ASSUME ~Disabled(e), "port" \in DOMAIN e PROVE e.port.text # ""
  <2>1. "exposure" \in DOMAIN o /\ e = o.exposure
    BY <1>4 DEF ExposureOf, Empty
  <2>2. ValidField("exposure", o.exposure)
    BY <2>1 DEF ValidOverride
  <2>3. IsPort(e.port)
    BY <1>4, <2>1, <2>2 DEF ValidField, ValidExposure, StringFields
  <2> QED
    BY <2>3, GrammarAssumption DEF IsPort
<1> HIDE DEF e, o
<1>5. CASE Disabled(e)
  BY <1>1, <1>3, <1>5 DEF Done, AskedPort
<1>6. CASE ~Disabled(e)
  <2>1. LabelText(out, "subdomain") = Asked(s, n, "subdomain", "subdomain", "subdomain")
    BY <1>1, <1>2, <1>3, <1>6 DEF Raw, Done, Given, Routing
  <2>2. LabelText(out, "visibility") = Asked(s, n, "visibility", "exposure_visibility", "visibility")
    BY <1>1, <1>2, <1>3, <1>6 DEF Raw, Done, Given, Routing
  <2>3. AskedPort(s, n) = "" <=>
          /\ Given(o, "port", "exposure_port", Base(s, n, "port")) = ""
          /\ "enabled" \notin DOMAIN e
    BY <1>1, <1>2, <1>6 DEF AskedPort, Routing
  <2>4. LabelText(out, "port") = "" <=> AskedPort(s, n) = ""
    <3>1. CASE "enabled" \in DOMAIN e /\ "port" \notin DOMAIN e
      BY <3>1, <2>3, <1>3, <1>6
    <3>2. CASE "enabled" \in DOMAIN e /\ "port" \in DOMAIN e
      <4>1. LabelText(out, "port") = e.port.text
        BY <3>2, <1>3, <1>6 DEF Given, e
      <4> QED
        BY <3>2, <4>1, <1>4, <1>6, <2>3
    <3>3. CASE "enabled" \notin DOMAIN e
      <4>1. LabelText(out, "port") = Given(o, "port", "exposure_port", LabelText(labels, "port"))
        BY <3>3, <1>3, <1>6
      <4>2. CASE Raw(labels, s, n)
        BY <3>3, <4>1, <4>2, <2>3 DEF Raw, Routing
      <4>3. CASE Done(labels, s, n)
        BY <3>3, <4>1, <4>3, <2>3 DEF Done, Given
      <4> QED
        BY <4>2, <4>3
    <3> QED
      BY <3>1, <3>2, <3>3
  <2> QED
    BY <2>1, <2>2, <2>4 DEF Done
<1> QED
  BY <1>5, <1>6

-----------------------------------------------------------------------------
(***************************************************************************)
(* The same for documents.                                                 *)
(***************************************************************************)
Labels(d, n) == d.services[n].labels

RawDoc(d, s) == \A n \in DOMAIN d.services : Raw(Labels(d, n), s, n)

DoneDoc(d, s) == \A n \in DOMAIN d.services : Done(Labels(d, n), s, n)

SameUsers(d, e) ==
  /\ DOMAIN e.services = DOMAIN d.services
  /\ \A n \in DOMAIN d.services : HasUsers(Labels(e, n)) <=> HasUsers(Labels(d, n))

LEMMA OverridesDone ==
  ASSUME NEW s, ValidServices(s.services), NEW d, Literal(d), RawDoc(d, s) \/ DoneDoc(d, s),
         NEW e \in ApplyServiceOverrides(d, s.services)
  PROVE  Literal(e) /\ SameUsers(d, e) /\ DoneDoc(e, s)
<1> DEFINE ov == s.services
<1>1. PlainOverrides(ov) /\ \A n \in DOMAIN ov : ValidOverride(n, ov[n])
  BY DEF ValidServices
<1>2. /\ Literal(e)
      /\ DOMAIN e.services = DOMAIN d.services
      /\ \A n \in DOMAIN d.services :
           Labels(e, n) = IF n \in DOMAIN ov \ {Global} THEN LabelsOverridden(Labels(d, n), ov[n])
                          ELSE Labels(d, n)
  BY <1>1, ServicesOverridden DEF Labels
<1>3. ASSUME NEW n \in DOMAIN d.services
      PROVE  Done(Labels(e, n), s, n) /\ (HasUsers(Labels(e, n)) <=> HasUsers(Labels(d, n)))
  <2>1. PlainLabels(Labels(d, n)) /\ (Raw(Labels(d, n), s, n) \/ Done(Labels(d, n), s, n))
    BY <1>3 DEF Literal, PlainService, RawDoc, DoneDoc, Labels
  <2>2. CASE n \in DOMAIN ov \ {Global}
    <3>1. /\ PlainOverride(ov[n]) /\ ValidOverride(n, ov[n])
          /\ Labels(e, n) = LabelsOverridden(Labels(d, n), ov[n])
      BY <1>1, <1>2, <1>3, <2>2 DEF PlainOverrides
    <3>2. Done(Labels(e, n), s, n)
      BY <2>1, <2>2, <3>1, OverriddenOnce
    <3>3. HasUsers(Labels(e, n)) <=> HasUsers(Labels(d, n))
      BY <2>1, <3>1, LabelsGiven DEF HasUsers
    <3> QED
      BY <3>2, <3>3
  <2>3. CASE n \notin DOMAIN ov \ {Global}
    <3>1. Labels(e, n) = Labels(d, n)
      BY <1>2, <1>3, <2>3
    <3>2. {"exposure", "subdomain", "exposure_visibility", "exposure_port"}
             \cap DOMAIN Overrides(s, n) = {}
      <4>1. CASE n \notin DOMAIN ov
        BY <4>1 DEF Overrides, Empty
      <4>2. CASE n = Global /\ n \in DOMAIN ov
        <5>1. ValidOverride(Global, ov[n]) /\ Overrides(s, n) = ov[n]
          BY <1>1, <4>2 DEF Overrides
        <5> QED
          BY <5>1 DEF ValidOverride
      <4> QED
        BY <2>3, <4>1, <4>2
    <3> QED
      BY <2>1, <3>1, <3>2, NothingAsked
  <2> QED
    BY <2>2, <2>3
<1> QED
  BY <1>2, <1>3 DEF SameUsers, DoneDoc

LEMMA SameRoutesDone ==
  ASSUME NEW s, NEW d, NEW e, Literal(d), SameRoutes(d, e), RawDoc(d, s) \/ DoneDoc(d, s)
  PROVE  Literal(e) /\ SameUsers(d, e) /\ (RawDoc(e, s) \/ DoneDoc(e, s))
<1>1. /\ Literal(e) /\ DOMAIN e.services = DOMAIN d.services
      /\ \A n \in DOMAIN d.services, k \in Routing :
           LabelText(Labels(e, n), k) = LabelText(Labels(d, n), k)
  BY SameRoutesLiteral DEF Labels, SameRoutes, SameServices
<1>2. SameUsers(d, e)
  BY DEF SameUsers, SameRoutes, SameServices, Labels
<1>3. ASSUME NEW n \in DOMAIN d.services
      PROVE  /\ Raw(Labels(d, n), s, n) => Raw(Labels(e, n), s, n)
             /\ Done(Labels(d, n), s, n) => Done(Labels(e, n), s, n)
  BY <1>1, <1>3 DEF Raw, Done, Routing
<1> QED
  BY <1>1, <1>2, <1>3 DEF RawDoc, DoneDoc

(***************************************************************************)
(* What a Playground's own environment and overrides make of the document  *)
(* of its Playspec.                                                        *)
(***************************************************************************)
LEMMA PlaygroundDone ==
  ASSUME NEW s, PlainOverrides(s.services), NEW env, NoToken \notin DOMAIN env,
         NEW d, Literal(d), RawDoc(d, s) \/ DoneDoc(d, s),
         NEW e \in PlaygroundCompose(d, env, s.services)
  PROVE  Literal(e) /\ SameUsers(d, e) /\ DoneDoc(e, s) /\ ValidServices(s.services)
<1>1. CASE DOMAIN env = {} /\ DOMAIN s.services = {}
  <2>1. e = d
    BY <1>1 DEF PlaygroundCompose
  <2>2. \A n : DOMAIN Overrides(s, n) = {}
    BY <1>1 DEF Overrides, Empty
  <2>3. DoneDoc(d, s)
    BY <2>2, NothingAsked DEF RawDoc, DoneDoc
  <2> QED
    BY <1>1, <2>1, <2>3 DEF SameUsers, ValidServices
<1>2. CASE ~(DOMAIN env = {} /\ DOMAIN s.services = {})
  <2> DEFINE a == ApplyEnvInterpolation(d, env)
             b == ApplyGlobalEnv(a, env)
  <2>1. ValidOverrides(d, <<>>, s.services) /\ e \in ApplyServiceOverrides(b, s.services)
    BY <1>2 DEF PlaygroundCompose
  <2>2. ValidServices(s.services)
    BY <2>1 DEF ValidOverrides, ValidServices
  <2>3. SameRoutes(d, a)
    BY OverScalarsSame
  <2> HIDE DEF a
  <2>4. Literal(a) /\ SameUsers(d, a) /\ (RawDoc(a, s) \/ DoneDoc(a, s))
    BY <2>3, SameRoutesDone
  <2>5. SameRoutes(a, b)
    BY <2>4, GlobalEnvSame
  <2> HIDE DEF b
  <2>6. Literal(b) /\ SameUsers(a, b) /\ (RawDoc(b, s) \/ DoneDoc(b, s))
    BY <2>4, <2>5, SameRoutesDone
  <2>7. Literal(e) /\ SameUsers(b, e) /\ DoneDoc(e, s)
    BY <2>1, <2>2, <2>6, OverridesDone
  <2> QED
    BY <2>2, <2>4, <2>6, <2>7 DEF SameUsers
<1> QED
  BY <1>1, <1>2

(***************************************************************************)
(* The routes of a service in the runtime document, and who may use one.   *)
(***************************************************************************)
Routed(rt, n, svc, domain, password) ==
  /\ rt.ports = {}
  /\ rt.routes = IF Summary(n, svc).port = "" \/ domain = "" THEN {}
                 ELSE {Route(svc, Summary(n, svc), domain, password)}

LEMMA RuntimeParts ==
  ASSUME NEW n, NEW svc, NEW domain, NEW password
  PROVE  Routed(RuntimeService(n, svc, domain, password), n, svc, domain, password)
BY DEF RuntimeService, Routed

LEMMA AuthParts ==
  ASSUME NEW svc, NEW sum, NEW password, password # ""
  PROVE  /\ RouteAuth(svc, sum, password) # Unprotected <=>
              sum.visibility = "internal" /\ "basicauth.users" \notin DOMAIN svc.labels
         /\ RouteAuth(svc, sum, password) # Unprotected =>
              /\ RouteAuth(svc, sum, password).router = "secure"
              /\ RouteAuth(svc, sum, password).users # ""
BY DEF RouteAuth, Unprotected

(***************************************************************************)
(* The runtime document routes what such a document says.                  *)
(***************************************************************************)
LEMMA RoutedAsAsked ==
  ASSUME NEW s, ValidServices(s.services), NEW d, Literal(d), DoneDoc(d, s),
         \A n \in DOMAIN d.services : HasUsers(Labels(d, n)) <=> OwnAuth(s, n),
         s.runtime \in RuntimeCompose(d, s.services, Domain, "generated"),
         NEW n \in DOMAIN s.runtime
  PROVE  AsAsked(s, n)
<1> DEFINE svc == d.services[n]
           password == ServicePassword(n, s.services, "generated")
           sum == Summary(n, svc)
<1>1. /\ n \in DOMAIN d.services
      /\ s.runtime[n] = RuntimeService(n, svc, Domain, password)
      /\ Domain = "" => IsBlank(Label(svc, "port"))
  BY DEF RuntimeCompose
<1>2. \A k \in Routing : IsPlain(Label(svc, k)) /\ Label(svc, k).text = LabelText(svc.labels, k)
  BY <1>1, LabelIsText DEF Literal, PlainService
<1>3. /\ sum.port = LabelText(svc.labels, "port")
      /\ sum.subdomain = IF LabelText(svc.labels, "subdomain") = "" THEN n
                         ELSE LabelText(svc.labels, "subdomain")
      /\ sum.visibility = "internal" <=> LabelText(svc.labels, "visibility") = "internal"
      /\ Domain = "" => LabelText(svc.labels, "port") = ""
  BY <1>1, <1>2 DEF Summary, Fallback, IsBlank, IsPlain, Routing
<1>4. password # ""
  <2>1. CASE n \in DOMAIN s.services /\ "auth_password" \in DOMAIN s.services[n]
    <3>1. ValidField("auth_password", s.services[n].auth_password) /\ IsPlain(s.services[n].auth_password)
      BY <2>1 DEF ValidServices, ValidOverride, PlainOverrides, PlainOverride
    <3> QED
      BY <2>1, <3>1 DEF ValidField, IsString, IsBlank, IsPlain, ServicePassword
  <2>2. CASE ~(n \in DOMAIN s.services /\ "auth_password" \in DOMAIN s.services[n])
    BY <2>2 DEF ServicePassword
  <2> QED
    BY <2>1, <2>2
<1> HIDE DEF password, sum
<1>5. /\ s.runtime[n].ports = {}
      /\ s.runtime[n].routes =
           IF sum.port = "" \/ Domain = "" THEN {} ELSE {Route(svc, sum, Domain, password)}
  <2>1. Routed(s.runtime[n], n, svc, Domain, password)
    BY <1>1, RuntimeParts
  <2> QED
    BY <2>1 DEF Routed, sum
<1>6. Done(svc.labels, s, n) /\ (HasUsers(svc.labels) <=> OwnAuth(s, n))
  BY <1>1 DEF DoneDoc, Labels
<1>7. s.runtime[n].routes = {} <=> AskedPort(s, n) = ""
  BY <1>3, <1>5, <1>6 DEF Done
<1>8. ASSUME NEW r \in s.runtime[n].routes
      PROVE  LET subdomain == Asked(s, n, "subdomain", "subdomain", "subdomain")
                 internal == Asked(s, n, "visibility", "exposure_visibility", "visibility") = "internal"
             IN  /\ r.hosts = {<<IF subdomain = "" THEN n ELSE subdomain, Domain>>}
                 /\ r.auth # Unprotected <=> internal /\ ~OwnAuth(s, n)
                 /\ r.auth # Unprotected => r.auth.router = "secure" /\ r.auth.users # ""
  <2>1. r = Route(svc, sum, Domain, password)
    BY <1>5, <1>8
  <2>2. ~Disabled(Exposure(s, n))
    BY <1>7, <1>8 DEF AskedPort
  <2>3. r.hosts = {<<sum.subdomain, Domain>>} /\ r.auth = RouteAuth(svc, sum, password)
    BY <2>1 DEF Route
  <2>4. /\ r.auth # Unprotected <=> sum.visibility = "internal" /\ ~HasUsers(svc.labels)
        /\ r.auth # Unprotected => r.auth.router = "secure" /\ r.auth.users # ""
    <3>1. RouteAuth(svc, sum, password) # Unprotected <=>
            sum.visibility = "internal" /\ ~HasUsers(svc.labels)
      BY <1>4, AuthParts DEF HasUsers
    <3>2. RouteAuth(svc, sum, password) # Unprotected =>
            /\ RouteAuth(svc, sum, password).router = "secure"
            /\ RouteAuth(svc, sum, password).users # ""
      BY <1>4, AuthParts
    <3> QED
      BY <2>3, <3>1, <3>2
  <2> QED
    BY <2>2, <2>3, <2>4, <1>3, <1>6 DEF Done
<1> QED
  BY <1>5, <1>7, <1>8 DEF AsAsked

-----------------------------------------------------------------------------
(***************************************************************************)
(* A variable that a route depends on gets the value that was asked for.   *)
(***************************************************************************)
LEMMA SettledValue ==
  ASSUME NEW q, NEW x, Settled(q, x), NEW secret, NEW v,
         v = CompiledValue(q.doc.variables[x], x, q.variables, secret)
  PROVE  IsPlain(v) /\ ~IsBlank(v) /\ v.text = VariableValue(q, x)
<1>1. CASE x \in DOMAIN q.variables /\ ~IsBlank(q.variables[x])
  BY <1>1 DEF Settled, CompiledValue, VariableValue
<1>2. CASE ~(x \in DOMAIN q.variables /\ ~IsBlank(q.variables[x]))
  BY <1>2 DEF Settled, CompiledValue, VariableValue
<1> QED
  BY <1>1, <1>2

LEMMA SettledLabelFilled ==
  ASSUME NEW q, NEW v, SettledLabel(q, v), SettledVariables(q.doc), NEW value,
         DOMAIN value = DOMAIN q.doc.variables,
         \A x \in DOMAIN value : Settled(q, x) =>
           IsPlain(value[x]) /\ ~IsBlank(value[x]) /\ value[x].text = VariableValue(q, x)
  PROVE  /\ IsPlain(Replaced(v, value))
         /\ Replaced(v, value).text = IF ContainsVariable(v) THEN VariableValue(q, v.token) ELSE v.text
<1>1. CASE v.token = NoToken
  <2>1. Replaced(v, value) = v
    BY <1>1 DEF Replaced, SettledVariables
  <2> QED
    BY <1>1, <2>1 DEF SettledLabel, IsPlain, ContainsVariable
<1>2. CASE v.token \in DOMAIN q.doc.variables /\ v.text = "" /\ Settled(q, v.token)
  <2> DEFINE w == value[v.token]
  <2>1. IsPlain(w) /\ ~IsBlank(w) /\ w.text = VariableValue(q, v.token)
    BY <1>2
  <2>2. Replaced(v, value) = [v EXCEPT !.text = w.text, !.token = w.token]
    BY <1>2, <2>1 DEF Replaced
  <2>3. ContainsVariable(v)
    BY <1>2 DEF ContainsVariable, SettledVariables
  <2> HIDE DEF w
  <2> QED
    BY <2>1, <2>2, <2>3 DEF IsPlain, IsScalar, SettledLabel
<1> QED
  BY <1>1, <1>2 DEF SettledLabel

(***************************************************************************)
(* The variables written into the labels of one service.                   *)
(***************************************************************************)
Slots(d) == UNION {d.variables[x].path : x \in DOMAIN d.variables}

WrittenLabels(labels, d, n, value, c) ==
  Updated(labels, [k \in {p[2] : p \in {r \in Slots(d) : r[1] = n}} |-> Coerced(value[c[<<n, k>>]])])

LEMMA WrittenAt ==
  ASSUME NEW q, NEW n \in DOMAIN q.doc.services, SettledService(q, n), SettledVariables(q.doc),
         NEW value, DOMAIN value = DOMAIN q.doc.variables,
         \A x \in DOMAIN value : Settled(q, x) =>
           IsPlain(value[x]) /\ ~IsBlank(value[x]) /\ value[x].text = VariableValue(q, x),
         NEW labels, DOMAIN labels = DOMAIN Labels(q.doc, n),
         \A k \in DOMAIN labels : labels[k] = Replaced(Labels(q.doc, n)[k], value),
         NEW c, \A p \in Slots(q.doc) : c[p] \in DOMAIN value /\ p \in q.doc.variables[c[p]].path,
         NEW out, out = WrittenLabels(labels, q.doc, n, value, c)
  PROVE  /\ PlainLabels(out)
         /\ HasUsers(out) <=> HasUsers(Labels(q.doc, n))
         /\ \A k \in Routing : LabelText(out, k) = Declared(q, n, k)
<1> DEFINE mine == {p[2] : p \in {r \in Slots(q.doc) : r[1] = n}}
           new == [k \in mine |-> Coerced(value[c[<<n, k>>]])]
<1>1. \A p \in Slots(q.doc) : p = <<p[1], p[2]>> /\ p[2] # "basicauth.users"
  BY DEF Slots, SettledVariables
<1>2. \A k : k \in mine <=> <<n, k>> \in Slots(q.doc)
  <2> DEFINE slots == Slots(q.doc)
  <2>1. \A p \in slots : p = <<p[1], p[2]>>
    BY <1>1
  <2> HIDE DEF slots
  <2>2. \A k : k \in {p[2] : p \in {r \in slots : r[1] = n}} <=> <<n, k>> \in slots
    BY <2>1
  <2> QED
    BY <2>2 DEF slots
<1>3. "basicauth.users" \notin mine
  BY <1>1
<1> HIDE DEF mine
<1>4. /\ DOMAIN out = DOMAIN labels \cup mine
      /\ \A k \in mine : out[k] = Coerced(value[c[<<n, k>>]])
      /\ \A k \in DOMAIN labels \ mine : out[k] = labels[k]
  <2>1. out = Updated(labels, new)
    BY DEF WrittenLabels, mine
  <2>2. DOMAIN new = mine /\ \A k \in mine : new[k] = Coerced(value[c[<<n, k>>]])
    OBVIOUS
  <2> HIDE DEF new
  <2> QED
    BY <2>1, <2>2 DEF Updated
<1>5. \A k : Binders(q.doc, n, k) = {} <=> k \notin mine
  BY <1>2 DEF Binders, Slots
<1>6. ASSUME NEW k \in Routing, k \in mine
      PROVE  IsPlain(out[k]) /\ out[k].text = Declared(q, n, k)
  <2> DEFINE x == c[<<n, k>>]
  <2>1. x \in Binders(q.doc, n, k) /\ x \in DOMAIN value
    BY <1>2, <1>6 DEF Binders
  <2> HIDE DEF x
  <2>2. Binders(q.doc, n, k) = {x} /\ Settled(q, x)
    BY <2>1 DEF SettledService
  <2>3. IsPlain(value[x]) /\ value[x].text = VariableValue(q, x)
    BY <2>1, <2>2
  <2>4. out[k] = Coerced(value[x])
    BY <1>4, <1>6 DEF x
  <2>5. Declared(q, n, k) = VariableValue(q, x)
    BY <2>2 DEF Declared, Binders
  <2>6. IsPlain(Coerced(value[x])) /\ Coerced(value[x]).text = value[x].text
    <3> DEFINE v == value[x]
    <3>1. IsPlain(v)
      BY <2>3
    <3> HIDE DEF v
    <3>2. IsPlain(Coerced(v)) /\ Coerced(v).text = v.text
      BY <3>1 DEF Coerced, IsPlain, IsScalar
    <3> QED
      BY <3>2 DEF v
  <2> QED
    BY <2>3, <2>4, <2>5, <2>6
<1>7. ASSUME NEW k \in Routing, k \notin mine, k \in DOMAIN labels
      PROVE  IsPlain(out[k]) /\ out[k].text = Declared(q, n, k)
  <2> DEFINE v == Labels(q.doc, n)[k]
  <2>1. out[k] = Replaced(v, value)
    BY <1>4, <1>7
  <2>2. SettledLabel(q, v)
    BY <1>7 DEF SettledService, Labels
  <2>3. Label(q.doc.services[n], k) = v
    BY <1>7 DEF Label, Labels
  <2> HIDE DEF v
  <2>4. /\ IsPlain(Replaced(v, value))
        /\ Replaced(v, value).text = IF ContainsVariable(v) THEN VariableValue(q, v.token) ELSE v.text
    BY <2>2, SettledLabelFilled
  <2>5. Declared(q, n, k) = IF ContainsVariable(v) THEN VariableValue(q, v.token) ELSE v.text
    BY <1>5, <1>7, <2>3 DEF Declared, Binders
  <2> QED
    BY <2>1, <2>4, <2>5
<1>8. ASSUME NEW k \in Routing, k \notin mine, k \notin DOMAIN labels
      PROVE  k \notin DOMAIN out /\ Declared(q, n, k) = ""
  <2>1. Label(q.doc.services[n], k) = Blank
    BY <1>8 DEF Label, Labels
  <2>2. Declared(q, n, k) = ""
    <3>1. ~ContainsVariable(Blank) /\ Blank.text = ""
      BY DEF ContainsVariable, Blank, Text
    <3>2. {x \in DOMAIN q.doc.variables : <<n, k>> \in q.doc.variables[x].path} = {}
      BY <1>5, <1>8 DEF Binders
    <3> QED
      BY <2>1, <3>1, <3>2 DEF Declared
  <2> QED
    BY <1>4, <1>8, <2>2
<1>9. PlainLabels(out)
  BY <1>4, <1>6, <1>7 DEF PlainLabels
<1>10. \A k \in Routing : LabelText(out, k) = Declared(q, n, k)
  BY <1>4, <1>6, <1>7, <1>8 DEF LabelText
<1> QED
  BY <1>3, <1>4, <1>9, <1>10 DEF HasUsers

DeclaredDoc(q, e) ==
  \A n \in DOMAIN e.services, k \in Routing : LabelText(Labels(e, n), k) = Declared(q, n, k)

LEMMA VariablesApplied ==
  ASSUME NEW q, SettledDoc(q), NEW secret, NEW e \in ApplyVariables(q.doc, q.variables, secret)
  PROVE  Literal(e) /\ SameUsers(q.doc, e) /\ DeclaredDoc(q, e)
<1> DEFINE d == q.doc
           value == [x \in DOMAIN d.variables |->
                       CompiledValue(d.variables[x], x, q.variables, secret)]
           fill(v) == Replaced(v, value)
<1>1. /\ DocFields \subseteq DOMAIN d /\ SettledVariables(d)
      /\ \A n \in DOMAIN d.services : SettledService(q, n) /\ DOMAIN d.services[n] = ServiceFields
  BY DEF SettledDoc, SettledService
<1>2. CASE ~NeedsCompilation(d, q.variables)
  <2>1. e = d /\ ~d.declared
    BY <1>2 DEF ApplyVariables, NeedsCompilation
  <2>2. DOMAIN d.variables = {}
    BY <1>1, <2>1 DEF SettledVariables
  <2>3. ASSUME NEW n \in DOMAIN d.services, NEW k \in Routing
        PROVE  /\ k \in DOMAIN Labels(d, n) => IsPlain(Labels(d, n)[k])
               /\ LabelText(Labels(d, n), k) = Declared(q, n, k)
    <3>1. {x \in DOMAIN d.variables : <<n, k>> \in d.variables[x].path} = {}
      BY <2>2
    <3>2. Declared(q, n, k) = LET v == Label(d.services[n], k)
                              IN  IF ContainsVariable(v) THEN VariableValue(q, v.token) ELSE v.text
      BY <3>1 DEF Declared
    <3>3. CASE k \in DOMAIN Labels(d, n)
      <4> DEFINE v == Labels(d, n)[k]
      <4>1. SettledLabel(q, v)
        BY <1>1, <2>3, <3>3 DEF SettledService, Labels
      <4>2. Label(d.services[n], k) = v /\ LabelText(Labels(d, n), k) = v.text
        BY <3>3 DEF Label, LabelText, Labels
      <4> HIDE DEF v
      <4>3. IsPlain(v) /\ ~ContainsVariable(v)
        BY <2>2, <4>1 DEF SettledLabel, IsPlain, ContainsVariable
      <4> QED
        BY <3>2, <4>2, <4>3 DEF v
    <3>4. CASE k \notin DOMAIN Labels(d, n)
      <4>1. Label(d.services[n], k) = Blank /\ LabelText(Labels(d, n), k) = ""
        BY <3>4 DEF Label, LabelText, Labels
      <4>2. ~ContainsVariable(Blank) /\ Blank.text = ""
        BY DEF ContainsVariable, Blank, Text
      <4> QED
        BY <3>2, <3>4, <4>1, <4>2
    <3> QED
      BY <3>3, <3>4
  <2>4. Literal(d)
    BY <1>1, <2>2, <2>3 DEF Literal, PlainService, PlainLabels, Labels
  <2> QED
    BY <2>1, <2>3, <2>4 DEF SameUsers, DeclaredDoc
<1>3. CASE NeedsCompilation(d, q.variables)
  <2> DEFINE f == OverScalars(d, fill)
             g(n) == OverServiceScalars(d.services[n], fill)
  <2>1. PICK b \in PathWrites(f, value) : e = [b EXCEPT !.variables = <<>>, !.declared = FALSE]
    BY <1>3, Zenon DEF ApplyVariables
  <2>2. DOMAIN value = DOMAIN d.variables
    OBVIOUS
  <2>3. \A x \in DOMAIN value : Settled(q, x) =>
          IsPlain(value[x]) /\ ~IsBlank(value[x]) /\ value[x].text = VariableValue(q, x)
    BY SettledValue
  <2> HIDE DEF value
  <2>4. f = [d EXCEPT !.services = [n \in DOMAIN d.services |-> g(n)]]
    BY Zenon DEF OverScalars, OverServiceScalars, Each
  <2> HIDE DEF f
  <2>5. /\ DOMAIN f = DOMAIN d /\ f.variables = d.variables
        /\ DOMAIN f.services = DOMAIN d.services
        /\ \A n \in DOMAIN d.services : f.services[n] = g(n)
    <3> HIDE DEF g
    <3> QED
      BY <1>1, <2>4 DEF DocFields
  <2>6. ASSUME NEW n \in DOMAIN d.services
        PROVE  /\ DOMAIN f.services[n] = ServiceFields
               /\ DOMAIN f.services[n].labels = DOMAIN d.services[n].labels
               /\ \A k \in DOMAIN d.services[n].labels :
                    f.services[n].labels[k] = fill(d.services[n].labels[k])
    <3>1. f.services[n] = g(n) /\ DOMAIN d.services[n] = ServiceFields
      BY <1>1, <2>5, <2>6
    <3> QED
      BY <2>6, <3>1 DEF OverServiceScalars, Each, ServiceFields
  <2> HIDE DEF g
  <2> DEFINE slots == UNION {f.variables[x].path : x \in DOMAIN value}
             writers(p) == {x \in DOMAIN value : p \in f.variables[x].path}
             put(n, s, c) == [s EXCEPT !.labels =
               Updated(@, [k \in {p[2] : p \in {r \in slots : r[1] = n}} |-> Coerced(value[c[<<n, k>>]])])]
             written(n, c) == [f.services[n] EXCEPT !.labels = WrittenLabels(@, d, n, value, c)]
  <2>7. PICK c \in [Slots(d) -> DOMAIN value] :
          /\ \A p \in Slots(d) : p \in d.variables[c[p]].path
          /\ b = [f EXCEPT !.services = [n \in DOMAIN f.services |-> written(n, c)]]
    <3>1. PICK c \in {c \in [slots -> DOMAIN value] : \A p \in slots : c[p] \in writers(p)} :
            b = [f EXCEPT !.services = [n \in DOMAIN @ |-> put(n, @[n], c)]]
      BY <2>1, Zenon DEF PathWrites
    <3>2. slots = Slots(d)
      BY <2>2, <2>5 DEF Slots
    <3> HIDE DEF slots
    <3>3. \A n : put(n, f.services[n], c) = written(n, c)
      BY <3>2 DEF WrittenLabels
    <3> HIDE DEF put, written
    <3>4. [f EXCEPT !.services = [n \in DOMAIN @ |-> put(n, @[n], c)]]
            = [f EXCEPT !.services = [n \in DOMAIN f.services |-> written(n, c)]]
      BY <3>3
    <3> QED
      BY <2>5, <3>1, <3>2, <3>4
  <2>8. ASSUME NEW n \in DOMAIN d.services
        PROVE  /\ DOMAIN written(n, c) = ServiceFields
               /\ written(n, c).labels = WrittenLabels(f.services[n].labels, d, n, value, c)
    BY <2>6, <2>8 DEF ServiceFields
  <2>9. ASSUME NEW n \in DOMAIN d.services
        PROVE  /\ PlainLabels(written(n, c).labels)
               /\ HasUsers(written(n, c).labels) <=> HasUsers(Labels(d, n))
               /\ \A k \in Routing : LabelText(written(n, c).labels, k) = Declared(q, n, k)
    <3> DEFINE labels == f.services[n].labels
               out == WrittenLabels(labels, d, n, value, c)
    <3>1. DOMAIN labels = DOMAIN Labels(d, n) /\ \A k \in DOMAIN labels : labels[k] = fill(Labels(d, n)[k])
      BY <2>6, <2>9 DEF Labels
    <3>2. \A p \in Slots(d) : c[p] \in DOMAIN value /\ p \in d.variables[c[p]].path
      BY <2>7
    <3>3. SettledService(q, n) /\ SettledVariables(d)
      BY <1>1, <2>9
    <3> HIDE DEF labels
    <3>4. /\ PlainLabels(out)
          /\ HasUsers(out) <=> HasUsers(Labels(d, n))
          /\ \A k \in Routing : LabelText(out, k) = Declared(q, n, k)
      BY <2>2, <2>3, <2>9, <3>1, <3>2, <3>3, WrittenAt
    <3> QED
      BY <2>8, <2>9, <3>4 DEF labels
  <2> HIDE DEF written
  <2>10. /\ e.services = [n \in DOMAIN d.services |-> written(n, c)]
         /\ e.variables = <<>> /\ DocFields \subseteq DOMAIN e
    BY <1>1, <2>1, <2>5, <2>7 DEF DocFields
  <2>11. Literal(e)
    BY <2>8, <2>9, <2>10 DEF Literal, PlainService
  <2> QED
    BY <2>9, <2>10, <2>11 DEF SameUsers, DeclaredDoc, Labels
<1> QED
  BY <1>2, <1>3

LEMMA SubdomainsApplied ==
  ASSUME NEW q, NEW d, Literal(d), DeclaredDoc(q, d),
         \A n \in DOMAIN q.subdomains : IsPlain(q.subdomains[n]),
         NEW e, e = ApplyServiceSubdomains(d, q.subdomains)
  PROVE  Literal(e) /\ SameUsers(d, e) /\ RawDoc(e, q)
<1> DEFINE put(n) == IF n \in DOMAIN q.subdomains
                     THEN WithSubdomain(d.services[n], q.subdomains[n])
                     ELSE d.services[n]
<1>1. /\ DOMAIN e = DOMAIN d /\ e.variables = d.variables
      /\ DOMAIN e.services = DOMAIN d.services
      /\ \A n \in DOMAIN d.services : e.services[n] = put(n)
  <2>1. "services" \in DOMAIN d
    BY DEF Literal, DocFields
  <2> QED
    BY <2>1 DEF ApplyServiceSubdomains
<1>2. ASSUME NEW n \in DOMAIN d.services
      PROVE  /\ DOMAIN put(n) = ServiceFields
             /\ put(n).labels = IF n \in DOMAIN q.subdomains
                                THEN Updated(d.services[n].labels, Entry("subdomain", q.subdomains[n]))
                                ELSE d.services[n].labels
  <2>1. DOMAIN d.services[n] = ServiceFields
    BY <1>2 DEF Literal, PlainService
  <2> QED
    BY <2>1 DEF ServiceFields, WithSubdomain
<1> HIDE DEF put
<1>3. /\ DocFields \subseteq DOMAIN e /\ e.variables = d.variables
      /\ DOMAIN e.services = DOMAIN d.services
      /\ \A n \in DOMAIN d.services : e.services[n] = put(n)
  BY <1>1 DEF Literal
<1>4. ASSUME NEW n \in DOMAIN d.services
      PROVE  /\ PlainLabels(Labels(e, n)) /\ Raw(Labels(e, n), q, n)
             /\ HasUsers(Labels(e, n)) <=> HasUsers(Labels(d, n))
  <2> DEFINE labels == Labels(d, n)
             out == Labels(e, n)
  <2>1. PlainLabels(labels) /\ \A k \in Routing : LabelText(labels, k) = Declared(q, n, k)
    BY <1>4 DEF Literal, PlainService, Labels, DeclaredDoc
  <2>2. CASE n \notin DOMAIN q.subdomains
    <3>1. out = labels
      BY <1>2, <1>3, <1>4, <2>2 DEF Labels
    <3> QED
      BY <2>1, <2>2, <3>1 DEF Raw, Base
  <2>3. CASE n \in DOMAIN q.subdomains
    <3> DEFINE v == q.subdomains[n]
    <3>1. out = Updated(labels, Entry("subdomain", v))
      BY <1>2, <1>3, <1>4, <2>3 DEF Labels
    <3>2. IsPlain(v)
      BY <2>3
    <3> HIDE DEF out, labels, v
    <3>3. /\ DOMAIN out = DOMAIN labels \cup {"subdomain"} /\ out["subdomain"] = v
          /\ \A k \in DOMAIN labels \ {"subdomain"} : out[k] = labels[k]
      BY <3>1 DEF Updated, Entry
    <3>4. PlainLabels(out) /\ (HasUsers(out) <=> HasUsers(labels))
      BY <2>1, <3>2, <3>3 DEF PlainLabels, HasUsers
    <3>5. \A k \in Routing : LabelText(out, k) = IF k = "subdomain" THEN v.text ELSE Declared(q, n, k)
      BY <2>1, <3>3 DEF LabelText
    <3> QED
      BY <2>3, <3>4, <3>5 DEF Raw, Base, v, out, labels
  <2> QED
    BY <2>2, <2>3
<1>5. Literal(e)
  BY <1>2, <1>3, <1>4 DEF Literal, PlainService, Labels
<1> QED
  BY <1>3, <1>4, <1>5 DEF SameUsers, RawDoc

(***************************************************************************)
(* What a launch stores: its document as asked.                            *)
(***************************************************************************)
Launched(q, d) == Literal(d) /\ SameUsers(q.doc, d) /\ DoneDoc(d, q)

LEMMA LaunchedAsAsked ==
  ASSUME NEW q, SettledLaunch(q), NEW domain, NEW secret,
         NEW d \in LaunchCompose(q.doc, q, domain, secret)
  PROVE  Launched(q, d)
<1>1. PICK a \in ApplyVariables(q.doc, q.variables, secret) :
        \E b \in ApplyRootDomainToken(a, domain) :
          /\ ValidOverrides(b, q.subdomains, q.services)
          /\ d \in ApplyServiceOverrides(ApplyServiceSubdomains(b, q.subdomains), q.services)
  <2>1. d \in UNION {UNION {
               IF ValidOverrides(b, q.subdomains, q.services)
               THEN ApplyServiceOverrides(ApplyServiceSubdomains(b, q.subdomains), q.services)
               ELSE {} : b \in ApplyRootDomainToken(a, domain)}
             : a \in ApplyVariables(q.doc, q.variables, secret)}
    BY Zenon DEF LaunchCompose
  <2>2. PICK a \in ApplyVariables(q.doc, q.variables, secret) :
          d \in UNION {IF ValidOverrides(b, q.subdomains, q.services)
                      THEN ApplyServiceOverrides(ApplyServiceSubdomains(b, q.subdomains), q.services)
                      ELSE {} : b \in ApplyRootDomainToken(a, domain)}
    BY <2>1
  <2>3. PICK b \in ApplyRootDomainToken(a, domain) :
          d \in IF ValidOverrides(b, q.subdomains, q.services)
               THEN ApplyServiceOverrides(ApplyServiceSubdomains(b, q.subdomains), q.services) ELSE {}
    BY <2>2
  <2> QED
    BY <2>3
<1>2. PICK b \in ApplyRootDomainToken(a, domain) :
        /\ ValidOverrides(b, q.subdomains, q.services)
        /\ d \in ApplyServiceOverrides(ApplyServiceSubdomains(b, q.subdomains), q.services)
  BY <1>1
<1> DEFINE c == ApplyServiceSubdomains(b, q.subdomains)
<1>3. Literal(a) /\ SameUsers(q.doc, a) /\ DeclaredDoc(q, a)
  BY VariablesApplied DEF SettledLaunch
<1>4. SameRoutes(a, b)
  BY <1>3, RootDomainSame
<1>5. Literal(b) /\ SameUsers(a, b) /\ DeclaredDoc(q, b)
  <2>1. Literal(b) /\ \A n \in DOMAIN a.services, k \in Routing :
                        LabelText(Labels(b, n), k) = LabelText(Labels(a, n), k)
    BY <1>3, <1>4, SameRoutesLiteral DEF Labels
  <2>2. SameUsers(a, b)
    BY <1>4 DEF SameUsers, SameRoutes, SameServices, Labels
  <2> QED
    BY <1>3, <2>1, <2>2 DEF DeclaredDoc, SameUsers
<1>6. Literal(c) /\ SameUsers(b, c) /\ RawDoc(c, q)
  BY <1>5, SubdomainsApplied DEF SettledLaunch
<1>7. ValidServices(q.services)
  BY <1>2 DEF ValidOverrides, ValidServices, SettledLaunch
<1> HIDE DEF c
<1>8. Literal(d) /\ SameUsers(c, d) /\ DoneDoc(d, q)
  BY <1>2, <1>6, <1>7, OverridesDone DEF c
<1> QED
  BY <1>3, <1>5, <1>6, <1>8 DEF Launched, SameUsers

(***************************************************************************)
(* What is served is recorded with what was asked.                         *)
(***************************************************************************)
SameAsked(s, q) ==
  /\ s.doc = q.doc /\ s.variables = q.variables /\ s.subdomains = q.subdomains
  /\ s.services = q.services

LEMMA SameAskedDone ==
  ASSUME NEW s, NEW q, SameAsked(s, q), NEW d, DoneDoc(d, q)
  PROVE  DoneDoc(d, s)
<1>1. \A n : /\ Exposure(s, n) = Exposure(q, n)
             /\ Overrides(s, n) = Overrides(q, n)
  BY DEF SameAsked, Exposure, Overrides
<1>2. \A x : VariableValue(s, x) = VariableValue(q, x)
  BY DEF SameAsked, VariableValue
<1>3. \A n, k : Declared(s, n, k) = Declared(q, n, k)
  BY <1>2 DEF SameAsked, Declared
<1>4. \A n, nested, flat, k : Asked(s, n, nested, flat, k) = Asked(q, n, nested, flat, k)
  BY <1>1, <1>3 DEF SameAsked, Asked
<1>5. \A n : AskedPort(s, n) = AskedPort(q, n)
  <2> SUFFICES ASSUME NEW n PROVE AskedPort(s, n) = AskedPort(q, n)
    OBVIOUS
  <2>1. /\ Exposure(s, n) = Exposure(q, n)
        /\ Asked(s, n, "port", "exposure_port", "port") = Asked(q, n, "port", "exposure_port", "port")
    BY <1>1, <1>4
  <2> QED
    BY <2>1, Zenon DEF AskedPort
<1>6. \A n : Done(Labels(d, n), q, n) => Done(Labels(d, n), s, n)
  <2> SUFFICES ASSUME NEW n, Done(Labels(d, n), q, n) PROVE Done(Labels(d, n), s, n)
    OBVIOUS
  <2>1. /\ Exposure(s, n) = Exposure(q, n) /\ AskedPort(s, n) = AskedPort(q, n)
        /\ Asked(s, n, "subdomain", "subdomain", "subdomain")
             = Asked(q, n, "subdomain", "subdomain", "subdomain")
        /\ Asked(s, n, "visibility", "exposure_visibility", "visibility")
             = Asked(q, n, "visibility", "exposure_visibility", "visibility")
    BY <1>1, <1>4, <1>5
  <2> QED
    BY <2>1 DEF Done
<1> QED
  BY <1>6 DEF DoneDoc

(***************************************************************************)
(* A document that is its own description.                                 *)
(***************************************************************************)
LEMMA OwnWords ==
  ASSUME NEW s, s.subdomains = <<>>, Literal(s.doc)
  PROVE  RawDoc(s.doc, s)
<1>1. ASSUME NEW n \in DOMAIN s.doc.services, NEW k \in Routing
      PROVE  LabelText(Labels(s.doc, n), k) = Base(s, n, k)
  <2> DEFINE v == Label(s.doc.services[n], k)
  <2>1. IsPlain(v) /\ v.text = LabelText(Labels(s.doc, n), k)
    BY <1>1, LabelIsText DEF Literal, PlainService, Labels
  <2>2. {x \in DOMAIN s.doc.variables : <<n, k>> \in s.doc.variables[x].path} = {}
    BY <1>1 DEF Literal
  <2>3. Declared(s, n, k) = IF ContainsVariable(v) THEN VariableValue(s, v.token) ELSE v.text
    BY <2>2 DEF Declared
  <2> HIDE DEF v
  <2>4. Declared(s, n, k) = v.text
    BY <2>1, <2>3 DEF IsPlain, ContainsVariable
  <2> QED
    BY <2>1, <2>4 DEF Base
<1> QED
  BY <1>1 DEF RawDoc, Raw

-----------------------------------------------------------------------------
LEMMA DeployedAsAsked ==
  ASSUME NEW s, PlainOverrides(s.services), NEW env, NoToken \notin DOMAIN env,
         NEW d, Literal(d), SameUsers(s.doc, d), RawDoc(d, s) \/ DoneDoc(d, s),
         NEW e \in EffectiveCompose(d, env, s.services),
         s.runtime \in RuntimeCompose(e, s.services, Domain, "generated"),
         NEW n \in DOMAIN s.runtime
  PROVE  AsAsked(s, n)
<1>1. e \in PlaygroundCompose(d, env, s.services)
  BY DEF EffectiveCompose
<1>2. Literal(e) /\ SameUsers(d, e) /\ DoneDoc(e, s) /\ ValidServices(s.services)
  BY <1>1, PlaygroundDone
<1>3. \A m \in DOMAIN e.services : HasUsers(Labels(e, m)) <=> OwnAuth(s, m)
  BY <1>2 DEF SameUsers, OwnAuth, HasUsers, Labels
<1> QED
  BY <1>2, <1>3, RoutedAsAsked

(***************************************************************************)
(* The invariant of routes: every stored document is literal; what thread  *)
(* t is about to deploy or save is literal too, what it computed for its   *)
(* launch is what the launch asks, and its request is of the kind that     *)
(* comes to this point.                                                    *)
(***************************************************************************)
Words == \A i \in DOMAIN playspecs : Literal(playspecs[i].doc)

ToDeploy == {"lookup", "insert", "again", "deploy"}

Computed == {"create_playspec", "replay_playspec", "create_prop", "replay_prop", "load"} \cup ToDeploy

Minded == Computed \cup {"resolve", "new_playspec", "find_playspec", "save_playspec"}

Minds(t) ==
  /\ pc[t] # "idle" => req[t] \in Requests
  /\ pc[t] \in ToDeploy \cup {"save_playspec"} => Literal(ps[t].row.doc)
  /\ pc[t] \in Computed /\ req[t].kind = "launch" => Launched(req[t], doc[t])
  /\ pc[t] \in ToDeploy \cup {"load"} => req[t].kind \in {"launch", "create_playground"}
  /\ pc[t] = "resolve" => req[t].kind = "create_playground"
  /\ pc[t] = "new_playspec" => req[t].kind = "create_playspec"
  /\ pc[t] = "find_playspec" => req[t].kind \in {"update_playspec", "delete_playspec"}

AInv ==
  /\ RInv
  /\ DOMAIN doc = Threads
  /\ Words
  /\ ServedAsAsked
  /\ \A t \in Threads : Minds(t)

LEMMA InitAInv == Init => AInv
<1> SUFFICES ASSUME Init PROVE AInv
  OBVIOUS
<1>1. RInv
  BY InitRInv
<1>2. DOMAIN doc = Threads /\ Words /\ ServedAsAsked
  BY DEF Init, Words, ServedAsAsked, Empty
<1>3. \A t \in Threads : Minds(t)
  BY DEF Init, Minds, ToDeploy, Computed
<1> QED
  BY <1>1, <1>2, <1>3 DEF AInv

OnlyBy(t) ==
  /\ DOMAIN doc' = DOMAIN doc
  /\ \A u \in Threads \ {t} :
       pc'[u] = pc[u] /\ req'[u] = req[u] /\ ps'[u] = ps[u] /\ doc'[u] = doc[u]

LEMMA MindedStep ==
  ASSUME AInv, NEW t \in Threads, RInv', OnlyBy(t), Words', ServedAsAsked', Minds(t)'
  PROVE  AInv'
<1>1. ASSUME NEW u \in Threads, u # t PROVE Minds(u)'
  <2>1. /\ Minds(u) /\ pc'[u] = pc[u] /\ req'[u] = req[u] /\ ps'[u] = ps[u] /\ doc'[u] = doc[u]
    BY <1>1 DEF AInv, OnlyBy
  <2> QED
    BY <2>1 DEF Minds
<1> QED
  BY <1>1 DEF AInv, OnlyBy

LEMMA NothingServed ==
  ASSUME AInv, UNCHANGED served
  PROVE  ServedAsAsked'
BY DEF AInv, ServedAsAsked

(***************************************************************************)
(* A step that only goes on, to a point where nothing is minded or to one  *)
(* where no more is minded than before.                                    *)
(***************************************************************************)
LEMMA WalkingStep ==
  ASSUME AInv, NEW t \in Threads, RInv', UNCHANGED <<req, doc, ps, served>>, pc[t] # "idle",
         \A i \in DOMAIN playspecs' : i \in DOMAIN playspecs /\ playspecs'[i] = playspecs[i],
         NEW point, pc' = [pc EXCEPT ![t] = point],
         \/ point \notin Minded
         \/ point \in Computed \ ToDeploy /\ pc[t] \in Computed /\ req[t].kind = "launch"
         \/ point \in ToDeploy /\ pc[t] \in ToDeploy
  PROVE  AInv'
<1>1. OnlyBy(t) /\ pc'[t] = point
  BY DEF OnlyBy, AInv, RInv, Locals
<1>2. Words'
  BY DEF AInv, Words
<1>3. Minds(t)'
  <2>1. Minds(t)
    BY DEF AInv
  <2> QED
    BY <2>1, <1>1 DEF Minds, Minded, Computed, ToDeploy
<1> QED
  BY <1>1, <1>2, <1>3, MindedStep, NothingServed

LEMMA PropStepMinds ==
  ASSUME AInv, NEW t \in Threads, RInv', PropStep(t)
  PROVE  AInv'
<1>1. UNCHANGED <<playspecs, served, req, doc, ps>> /\ pc[t] # "idle"
  BY DEF PropStep, CreateProp, FindProp, ApplyPropUpdate, FetchMetadata, MergeMetadata, SaveProp,
         FindReferences, DeleteProp, tables, locals
<1>2. \E point \in {"idle", "reload", "references", "fetch", "save_prop", "delete_prop"} :
        pc' = [pc EXCEPT ![t] = point]
  BY DEF PropStep, CreateProp, FindProp, ApplyPropUpdate, FetchMetadata, MergeMetadata, SaveProp,
         FindReferences, DeleteProp, Goto, Answer, Refuse
<1> QED
  BY <1>1, <1>2, WalkingStep DEF Minded, Computed, ToDeploy

LEMMA ReceiveMinds ==
  ASSUME AInv, NEW t \in Threads, RInv', Receive(t)
  PROVE  AInv'
<1>1. PICK q \in Requests : /\ req' = [req EXCEPT ![t] = q]
                            /\ pc' = [pc EXCEPT ![t] = FirstPoint(q.kind)]
  BY DEF Receive
<1>2. /\ DOMAIN pc = Threads /\ DOMAIN req = Threads /\ DOMAIN ps = Threads /\ DOMAIN doc = Threads
      /\ doc' = [doc EXCEPT ![t] = None] /\ ps' = [ps EXCEPT ![t] = None]
      /\ UNCHANGED <<playspecs, served>>
  BY DEF Receive, AInv, RInv, Locals, tables
<1>3. OnlyBy(t) /\ pc'[t] = FirstPoint(q.kind) /\ req'[t] = q
  BY <1>1, <1>2 DEF OnlyBy
<1>4. Minds(t)'
  BY <1>3, ResourcesAssumption DEF Minds, FirstPoint, Computed, ToDeploy
<1>5. Words'
  BY <1>2 DEF AInv, Words
<1> QED
  BY <1>2, <1>3, <1>4, <1>5, MindedStep, NothingServed

(***************************************************************************)
(* Where a launch is what it asks.                                         *)
(***************************************************************************)
LEMMA PrepareLaunchMinds ==
  ASSUME AInv, PlainRequestsOnly, NEW t \in Threads, RInv', PrepareLaunch(t)
  PROVE  AInv'
<1>1. /\ pc[t] = "prepare" /\ req[t].kind = "launch" /\ req[t] \in Requests
      /\ UNCHANGED <<playspecs, served, req, ps>>
  BY Standing DEF PrepareLaunch, AInv, Minds, Carries, Launching, tables
<1>2. CASE Refuse(t) /\ UNCHANGED doc
  BY <1>1, <1>2, WalkingStep DEF Refuse, Answer, Minded, Computed, ToDeploy
<1>3. CASE /\ \E d \in UNION {LaunchCompose(req[t].doc, req[t], Domain, s) : s \in Secrets} :
                doc' = [doc EXCEPT ![t] = d]
           /\ Goto(t, "create_playspec")
  <2>1. PICK s \in Secrets : \E d \in LaunchCompose(req[t].doc, req[t], Domain, s) :
                               doc' = [doc EXCEPT ![t] = d]
    BY <1>3
  <2>2. PICK d \in LaunchCompose(req[t].doc, req[t], Domain, s) : doc' = [doc EXCEPT ![t] = d]
    BY <2>1
  <2>3. Launched(req[t], d)
    BY <1>1, LaunchedAsAsked DEF PlainRequestsOnly, PlainRequest
  <2>4. /\ OnlyBy(t) /\ pc'[t] = "create_playspec" /\ doc'[t] = d /\ req'[t] = req[t]
    BY <1>1, <1>3, <2>2 DEF OnlyBy, AInv, RInv, Locals, Goto
  <2>5. Minds(t)'
    BY <1>1, <2>3, <2>4 DEF Minds, Computed, ToDeploy
  <2>6. Words'
    BY <1>1 DEF AInv, Words
  <2> QED
    BY <1>1, <2>4, <2>5, <2>6, MindedStep, NothingServed
<1> QED
  BY <1>2, <1>3 DEF PrepareLaunch

LEMMA CreateLaunchPlayspecMinds ==
  ASSUME AInv, NEW t \in Threads, RInv', CreateLaunchPlayspec(t)
  PROVE  AInv'
<1> DEFINE row == [name |-> req[t].name, doc |-> doc[t]]
<1>1. /\ pc[t] = "create_playspec" /\ req[t].kind = "launch" /\ req[t] \in Requests
      /\ Launched(req[t], doc[t]) /\ UNCHANGED <<served, req, doc>>
  BY Standing DEF CreateLaunchPlayspec, AInv, Minds, Carries, Launching, Computed
<1>2. PICK point \in {"idle", "replay_playspec", "create_prop", "load"} :
        pc' = [pc EXCEPT ![t] = point]
  BY DEF CreateLaunchPlayspec, Continue, AfterPlayspec, Goto, Answer, Refuse
<1>3. \/ playspecs' = playspecs
      \/ playspecs' = Having(playspecs, ids.playspec, row)
  BY DEF CreateLaunchPlayspec, InsertPlayspec
<1>4. ps' = ps \/ \E v : ps' = [ps EXCEPT ![t] = v]
  BY DEF CreateLaunchPlayspec
<1>5. OnlyBy(t) /\ pc'[t] = point /\ req'[t] = req[t] /\ doc'[t] = doc[t]
  BY <1>1, <1>2, <1>4 DEF OnlyBy, AInv, RInv, Locals
<1>6. Words'
  BY <1>1, <1>3 DEF Launched, AInv, Words, Having
<1>7. Minds(t)'
  BY <1>1, <1>5 DEF Minds, Computed, ToDeploy
<1> QED
  BY <1>1, <1>5, <1>6, <1>7, MindedStep, NothingServed

LEMMA ReplayLaunchPlayspecMinds ==
  ASSUME AInv, NEW t \in Threads, RInv', ReplayLaunchPlayspec(t)
  PROVE  AInv'
<1>1. /\ pc[t] = "replay_playspec" /\ req[t].kind = "launch" /\ req[t] \in Requests
      /\ Launched(req[t], doc[t]) /\ UNCHANGED <<playspecs, served, req, doc>>
  BY Standing DEF ReplayLaunchPlayspec, AInv, Minds, Carries, Launching, Computed, tables
<1>2. PICK point \in {"idle", "create_prop", "load"} : pc' = [pc EXCEPT ![t] = point]
  BY DEF ReplayLaunchPlayspec, Continue, AfterPlayspec, Goto, Answer, Refuse
<1>3. ps' = ps \/ \E v : ps' = [ps EXCEPT ![t] = v]
  BY DEF ReplayLaunchPlayspec
<1>4. OnlyBy(t) /\ pc'[t] = point /\ req'[t] = req[t] /\ doc'[t] = doc[t]
  BY <1>1, <1>2, <1>3 DEF OnlyBy, AInv, RInv, Locals
<1>5. Words'
  BY <1>1 DEF AInv, Words
<1>6. Minds(t)'
  BY <1>1, <1>4 DEF Minds, Computed, ToDeploy
<1> QED
  BY <1>1, <1>4, <1>5, <1>6, MindedStep, NothingServed

LEMMA LaunchStepMinds ==
  ASSUME AInv, NEW t \in Threads, RInv',
         \/ CreateLaunchProp(t) \/ ReplayLaunchProp(t)
         \/ CleanupLaunchPlayspec(t) \/ CleanupLaunchProps(t)
  PROVE  AInv'
<1>1. UNCHANGED <<served, req, doc, ps>> /\ pc[t] # "idle"
  BY DEF CreateLaunchProp, ReplayLaunchProp, CleanupLaunchPlayspec, CleanupLaunchProps, locals
<1>2. \A i \in DOMAIN playspecs' : i \in DOMAIN playspecs /\ playspecs'[i] = playspecs[i]
  BY DEF CreateLaunchProp, ReplayLaunchProp, CleanupLaunchPlayspec, CleanupLaunchProps, tables,
         DeletePlayspecs, Without
<1>3. pc[t] \in {"create_prop", "replay_prop"} => pc[t] \in Computed /\ req[t].kind = "launch"
  BY Standing DEF AInv, Carries, Launching, Computed
<1>4. \/ \E point \in {"idle", "cleanup", "cleanup_props"} : pc' = [pc EXCEPT ![t] = point]
      \/ /\ pc[t] \in {"create_prop", "replay_prop"}
         /\ \E point \in {"replay_prop", "load"} : pc' = [pc EXCEPT ![t] = point]
  BY DEF CreateLaunchProp, ReplayLaunchProp, CleanupLaunchPlayspec, CleanupLaunchProps,
         Continue, AfterProp, Goto, Answer, Refuse
<1> QED
  BY <1>1, <1>2, <1>3, <1>4, WalkingStep DEF Minded, Computed, ToDeploy

LEMMA ResolvePlayspecMinds ==
  ASSUME AInv, NEW t \in Threads, RInv', ResolvePlayspec(t) \/ LoadPlayspec(t)
  PROVE  AInv'
<1>1. /\ pc[t] \in {"resolve", "load"} /\ req[t] \in Requests /\ Minds(t)
      /\ UNCHANGED <<playspecs, served, req, doc>>
  BY DEF ResolvePlayspec, LoadPlayspec, AInv, Minds, tables
<1>2. \/ \E point \in {"idle", "cleanup"} : pc' = [pc EXCEPT ![t] = point]
      \/ /\ pc[t] = "resolve"
         /\ pc' = [pc EXCEPT ![t] = "load"]
      \/ /\ pc[t] = "load"
         /\ \E i \in DOMAIN playspecs : ps' = [ps EXCEPT ![t] = Found(playspecs, i)]
         /\ pc' = [pc EXCEPT ![t] = "lookup"]
  BY DEF ResolvePlayspec, LoadPlayspec, FailPlayground, Goto, Answer, Refuse
<1>3. ps' = ps \/ \E v : ps' = [ps EXCEPT ![t] = v]
  BY DEF ResolvePlayspec, LoadPlayspec
<1>4. OnlyBy(t) /\ req'[t] = req[t] /\ doc'[t] = doc[t] /\ DOMAIN ps = Threads /\ DOMAIN pc = Threads
  BY <1>1, <1>2, <1>3 DEF OnlyBy, AInv, RInv, Locals
<1>5. Words'
  BY <1>1 DEF AInv, Words
<1>6. pc'[t] = "lookup" => Literal(ps'[t].row.doc) /\ pc[t] = "load"
  BY <1>2, <1>4 DEF Found, AInv, Words
<1>7. pc'[t] \in {"idle", "cleanup", "load", "lookup"} /\ (pc'[t] = "load" => pc[t] = "resolve")
  BY <1>2, <1>4
<1>8. Minds(t)'
  BY <1>1, <1>4, <1>6, <1>7 DEF Minds, Computed, ToDeploy
<1> QED
  BY <1>1, <1>4, <1>5, <1>8, MindedStep, NothingServed

LEMMA PlaygroundStepMinds ==
  ASSUME AInv, NEW t \in Threads, RInv',
         \/ LookupPlayground(t) \/ InsertPlayground(t) \/ LookupAgain(t) \/ DeletePlayground(t)
  PROVE  AInv'
<1>1. UNCHANGED <<playspecs, served, req, doc, ps>> /\ pc[t] # "idle"
  BY DEF LookupPlayground, InsertPlayground, LookupAgain, DeletePlayground, locals, tables
<1>2. \/ \E point \in {"idle", "cleanup"} : pc' = [pc EXCEPT ![t] = point]
      \/ /\ pc[t] \in {"lookup", "insert"}
         /\ \E point \in {"insert", "again", "deploy"} : pc' = [pc EXCEPT ![t] = point]
  BY DEF LookupPlayground, InsertPlayground, LookupAgain, DeletePlayground, FailPlayground,
         Goto, Answer, Refuse
<1> QED
  BY <1>1, <1>2, WalkingStep DEF Minded, Computed, ToDeploy

(***************************************************************************)
(* What is deployed is what the launch asked, when the Playspec is what it *)
(* computed, and what the Playspec and the overrides say otherwise.        *)
(***************************************************************************)
LEMMA DeployMinds ==
  ASSUME AInv, PlainRequestsOnly, NEW t \in Threads, RInv', Deploy(t)
  PROVE  AInv'
<1> DEFINE q == req[t]
           stored == ps[t].row.doc
           own == q.kind = "launch" /\ stored = doc[t]
           rec(r) == [doc |-> IF own THEN q.doc ELSE stored,
                      variables |-> IF own THEN q.variables ELSE <<>>,
                      subdomains |-> IF own THEN q.subdomains ELSE <<>>,
                      services |-> q.services, runtime |-> r]
<1>1. PICK e \in EffectiveCompose(stored, q.env, q.services) :
        \E r \in RuntimeCompose(e, q.services, Domain, "generated") :
          served' = Having(served, made[t].playground, rec(r))
  BY DEF Deploy, Usable
<1>2. PICK r \in RuntimeCompose(e, q.services, Domain, "generated") :
        served' = Having(served, made[t].playground, rec(r))
  BY <1>1
<1> DEFINE s == rec(r)
<1>3. /\ s.doc = IF own THEN q.doc ELSE stored
      /\ s.variables = IF own THEN q.variables ELSE <<>>
      /\ s.subdomains = IF own THEN q.subdomains ELSE <<>>
      /\ s.services = q.services /\ s.runtime = r
  OBVIOUS
<1> HIDE DEF s
<1>4. /\ pc[t] = "deploy" /\ q \in Requests /\ q.kind \in {"launch", "create_playground"}
      /\ Literal(stored) /\ (q.kind = "launch" => Launched(q, doc[t]))
      /\ PlainOverrides(q.services) /\ NoToken \notin DOMAIN q.env
  BY DEF Deploy, AInv, Minds, ToDeploy, Computed, PlainRequestsOnly, PlainRequest, SettledLaunch
<1>5. SameUsers(s.doc, stored) /\ (RawDoc(stored, s) \/ DoneDoc(stored, s))
  <2>1. CASE own
    <3>1. Launched(q, stored)
      BY <1>4, <2>1
    <3>2. SameAsked(s, q)
      BY <1>3, <2>1 DEF SameAsked
    <3> QED
      BY <1>3, <2>1, <3>1, <3>2, SameAskedDone DEF Launched
  <2>2. CASE ~own
    <3>1. s.doc = stored /\ s.subdomains = <<>>
      BY <1>3, <2>2
    <3> HIDE DEF own, stored
    <3>2. RawDoc(s.doc, s)
      BY <1>4, <3>1, OwnWords
    <3> QED
      BY <3>1, <3>2 DEF SameUsers
  <2> QED
    BY <2>1, <2>2
<1>6. ASSUME NEW n \in DOMAIN s.runtime PROVE AsAsked(s, n)
  <2> DEFINE env == q.env
  <2>1. /\ PlainOverrides(s.services) /\ NoToken \notin DOMAIN env /\ Literal(stored)
        /\ e \in EffectiveCompose(stored, env, s.services)
        /\ s.runtime \in RuntimeCompose(e, s.services, Domain, "generated")
    BY <1>2, <1>3, <1>4
  <2> HIDE DEF env, stored, q
  <2> QED
    BY <1>5, <1>6, <2>1, DeployedAsAsked
<1>7. ServedAsAsked'
  <2>1. served' = Having(served, made[t].playground, s)
    BY <1>2 DEF s
  <2>2. \A g \in DOMAIN served' : served'[g] = s \/ (g \in DOMAIN served /\ served'[g] = served[g])
    BY <2>1 DEF Having
  <2>3. \A g \in DOMAIN served' : \A n \in DOMAIN served'[g].runtime : AsAsked(served'[g], n)
    BY <1>6, <2>2 DEF AInv, ServedAsAsked
  <2> QED
    BY <2>3 DEF ServedAsAsked
<1> HIDE DEF q, stored
<1>8. UNCHANGED <<playspecs, req, doc, ps>> /\ pc' = [pc EXCEPT ![t] = "idle"]
  BY DEF Deploy, Answer, tables, locals
<1>9. OnlyBy(t) /\ pc'[t] = "idle"
  BY <1>8 DEF OnlyBy, AInv, RInv, Locals
<1>10. Words' /\ Minds(t)'
  BY <1>8, <1>9 DEF AInv, Words, Minds, Computed, ToDeploy
<1> QED
  BY <1>7, <1>9, <1>10, MindedStep

LEMMA StoredLiteral ==
  ASSUME NEW base, Literal(base), NEW metadata, PlainOverrides(metadata),
         NEW d \in Stored(base, metadata)
  PROVE  Literal(d)
<1>1. d = base \/ d \in ApplyServiceOverrides(base, metadata)
  BY DEF Stored, ApplyPlayspecServices
<1> QED
  BY <1>1, ServicesOverridden

LEMMA CreatePlayspecMinds ==
  ASSUME AInv, PlainRequestsOnly, NEW t \in Threads, RInv', CreatePlayspec(t)
  PROVE  AInv'
<1>1. /\ pc[t] = "new_playspec" /\ UNCHANGED <<served, req, doc, ps>>
      /\ pc' = [pc EXCEPT ![t] = "idle"]
  BY DEF CreatePlayspec, Answer, Refuse, locals
<1>2. Literal(req[t].doc) /\ PlainOverrides(req[t].metadata)
  BY <1>1 DEF AInv, Minds, PlainRequestsOnly, PlainRequest
<1>3. \/ playspecs' = playspecs
      \/ \E d \in Stored(req[t].doc, req[t].metadata) :
           playspecs' = Having(playspecs, ids.playspec, [name |-> req[t].name, doc |-> d])
  BY DEF CreatePlayspec, InsertPlayspec
<1>4. Words'
  <2>1. CASE playspecs' = playspecs
    BY <2>1 DEF AInv, Words
  <2>2. ASSUME NEW d \in Stored(req[t].doc, req[t].metadata),
               playspecs' = Having(playspecs, ids.playspec, [name |-> req[t].name, doc |-> d])
        PROVE  Words'
    <3>1. Literal(d)
      BY <1>2, StoredLiteral
    <3> QED
      BY <2>2, <3>1 DEF AInv, Words, Having
  <2> QED
    BY <1>3, <2>1, <2>2
<1>5. OnlyBy(t) /\ Minds(t)'
  BY <1>1 DEF OnlyBy, AInv, RInv, Locals, Minds, Computed, ToDeploy
<1> QED
  BY <1>1, <1>4, <1>5, MindedStep, NothingServed

LEMMA ApplyPlayspecUpdateMinds ==
  ASSUME AInv, PlainRequestsOnly, NEW t \in Threads, RInv', ApplyPlayspecUpdate(t)
  PROVE  AInv'
<1> DEFINE i == ps[t].id
           base == IF req[t].doc # None THEN req[t].doc ELSE playspecs[i].doc
           docs == IF i \notin DOMAIN playspecs THEN {}
                   ELSE IF req[t].doc = None /\ req[t].metadata = <<>> THEN {playspecs[i].doc}
                   ELSE Stored(base, req[t].metadata)
           name == IF req[t].name # None THEN req[t].name ELSE playspecs[i].name
<1>1. /\ pc[t] = "reload" /\ req[t].kind = "update_playspec" /\ req[t] \in Requests
      /\ UNCHANGED <<playspecs, served, req, doc>>
  BY DEF ApplyPlayspecUpdate, AInv, Minds, tables
<1>2. CASE Refuse(t) /\ UNCHANGED ps
  BY <1>1, <1>2, WalkingStep DEF Refuse, Answer, Minded, Computed, ToDeploy
<1>3. CASE /\ \E d \in docs : ps' = [ps EXCEPT ![t] = [id |-> @.id, row |-> [name |-> name, doc |-> d]]]
           /\ Goto(t, "save_playspec")
  <2>1. PICK d \in docs : ps' = [ps EXCEPT ![t] = [id |-> @.id, row |-> [name |-> name, doc |-> d]]]
    BY <1>3
  <2>2. Literal(d)
    <3>1. i \in DOMAIN playspecs /\ Literal(playspecs[i].doc)
      BY <2>1 DEF AInv, Words
    <3>2. Literal(base) /\ PlainOverrides(req[t].metadata)
      BY <1>1, <3>1 DEF PlainRequestsOnly, PlainRequest
    <3>3. d = playspecs[i].doc \/ d \in Stored(base, req[t].metadata)
      BY <2>1
    <3> QED
      BY <3>1, <3>2, <3>3, StoredLiteral
  <2>3. OnlyBy(t) /\ pc'[t] = "save_playspec" /\ ps'[t].row.doc = d /\ req'[t] = req[t]
    BY <1>1, <1>3, <2>1 DEF OnlyBy, AInv, RInv, Locals, Goto
  <2>4. Minds(t)' /\ Words'
    BY <1>1, <2>2, <2>3 DEF Minds, Computed, ToDeploy, AInv, Words
  <2> QED
    BY <1>1, <2>3, <2>4, MindedStep, NothingServed
<1> QED
  BY <1>2, <1>3 DEF ApplyPlayspecUpdate

LEMMA PlayspecStepMinds ==
  ASSUME AInv, NEW t \in Threads, RInv', CountPlaygrounds(t) \/ DeletePlayspec(t)
  PROVE  AInv'
<1>1. UNCHANGED <<served, req, doc, ps>> /\ pc[t] # "idle"
  BY DEF CountPlaygrounds, DeletePlayspec, locals
<1>2. \A i \in DOMAIN playspecs' : i \in DOMAIN playspecs /\ playspecs'[i] = playspecs[i]
  BY DEF CountPlaygrounds, DeletePlayspec, tables, DeletePlayspecs, Without
<1>3. \E point \in {"idle", "delete_playspec"} : pc' = [pc EXCEPT ![t] = point]
  BY DEF CountPlaygrounds, DeletePlayspec, Goto, Answer, Refuse
<1> QED
  BY <1>1, <1>2, <1>3, WalkingStep DEF Minded, Computed, ToDeploy

LEMMA FindPlayspecMinds ==
  ASSUME AInv, NEW t \in Threads, RInv', FindPlayspec(t)
  PROVE  AInv'
<1>1. /\ pc[t] = "find_playspec" /\ req[t] \in Requests
      /\ UNCHANGED <<playspecs, served, req, doc>>
  BY DEF FindPlayspec, AInv, Minds, tables
<1>2. PICK point \in {"idle", "reload", "count"} : pc' = [pc EXCEPT ![t] = point]
  BY DEF FindPlayspec, Goto, Answer, Refuse
<1>3. ps' = ps \/ \E v : ps' = [ps EXCEPT ![t] = v]
  BY DEF FindPlayspec
<1>4. OnlyBy(t) /\ pc'[t] = point /\ req'[t] = req[t]
  BY <1>1, <1>2, <1>3 DEF OnlyBy, AInv, RInv, Locals
<1>5. Minds(t)' /\ Words'
  BY <1>1, <1>4 DEF Minds, Computed, ToDeploy, AInv, Words
<1> QED
  BY <1>1, <1>4, <1>5, MindedStep, NothingServed

LEMMA SavePlayspecMinds ==
  ASSUME AInv, NEW t \in Threads, RInv', SavePlayspec(t)
  PROVE  AInv'
<1>1. /\ pc[t] = "save_playspec" /\ UNCHANGED <<served, req, doc, ps>>
      /\ pc' = [pc EXCEPT ![t] = "idle"]
  BY DEF SavePlayspec, Answer, Refuse, locals
<1>2. playspecs' = playspecs \/ playspecs' = [playspecs EXCEPT ![ps[t].id] = ps[t].row]
  BY DEF SavePlayspec
<1>3. Literal(ps[t].row.doc)
  BY <1>1 DEF AInv, Minds
<1>4. Words'
  BY <1>2, <1>3 DEF AInv, Words
<1>5. OnlyBy(t) /\ Minds(t)'
  BY <1>1 DEF OnlyBy, AInv, RInv, Locals, Minds, Computed, ToDeploy
<1> QED
  BY <1>1, <1>4, <1>5, MindedStep, NothingServed

-----------------------------------------------------------------------------
LEMMA NextAInv ==
  ASSUME AInv, PlainRequestsOnly, [Next]_vars
  PROVE  AInv'
<1>0. RInv'
  BY NextRInv DEF AInv
<1>1. CASE UNCHANGED vars
  BY <1>0, <1>1, NothingServed DEF AInv, Words, Minds, vars, tables, locals
<1>2. ASSUME NEW t \in Threads, Receive(t) PROVE AInv'
  BY <1>0, <1>2, ReceiveMinds
<1>3. ASSUME NEW t \in Threads, Launch(t) PROVE AInv'
  BY <1>0, <1>3, PrepareLaunchMinds, CreateLaunchPlayspecMinds, ReplayLaunchPlayspecMinds,
     LaunchStepMinds DEF Launch
<1>4. ASSUME NEW t \in Threads, PlaygroundStep(t) PROVE AInv'
  BY <1>0, <1>4, ResolvePlayspecMinds, PlaygroundStepMinds, DeployMinds DEF PlaygroundStep
<1>5. ASSUME NEW t \in Threads, PlayspecStep(t) PROVE AInv'
  BY <1>0, <1>5, CreatePlayspecMinds, FindPlayspecMinds, ApplyPlayspecUpdateMinds,
     SavePlayspecMinds, PlayspecStepMinds DEF PlayspecStep
<1>6. ASSUME NEW t \in Threads, PropStep(t) PROVE AInv'
  BY <1>0, <1>6, PropStepMinds
<1> QED
  BY <1>1, <1>2, <1>3, <1>4, <1>5, <1>6 DEF Next

(***************************************************************************)
(* However requests interleave, and whatever is stored, replayed, changed  *)
(* or deleted between a launch and its deployment, a service is routed     *)
(* exactly when that was asked, under the host asked, behind a password    *)
(* exactly when it is internal and brings no users, and never by a port of *)
(* the host.                                                               *)
(***************************************************************************)
THEOREM ServicesAreServedAsAsked ==
  ASSUME PlainRequestsOnly
  PROVE  Spec => []ServedAsAsked
<1>1. PlainRequestsOnly
  OBVIOUS
<1>2. AInv /\ [Next]_vars => AInv'
  BY <1>1, NextAInv
<1>3. AInv => ServedAsAsked
  BY DEF AInv
<1> QED
  BY InitAInv, <1>2, <1>3, PTL DEF Spec
=============================================================================
