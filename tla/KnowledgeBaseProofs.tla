------------------------ MODULE KnowledgeBaseProofs ------------------------
(***************************************************************************)
(* KnowledgeBase for any number of files, calls and edits.  The argument   *)
(* for the mirror follows one undisturbed call: nothing else is running    *)
(* (Sole), what it listed is still what is there (Listed), and each stage  *)
(* of it has brought the rows one step closer (Progress).                  *)
(***************************************************************************)
EXTENDS KnowledgeBase, TLAPS

USE KBAssumption

----------------------------------------------------------------------------
(* The shapes of a call.                                                   *)
LEMMA IdleIsACall == Idle \in CallStates /\ ~ Idle.alone /\ Idle.stage = "idle"
  BY DEF Idle, CallStates, Stages, Running

LEMMA ChangedCalls ==
  ASSUME NEW call \in CallStates
  PROVE  /\ Disturbed(call) \in CallStates /\ ~ Disturbed(call).alone
         /\ Returned(call) \in CallStates
         /\ \A todo \in SUBSET Paths : Onward(call, todo) \in CallStates
  BY IdleIsACall DEF CallStates, Disturbed, Returned, Onward, Stages, Running

LEMMA MovesType ==
  ASSUME KBTypeOK, NEW c \in Calls, NEW call \in CallStates, Moves(c, call)
  PROVE  /\ calls' \in [Calls -> CallStates]
         /\ calls'[c] = call
         /\ \A o \in Calls \ {c} : calls'[o] = calls[o]
  BY DEF KBTypeOK, Moves

LEMMA StartsType ==
  ASSUME KBTypeOK, NEW c \in Calls, NEW call \in CallStates, Starts(c, call)
  PROVE  /\ calls' \in [Calls -> CallStates]
         /\ served' \in 0..MaxCalls
         /\ calls[c].stage \notin Running
         /\ \A o \in Calls \ {c} : calls'[o] = Disturbed(calls[o])
         /\ calls'[c].todo = call.todo /\ calls'[c].docs = call.docs
         /\ calls'[c].stage = call.stage /\ calls'[c].kind = call.kind
         /\ calls'[c].alone = \A o \in Calls \ {c} : calls[o].stage \notin Running
<1>. DEFINE alone == \A o \in Calls \ {c} : calls[o].stage \notin Running
<1>1. [call EXCEPT !.alone = alone] \in CallStates
  <2>1. alone \in BOOLEAN
    OBVIOUS
  <2>. QED BY <2>1 DEF CallStates
<1>2. \A o \in Calls : Disturbed(calls[o]) \in CallStates
  BY ChangedCalls DEF KBTypeOK
<1>3. served' \in 0..MaxCalls
  BY DEF KBTypeOK, Starts
<1>4. calls'[c] = [call EXCEPT !.alone = alone]
  BY DEF Starts
<1>5. /\ calls' \in [Calls -> CallStates] /\ calls[c].stage \notin Running
      /\ \A o \in Calls \ {c} : calls'[o] = Disturbed(calls[o])
  BY <1>1, <1>2 DEF Starts
<1>6. /\ calls'[c].todo = call.todo /\ calls'[c].docs = call.docs
      /\ calls'[c].stage = call.stage /\ calls'[c].kind = call.kind
      /\ calls'[c].alone = alone
  <2>. HIDE DEF alone
  <2>. QED BY <1>4 DEF CallStates
<1>. QED BY <1>3, <1>4, <1>5, <1>6

LEMMA BegunCalls ==
  ASSUME KBTypeOK
  PROVE  /\ \A force, prune \in BOOLEAN :
              /\ IngestCall(force, prune) \in CallStates
              /\ IngestCall(force, prune).todo = {}
              /\ IngestCall(force, prune).stage = "hashes"
              /\ IngestCall(force, prune).kind = "corpus"
              /\ \A p \in Paths : IngestCall(force, prune).docs[p] =
                                    IF p \in Readable(files) THEN files[p] ELSE Absent
         /\ \A p \in Generated, doc \in Documents :
              /\ RememberCall(p, doc) \in CallStates
              /\ RememberCall(p, doc).todo = {}
              /\ RememberCall(p, doc).stage = "hashes"
              /\ RememberCall(p, doc).kind = "remember"
         /\ SearchCall \in CallStates
         /\ SearchCall.todo = {} /\ SearchCall.kind = "search"
         /\ SearchCall.stage = IF loaded THEN "retrieve" ELSE "rebuild"
BY DEF KBTypeOK, Idle, CallStates, Readable, Stages, Running, Corpus, IngestCall,
   RememberCall, SearchCall

----------------------------------------------------------------------------
(* Type correctness.                                                       *)
LEMMA TypeStart ==
  ASSUME KBTypeOK, NEW c \in Calls, BeginIngest(c) \/ BeginRemember(c) \/ BeginSearch(c)
  PROVE  KBTypeOK'
<1>1. CASE BeginIngest(c)
  BY <1>1, BegunCalls, StartsType DEF BeginIngest, KBTypeOK
<1>2. CASE BeginRemember(c)
  <2>1. files' \in Corpus
    BY <1>2 DEF BeginRemember, KBTypeOK, Corpus
  <2>. QED BY <1>2, <2>1, BegunCalls, StartsType DEF BeginRemember, KBTypeOK
<1>3. CASE BeginSearch(c)
  BY <1>3, BegunCalls, StartsType DEF BeginSearch, KBTypeOK
<1>. QED BY <1>1, <1>2, <1>3

LEMMA TypeWork ==
  ASSUME KBTypeOK, NEW c \in Calls,
         ReadHashes(c) \/ Prune(c) \/ ReadChunks(c) \/ Build(c) \/ Answer(c) \/ Fail(c)
  PROVE  KBTypeOK'
<1>. calls[c] \in CallStates
  BY DEF KBTypeOK
<1>1. CASE ReadHashes(c)
  <2>1. {p \in Paths : Changed(calls[c], p)} \in SUBSET Paths
    OBVIOUS
  <2>2. [calls[c] EXCEPT !.skipped = Skipped(calls[c])] \in CallStates
    BY DEF Skipped, CallStates
  <2>. QED BY <1>1, <2>1, <2>2, ChangedCalls, MovesType DEF ReadHashes, KBTypeOK
<1>2. CASE Prune(c)
  <2>1. [calls[c] EXCEPT !.stage = "rebuild"] \in CallStates
    BY DEF CallStates, Stages, Running
  <2>2. Kept(calls[c]) \in SUBSET Rows
    BY DEF KBTypeOK, Kept
  <2>. QED BY <1>2, <2>1, <2>2, MovesType DEF Prune, KBTypeOK
<1>3. CASE ReadChunks(c)
  <2>1. [calls[c] EXCEPT !.stage = "build", !.chunks = rows] \in CallStates
    BY DEF CallStates, Stages, Running, KBTypeOK
  <2>. QED BY <1>3, <2>1, MovesType DEF ReadChunks, KBTypeOK
<1>4. CASE Build(c)
  <2>1. [calls[c] EXCEPT !.stage = "retrieve", !.chunks = {}] \in CallStates
    BY DEF CallStates, Stages, Running
  <2>2. calls[c].chunks \in SUBSET Rows
    BY DEF CallStates
  <2>. QED BY <1>4, <2>1, <2>2, ChangedCalls, MovesType DEF Build, KBTypeOK
<1>5. CASE Answer(c) \/ Fail(c)
  BY <1>5, IdleIsACall, MovesType DEF Answer, Fail, KBTypeOK
<1>. QED BY <1>1, <1>2, <1>3, <1>4, <1>5

LEMMA TypeUpsert ==
  ASSUME KBTypeOK, NEW c \in Calls, NEW p \in Paths, FindPrevious(c, p) \/ Write(c, p),
         calls[c].docs[p] \in Documents
  PROVE  KBTypeOK'
<1>. calls[c] \in CallStates
  BY DEF KBTypeOK
<1>1. CASE FindPrevious(c, p)
  <2>1. {r.id : r \in RowsOf(p)} \in SUBSET Ids
    BY DEF RowsOf, KBTypeOK, Rows
  <2>2. [calls[c] EXCEPT !.stage = "write", !.seen = {r.id : r \in RowsOf(p)}] \in CallStates
    BY <2>1 DEF CallStates, Stages, Running
  <2>. QED BY <1>1, <2>2, MovesType DEF FindPrevious, KBTypeOK
<1>2. CASE Write(c, p)
  <2>1. FreshId \in Ids
    BY <1>2 DEF Write, FreshId
  <2>2. rows' \in SUBSET Rows
    BY <1>2, <2>1 DEF Write, Surviving, KBTypeOK, Rows
  <2>3. calls[c].todo \ {p} \in SUBSET Paths
    BY DEF CallStates
  <2>. QED BY <1>2, <2>2, <2>3, ChangedCalls, MovesType DEF Write, KBTypeOK
<1>. QED BY <1>1, <1>2

(* What is embedded was listed: a document is only in the list of work if  *)
(* it is one.                                                              *)
Listing == \A c \in Calls : \A p \in calls[c].todo : calls[c].docs[p] \in Documents

LEMMA ListingStep == ASSUME KBTypeOK, Listing, KBNext PROVE Listing'
<1>. SUFFICES ASSUME NEW o \in Calls PROVE \A p \in calls'[o].todo : calls'[o].docs[p] \in Documents
  BY DEF Listing
<1>0. /\ calls[o] \in CallStates
      /\ \A p \in calls[o].todo : calls[o].docs[p] \in Documents
      /\ Idle.todo = {}
      /\ Disturbed(calls[o]).todo \subseteq calls[o].todo
      /\ Disturbed(calls[o]).todo # {} => Disturbed(calls[o]).docs = calls[o].docs
  <2>1. calls[o] \in CallStates
    BY DEF KBTypeOK
  <2>. QED BY <2>1 DEF Listing, Idle, Disturbed, CallStates
<1>1. CASE Edit
  BY <1>0, <1>1 DEF Edit
<1>2. CASE Restart
  BY <1>0, <1>2 DEF Restart
<1>3. ASSUME NEW c \in Calls, BeginIngest(c) \/ BeginRemember(c) \/ BeginSearch(c)
      PROVE  \A p \in calls'[o].todo : calls'[o].docs[p] \in Documents
  <2>1. PICK call : /\ Starts(c, call) /\ call \in CallStates /\ call.todo = {}
    <3>1. CASE BeginIngest(c)
      BY <3>1, BegunCalls DEF BeginIngest
    <3>2. CASE BeginRemember(c)
      BY <3>2, BegunCalls DEF BeginRemember
    <3>3. CASE BeginSearch(c)
      BY <3>3, BegunCalls DEF BeginSearch
    <3>. QED BY <1>3, <3>1, <3>2, <3>3
  <2>2. CASE o = c
    <3>1. calls'[c].todo = {}
      BY <2>1, StartsType
    <3>. QED BY <2>2, <3>1
  <2>3. CASE o # c
    <3>1. calls'[o] = Disturbed(calls[o])
      BY <2>1, <2>3, StartsType
    <3>. QED BY <1>0, <3>1
  <2>. QED BY <2>2, <2>3
<1>4. ASSUME NEW c \in Calls, ReadHashes(c)
      PROVE  \A p \in calls'[o].todo : calls'[o].docs[p] \in Documents
  BY <1>0, <1>4 DEF ReadHashes, Moves, Onward, Changed, CallStates, KBTypeOK
<1>5. ASSUME NEW c \in Calls,
             Prune(c) \/ ReadChunks(c) \/ Build(c) \/ Answer(c) \/ Fail(c)
      PROVE  \A p \in calls'[o].todo : calls'[o].docs[p] \in Documents
  <2>. /\ calls[c] \in CallStates /\ Idle.todo = {}
       /\ Returned(calls[c]).todo \subseteq calls[c].todo
       /\ Returned(calls[c]).todo # {} => Returned(calls[c]).docs = calls[c].docs
    <3>1. calls[c] \in CallStates
      BY DEF KBTypeOK
    <3>. QED BY <3>1 DEF Idle, Returned, CallStates
  <2>0. \A p \in calls[c].todo : calls[c].docs[p] \in Documents
    BY DEF Listing
  <2>1. CASE Prune(c)
    BY <1>0, <2>0, <2>1 DEF Prune, CallStates, Moves, KBTypeOK
  <2>2. CASE ReadChunks(c)
    BY <1>0, <2>0, <2>2 DEF ReadChunks, CallStates, Moves, KBTypeOK
  <2>3. CASE Build(c) /\ calls[c].kind = "search"
    BY <1>0, <2>0, <2>3 DEF Build, CallStates, Moves, KBTypeOK
  <2>4. CASE Build(c) /\ calls[c].kind # "search"
    BY <1>0, <2>0, <2>4 DEF Build, Moves, KBTypeOK
  <2>5. CASE Answer(c) \/ Fail(c)
    BY <1>0, <2>5 DEF Answer, Fail, Moves, KBTypeOK
  <2>. QED BY <1>5, <2>1, <2>2, <2>3, <2>4, <2>5
<1>6. ASSUME NEW c \in Calls, NEW p \in Paths, FindPrevious(c, p) \/ Write(c, p)
      PROVE  \A q \in calls'[o].todo : calls'[o].docs[q] \in Documents
  <2>. calls[c] \in CallStates
    BY DEF KBTypeOK
  <2>0. \A q \in calls[c].todo : calls[c].docs[q] \in Documents
    BY DEF Listing
  <2>1. CASE FindPrevious(c, p)
    BY <1>0, <2>0, <2>1 DEF FindPrevious, CallStates, Moves, KBTypeOK
  <2>2. CASE Write(c, p)
    BY <1>0, <2>0, <2>2 DEF Write, Onward, CallStates, Moves, KBTypeOK
  <2>. QED BY <1>6, <2>1, <2>2
<1>. QED BY <1>1, <1>2, <1>3, <1>4, <1>5, <1>6 DEF KBNext, Step

LEMMA TypeStep == ASSUME KBTypeOK, Listing, [KBNext]_kbVars PROVE KBTypeOK'
<1>1. CASE Edit
  <2>1. files' \in Corpus
    BY <1>1 DEF Edit, KBTypeOK, Corpus
  <2>2. calls' \in [Calls -> CallStates]
    BY <1>1, ChangedCalls DEF Edit, KBTypeOK
  <2>. QED BY <1>1, <2>1, <2>2 DEF Edit, KBTypeOK
<1>2. CASE Restart
  BY <1>2, IdleIsACall DEF Restart, KBTypeOK
<1>3. ASSUME NEW c \in Calls, Step(c) PROVE KBTypeOK'
  <2>1. ASSUME NEW p \in Paths, FindPrevious(c, p) \/ Write(c, p)
        PROVE  calls[c].docs[p] \in Documents
    BY <2>1 DEF Listing, FindPrevious, Write, IsNext
  <2>. QED BY <1>3, <2>1, TypeStart, TypeWork, TypeUpsert DEF Step
<1>4. CASE UNCHANGED kbVars
  BY <1>4 DEF kbVars, KBTypeOK, CallStates
<1>. QED BY <1>1, <1>2, <1>3, <1>4 DEF KBNext

LEMMA InitType == KBInit => KBTypeOK /\ Listing
<1>. SUFFICES ASSUME KBInit PROVE KBTypeOK /\ Listing
  OBVIOUS
<1>1. files \in Corpus
  BY DEF KBInit, Corpus
<1>2. rows \in SUBSET Rows
  BY DEF KBInit, Rows
<1>3. calls \in [Calls -> CallStates]
  BY IdleIsACall DEF KBInit
<1>4. /\ lexical \in SUBSET Rows /\ built \in BOOLEAN /\ loaded \in BOOLEAN
      /\ served \in 0..MaxCalls /\ edits \in 0..MaxEdits
  <2>1. 0 \in 0..MaxCalls /\ 0 \in 0..MaxEdits
    BY KBAssumption
  <2>. QED BY <2>1 DEF KBInit
<1>5. Listing
  BY DEF KBInit, Listing, Idle
<1>. QED BY <1>1, <1>2, <1>3, <1>4, <1>5 DEF KBTypeOK

(* Every variable holds a value of its kind, for every choice of the       *)
(* constants.                                                              *)
THEOREM KnowledgeBaseTypeCorrect == KBSpec => []KBTypeOK
<1>1. KBTypeOK /\ Listing /\ [KBNext]_kbVars => (KBTypeOK /\ Listing)'
  <2>1. ASSUME Listing, UNCHANGED kbVars PROVE Listing'
    BY <2>1 DEF Listing, kbVars
  <2>. QED BY <2>1, TypeStep, ListingStep
<1>. QED BY <1>1, InitType, PTL DEF KBSpec

TypeInv == KBTypeOK /\ Listing

LEMMA TypeInvStep == ASSUME TypeInv, [KBNext]_kbVars PROVE TypeInv'
<1>1. ASSUME Listing, UNCHANGED kbVars PROVE Listing'
  BY <1>1 DEF Listing, kbVars
<1>. QED BY <1>1, TypeStep, ListingStep DEF TypeInv

(* What a step may do to the rows.                                         *)
LEMMA RowsStep ==
  ASSUME TypeInv, [KBNext]_kbVars
  PROVE  \/ rows' = rows
         \/ \E c \in Calls : Prune(c)
         \/ \E c \in Calls, p \in Paths : Write(c, p)
BY DEF KBNext, Step, Edit, Restart, BeginIngest, BeginRemember, BeginSearch, ReadHashes,
   FindPrevious, ReadChunks, Build, Answer, Fail, kbVars

PrimaryKey == \A r, s \in rows : r.id = s.id => r = s

LEMMA RowsAreKeyed ==
  ASSUME TypeInv, OneRowPerFile, PrimaryKey, [KBNext]_kbVars
  PROVE  OneRowPerFile' /\ PrimaryKey'
<1>1. CASE rows' = rows
  BY <1>1 DEF OneRowPerFile, PrimaryKey
<1>2. ASSUME NEW c \in Calls, Prune(c) PROVE OneRowPerFile' /\ PrimaryKey'
  <2>1. rows' \subseteq rows
    BY <1>2 DEF Prune, Kept
  <2>. QED BY <2>1 DEF OneRowPerFile, PrimaryKey
<1>3. ASSUME NEW c \in Calls, NEW p \in Paths, Write(c, p)
      PROVE  OneRowPerFile' /\ PrimaryKey'
  <2>. DEFINE new == [id |-> FreshId, key |-> p, doc |-> calls[c].docs[p]]
              old == Surviving(calls[c])
  <2>1. rows' = old \cup {new} /\ old \subseteq rows
    BY <1>3 DEF Write, Surviving
  <2>2. \A r \in old : r.key # p /\ r.id # FreshId
    <3>1. Fresh(FreshId)
      BY <1>3 DEF Write, FreshId
    <3>. QED BY <1>3, <2>1, <3>1 DEF Write, UniqueKey, Fresh
  <2>3. new.key = p /\ new.id = FreshId
    OBVIOUS
  <2>. HIDE DEF new, old
  <2>4. OneRowPerFile'
    BY <2>1, <2>2, <2>3 DEF OneRowPerFile
  <2>5. PrimaryKey'
    BY <2>1, <2>2, <2>3 DEF PrimaryKey
  <2>. QED BY <2>4, <2>5
<1>. QED BY RowsStep, <1>1, <1>2, <1>3

LEMMA InitKeyed == KBInit => OneRowPerFile /\ PrimaryKey
BY DEF KBInit, OneRowPerFile, PrimaryKey

(* However many ingests of one file cross, the unique index leaves it at   *)
(* most one row.                                                           *)
THEOREM FilesAreIndexedOnce == KBSpec => []OneRowPerFile
<1>. DEFINE Inv == TypeInv /\ OneRowPerFile /\ PrimaryKey
<1>1. KBInit => Inv
  BY InitType, InitKeyed DEF TypeInv
<1>2. Inv /\ [KBNext]_kbVars => Inv'
  BY TypeInvStep, RowsAreKeyed
<1>. QED BY <1>1, <1>2, PTL DEF KBSpec

----------------------------------------------------------------------------
(* The flag is only set once the index has been filled, and a search only  *)
(* goes on once either is the case.                                        *)
IndexInv ==
    /\ loaded => built
    /\ \A c \in Calls : calls[c].stage = "retrieve" => built

LEMMA IndexStep == ASSUME TypeInv, IndexInv, [KBNext]_kbVars PROVE IndexInv'
<1>. \A c \in Calls : calls[c] \in CallStates
  BY DEF TypeInv, KBTypeOK
<1>0. /\ \A c \in Calls : /\ Disturbed(calls[c]).stage = "retrieve" => built
                        /\ Returned(calls[c]).stage # "retrieve"
      /\ Idle.stage = "idle"
      /\ \A c \in Calls, todo \in SUBSET Paths : Onward(calls[c], todo).stage # "retrieve"
  BY DEF Disturbed, Returned, Idle, Onward, CallStates, IndexInv
<1>1. CASE Edit
  BY <1>0, <1>1 DEF Edit, IndexInv, TypeInv, KBTypeOK
<1>2. CASE Restart
  BY <1>0, <1>2 DEF Restart, IndexInv
<1>3. ASSUME NEW c \in Calls, BeginIngest(c) \/ BeginRemember(c) \/ BeginSearch(c)
      PROVE  IndexInv'
  <2>1. PICK call : /\ Starts(c, call) /\ call \in CallStates
                    /\ call.stage = "retrieve" => built
    <3>1. CASE BeginIngest(c)
      BY <3>1, BegunCalls DEF BeginIngest, TypeInv
    <3>2. CASE BeginRemember(c)
      BY <3>2, BegunCalls DEF BeginRemember, TypeInv
    <3>3. CASE BeginSearch(c)
      BY <3>3, BegunCalls DEF BeginSearch, IndexInv, TypeInv
    <3>. QED BY <1>3, <3>1, <3>2, <3>3
  <2>2. calls'[c].stage = call.stage
    BY <2>1, StartsType DEF TypeInv
  <2>3. \A o \in Calls \ {c} : calls'[o] = Disturbed(calls[o])
    BY <2>1, StartsType DEF TypeInv
  <2>4. loaded' = loaded /\ built' = built
    BY <1>3 DEF BeginIngest, BeginRemember, BeginSearch
  <2>. QED BY <1>0, <2>1, <2>2, <2>3, <2>4 DEF IndexInv
<1>4. ASSUME NEW c \in Calls, ReadHashes(c) PROVE IndexInv'
  <2>1. /\ calls'[c].stage # "retrieve"
        /\ \A o \in Calls \ {c} : calls'[o] = calls[o]
    <3>. DEFINE left == [calls[c] EXCEPT !.skipped = Skipped(calls[c])]
                todo == {p \in Paths : Changed(calls[c], p)}
    <3>1. left \in CallStates /\ todo \in SUBSET Paths
      BY DEF Skipped, CallStates
    <3>. HIDE DEF left, todo
    <3>2. Onward(left, todo).stage # "retrieve"
      BY <3>1 DEF Onward, CallStates
    <3>. QED BY <1>4, <3>2 DEF ReadHashes, Moves, TypeInv, KBTypeOK, left, todo
  <2>. QED BY <1>4, <2>1 DEF ReadHashes, IndexInv
<1>5. ASSUME NEW c \in Calls, Prune(c) \/ ReadChunks(c) PROVE IndexInv'
  <2>1. CASE Prune(c)
    BY <2>1 DEF Prune, Moves, IndexInv, TypeInv, KBTypeOK, CallStates
  <2>2. CASE ReadChunks(c)
    BY <2>2 DEF ReadChunks, Moves, IndexInv, TypeInv, KBTypeOK, CallStates
  <2>. QED BY <1>5, <2>1, <2>2
<1>6. ASSUME NEW c \in Calls, Build(c) PROVE IndexInv'
  BY <1>6 DEF Build, IndexInv
<1>7. ASSUME NEW c \in Calls, Answer(c) \/ Fail(c) PROVE IndexInv'
  BY <1>0, <1>7 DEF Answer, Fail, Moves, IndexInv, TypeInv, KBTypeOK
<1>8. ASSUME NEW c \in Calls, NEW p \in Paths, FindPrevious(c, p) PROVE IndexInv'
  BY <1>8 DEF FindPrevious, Moves, IndexInv, TypeInv, KBTypeOK, CallStates
<1>9. ASSUME NEW c \in Calls, NEW p \in Paths, Write(c, p) PROVE IndexInv'
  <2>1. calls[c].todo \ {p} \in SUBSET Paths
    BY DEF CallStates
  <2>. QED BY <1>0, <1>9, <2>1 DEF Write, Moves, IndexInv, TypeInv, KBTypeOK
<1>10. CASE UNCHANGED kbVars
  BY <1>10 DEF kbVars, IndexInv
<1>. QED BY <1>1, <1>2, <1>3, <1>4, <1>5, <1>6, <1>7, <1>8, <1>9, <1>10 DEF KBNext, Step

(* A search never reads the lexical index of a process that has not filled *)
(* it, however many arrive together after a restart.                       *)
THEOREM SearchesFindTheIndexFilled == KBSpec => []SearchWaitsForTheIndex
<1>. DEFINE Inv == TypeInv /\ IndexInv
<1>1. KBInit => Inv
  <2>1. KBInit => IndexInv
    BY DEF KBInit, IndexInv, Idle
  <2>. QED BY <2>1, InitType DEF TypeInv
<1>2. Inv /\ [KBNext]_kbVars => Inv'
  BY TypeInvStep, IndexStep
<1>3. Inv => SearchWaitsForTheIndex
  BY DEF IndexInv, SearchWaitsForTheIndex
<1>. QED BY <1>1, <1>2, <1>3, PTL DEF KBSpec

----------------------------------------------------------------------------
(* An undisturbed call.                                                    *)
Sole(c) ==
    calls[c].alone =>
        /\ calls[c].stage # "idle"
        /\ \A o \in Calls \ {c} : calls[o].stage \notin Running

Listed(c) ==
    calls[c].alone /\ calls[c].kind = "corpus" =>
        \A p \in Paths :
            calls[c].docs[p] = IF p \in Readable(files) THEN files[p] ELSE Absent

(* A row that brings a document, or for which it was skipped.              *)
Stands(r, call, p) ==
    r.doc.body = call.docs[p].body /\ (p \in call.skipped \/ r.doc = call.docs[p])

(* What is no longer to do is done.                                        *)
Covered(call) ==
    /\ \A p \in Paths \ call.todo :
         call.docs[p] # Absent => \E r \in RowsOf(p) : Stands(r, call, p)
    /\ call.force => call.skipped = {}

OnlyListed(call) == call.prune => \A r \in rows : call.docs[r.key] # Absent

Progress(c) ==
    LET call == calls[c]
    IN  call.alone /\ call.kind # "search" =>
          /\ call.stage # "hashes" => Covered(call)
          /\ call.stage \in {"prune", "rebuild", "build", "done"} => call.todo = {}
          /\ call.stage = "write" =>
                 \A r \in rows : r.id \in call.seen => IsNext(call, r.key)
          /\ call.stage \in {"rebuild", "build", "done"} => OnlyListed(call)
          /\ call.stage = "build" => call.chunks = rows
          /\ call.stage = "done" => lexical = rows

Quietly(c) == Sole(c) /\ Listed(c) /\ Progress(c)
QuietInv == TypeInv /\ PrimaryKey /\ \A c \in Calls : Quietly(c)

(* A call that somebody disturbed claims nothing.                          *)
LEMMA NothingClaimed ==
  ASSUME NEW c \in Calls, ~ calls'[c].alone
  PROVE  Quietly(c)'
BY DEF Quietly, Sole, Listed, Progress

(* While one call works no other is undisturbed, and its place is the only *)
(* one that changes.                                                       *)
LEMMA OnlyMine ==
  ASSUME QuietInv, NEW c \in Calls, NEW call \in CallStates, calls[c].stage \in Running,
         Moves(c, call), call.alone => calls[c].alone, call.stage # "idle" \/ ~ call.alone
  PROVE  /\ \A o \in Calls \ {c} : Quietly(o)'
         /\ Sole(c)'
<1>1. calls'[c] = call /\ \A o \in Calls \ {c} : calls'[o] = calls[o]
  BY MovesType DEF QuietInv, TypeInv
<1>2. ASSUME NEW o \in Calls \ {c} PROVE ~ calls'[o].alone
  BY <1>1, <1>2 DEF QuietInv, Quietly, Sole
<1>3. \A o \in Calls \ {c} : Quietly(o)'
  BY <1>2, NothingClaimed
<1>4. Sole(c)'
  BY <1>1 DEF QuietInv, Quietly, Sole
<1>. QED BY <1>3, <1>4

LEMMA BeginQuietly ==
  ASSUME QuietInv, NEW c \in Calls, BeginIngest(c) \/ BeginRemember(c) \/ BeginSearch(c),
         NEW o \in Calls
  PROVE  Quietly(o)'
<1>1. PICK call : /\ Starts(c, call) /\ call \in CallStates
                  /\ call.stage \in {"hashes", "retrieve", "rebuild"}
                  /\ call.kind # "search" => call.stage = "hashes"
                  /\ call.kind = "corpus" =>
                       /\ files' = files
                       /\ \A p \in Paths : call.docs[p] =
                                             IF p \in Readable(files) THEN files[p] ELSE Absent
  <2>1. CASE BeginIngest(c)
    BY <2>1, BegunCalls DEF BeginIngest, QuietInv, TypeInv
  <2>2. CASE BeginRemember(c)
    BY <2>2, BegunCalls DEF BeginRemember, QuietInv, TypeInv
  <2>3. CASE BeginSearch(c)
    BY <2>3, BegunCalls DEF BeginSearch, QuietInv, TypeInv
  <2>. QED BY <2>1, <2>2, <2>3
<1>2. /\ calls'[c].docs = call.docs /\ calls'[c].stage = call.stage
      /\ calls'[c].kind = call.kind
      /\ calls'[c].alone = \A d \in Calls \ {c} : calls[d].stage \notin Running
      /\ \A d \in Calls \ {c} : calls'[d] = Disturbed(calls[d])
  BY <1>1, StartsType DEF QuietInv, TypeInv
<1>3. \A d \in Calls : /\ ~ Disturbed(calls[d]).alone
                       /\ calls[d].stage \notin Running => Disturbed(calls[d]) = Idle
  BY ChangedCalls DEF QuietInv, TypeInv, KBTypeOK, Disturbed
<1>4. CASE o # c
  BY <1>2, <1>3, <1>4, NothingClaimed
<1>5. CASE o = c
  <2>1. Sole(c)'
    <3>1. Idle.stage \notin Running
      BY DEF Idle, Running
    <3>. QED BY <1>1, <1>2, <1>3, <3>1 DEF Sole
  <2>2. Listed(c)'
    BY <1>1, <1>2 DEF Listed, Readable
  <2>3. Progress(c)'
    BY <1>1, <1>2 DEF Progress
  <2>. QED BY <1>5, <2>1, <2>2, <2>3 DEF Quietly
<1>. QED BY <1>4, <1>5

(* Reading the hashes: what is skipped is in the index as it stands.       *)
LEMMA ReadQuietly ==
  ASSUME QuietInv, NEW c \in Calls, ReadHashes(c), NEW o \in Calls
  PROVE  Quietly(o)'
<1>. DEFINE todo == {p \in Paths : Changed(calls[c], p)}
            left == Skipped(calls[c])
            here == [calls[c] EXCEPT !.skipped = left]
            call == Onward(here, todo)
<1>1. calls[c] \in CallStates /\ call \in CallStates /\ calls[c].stage = "hashes"
  <2>1. todo \in SUBSET Paths /\ left \in SUBSET Paths
    BY DEF Skipped
  <2>2. calls[c] \in CallStates /\ calls[c].stage = "hashes"
    BY DEF QuietInv, TypeInv, KBTypeOK, ReadHashes, At
  <2>3. here \in CallStates
    BY <2>1, <2>2 DEF CallStates
  <2>. QED BY <2>1, <2>2, <2>3, ChangedCalls
<1>2. /\ call.todo = todo /\ call.docs = calls[c].docs /\ call.prune = calls[c].prune
      /\ call.kind = calls[c].kind /\ call.alone = calls[c].alone
      /\ call.force = calls[c].force /\ call.skipped = left
      /\ call.stage \in {"embed", "prune", "rebuild"}
      /\ call.stage \in {"prune", "rebuild"} => todo = {}
      /\ call.stage = "rebuild" => ~ call.prune
  <2>. HIDE DEF todo, left
  <2>. QED BY <1>1 DEF Onward, CallStates
<1>3. /\ Moves(c, call) /\ files' = files /\ rows' = rows /\ lexical' = lexical
  BY DEF ReadHashes
<1>4. calls'[c] = call
  BY <1>1, <1>3, MovesType DEF QuietInv, TypeInv
<1>5. /\ \A p \in Paths \ todo : calls[c].docs[p] # Absent =>
              /\ p \in left
              /\ \E r \in RowsOf(p) : r.doc.body = calls[c].docs[p].body
      /\ calls[c].force => left = {}
  BY <1>1 DEF Changed, Skipped, CallStates
<1>. HIDE DEF todo, left, here, call
<1>6. Sole(c)' /\ \A d \in Calls \ {c} : Quietly(d)'
  BY <1>1, <1>2, <1>3, OnlyMine DEF Running
<1>7. Listed(c)'
  BY <1>2, <1>3, <1>4 DEF QuietInv, Quietly, Listed, Readable
<1>8. Progress(c)'
  BY <1>2, <1>3, <1>4, <1>5 DEF Progress, Covered, Stands, OnlyListed, RowsOf
<1>. QED BY <1>6, <1>7, <1>8 DEF Quietly

LEMMA FindQuietly ==
  ASSUME QuietInv, NEW c \in Calls, NEW p \in Paths, FindPrevious(c, p), NEW o \in Calls
  PROVE  Quietly(o)'
<1>. DEFINE call == [calls[c] EXCEPT !.stage = "write", !.seen = {r.id : r \in RowsOf(p)}]
<1>1. calls[c] \in CallStates /\ call \in CallStates /\ calls[c].stage = "embed"
  <2>1. {r.id : r \in RowsOf(p)} \in SUBSET Ids
    BY DEF RowsOf, QuietInv, TypeInv, KBTypeOK, Rows
  <2>. QED BY <2>1 DEF QuietInv, TypeInv, KBTypeOK, FindPrevious, At, CallStates, Stages, Running
<1>2. /\ call.todo = calls[c].todo /\ call.docs = calls[c].docs
      /\ call.prune = calls[c].prune /\ call.kind = calls[c].kind
      /\ call.alone = calls[c].alone /\ call.stage = "write"
      /\ call.force = calls[c].force /\ call.skipped = calls[c].skipped
      /\ call.seen = {r.id : r \in RowsOf(p)}
  BY <1>1 DEF CallStates
<1>3. /\ Moves(c, call) /\ files' = files /\ rows' = rows
      /\ lexical' = lexical /\ IsNext(calls[c], p)
  BY DEF FindPrevious
<1>4. calls'[c] = call
  BY <1>1, <1>3, MovesType DEF QuietInv, TypeInv
<1>5. \A r \in rows : r.id \in call.seen => IsNext(call, r.key)
  <2>1. ASSUME NEW r \in rows, r.id \in call.seen PROVE r.key = p
    BY <1>2, <2>1 DEF RowsOf, QuietInv, PrimaryKey
  <2>2. IsNext(call, p)
    BY <1>2, <1>3 DEF IsNext
  <2>. QED BY <2>1, <2>2
<1>. HIDE DEF call
<1>6. Sole(c)' /\ \A d \in Calls \ {c} : Quietly(d)'
  BY <1>1, <1>2, <1>3, OnlyMine DEF Running
<1>7. Listed(c)'
  BY <1>2, <1>3, <1>4 DEF QuietInv, Quietly, Listed, Readable
<1>8. calls[c].alone /\ calls[c].kind # "search" => Covered(calls[c])
  BY <1>1 DEF Progress, QuietInv, Quietly
<1>9. Covered(calls[c]) => Covered(calls[c])'
  BY <1>2, <1>3, <1>4 DEF Covered, Stands, RowsOf
<1>10. call.stage = "write" => \A r \in rows' : r.id \in call.seen => IsNext(call, r.key)
  BY <1>3, <1>5
<1>11. Progress(c)'
  <2>. SUFFICES ASSUME call.alone, call.kind # "search"
                PROVE  /\ Covered(calls[c])'
                       /\ call.stage = "write"
                       /\ \A r \in rows' : r.id \in call.seen => IsNext(call, r.key)
    BY <1>2, <1>4 DEF Progress
  <2>. QED BY <1>2, <1>8, <1>9, <1>10
<1>. QED BY <1>6, <1>7, <1>11 DEF Quietly

(* The upsert takes away only rows of the file it brings.                  *)
LEMMA WriteQuietly ==
  ASSUME QuietInv, NEW c \in Calls, NEW p \in Paths, Write(c, p), NEW o \in Calls
  PROVE  Quietly(o)'
<1>. DEFINE todo == calls[c].todo \ {p}
            call == Onward(calls[c], todo)
            new == [id |-> FreshId, key |-> p, doc |-> calls[c].docs[p]]
<1>1. calls[c] \in CallStates /\ call \in CallStates /\ calls[c].stage = "write"
  <2>1. calls[c] \in CallStates
    BY DEF QuietInv, TypeInv, KBTypeOK
  <2>2. todo \in SUBSET Paths
    BY <2>1 DEF CallStates
  <2>. QED BY <2>1, <2>2, ChangedCalls DEF Write, At
<1>2. /\ call.todo = todo /\ call.docs = calls[c].docs /\ call.prune = calls[c].prune
      /\ call.kind = calls[c].kind /\ call.alone = calls[c].alone
      /\ call.force = calls[c].force /\ call.skipped = calls[c].skipped
      /\ call.stage \in {"embed", "prune", "rebuild"}
      /\ call.stage \in {"prune", "rebuild"} => todo = {}
      /\ call.stage = "rebuild" => ~ call.prune
  <2>. HIDE DEF todo
  <2>. QED BY <1>1 DEF Onward, CallStates
<1>3. /\ Moves(c, call) /\ files' = files /\ lexical' = lexical
      /\ rows' = Surviving(calls[c]) \cup {new} /\ IsNext(calls[c], p)
  BY DEF Write
<1>4. calls'[c] = call
  BY <1>1, <1>3, MovesType DEF QuietInv, TypeInv
<1>5. ASSUME calls[c].alone, calls[c].kind # "search",
             NEW q \in Paths \ todo, calls[c].docs[q] # Absent
      PROVE  \E r \in rows' : r.key = q /\ Stands(r, calls[c], q)
  <2>1. CASE q = p
    <3>1. new \in rows' /\ new.key = p /\ new.doc = calls[c].docs[p]
      BY <1>3
    <3>. HIDE DEF new
    <3>. QED BY <2>1, <3>1 DEF Stands
  <2>2. CASE q # p
    <3>1. q \notin calls[c].todo
      BY <2>2
    <3>2. PICK r \in rows : r.key = q /\ Stands(r, calls[c], q)
      BY <1>1, <1>5, <3>1 DEF QuietInv, Quietly, Progress, Covered, RowsOf
    <3>3. r.id \notin calls[c].seen
      BY <1>1, <1>5, <3>1, <3>2 DEF QuietInv, Quietly, Progress, IsNext
    <3>4. r \in rows'
      BY <1>3, <3>3 DEF Surviving
    <3>. QED BY <3>2, <3>4
  <2>. QED BY <2>1, <2>2
<1>. HIDE DEF todo, call, new
<1>6. Sole(c)' /\ \A d \in Calls \ {c} : Quietly(d)'
  BY <1>1, <1>2, <1>3, OnlyMine DEF Running
<1>7. Listed(c)'
  <2>1. Listed(c)
    BY DEF QuietInv, Quietly
  <2>2. calls'[c].docs = calls[c].docs /\ calls'[c].kind = calls[c].kind
        /\ calls'[c].alone = calls[c].alone /\ files' = files
    BY <1>2, <1>3, <1>4
  <2>. QED BY <2>1, <2>2 DEF Listed, Readable
<1>8. calls[c].alone /\ calls[c].kind # "search" =>
          (calls[c].force => calls[c].skipped = {})
  BY <1>1 DEF QuietInv, Quietly, Progress, Covered
<1>9. Progress(c)'
  BY <1>2, <1>4, <1>5, <1>8 DEF Progress, Covered, Stands, OnlyListed, RowsOf
<1>. QED BY <1>6, <1>7, <1>9 DEF Quietly

(* The prune takes away only rows that were not listed.                    *)
LEMMA PruneQuietly ==
  ASSUME QuietInv, NEW c \in Calls, Prune(c), NEW o \in Calls
  PROVE  Quietly(o)'
<1>. DEFINE call == [calls[c] EXCEPT !.stage = "rebuild"]
<1>1. calls[c] \in CallStates /\ call \in CallStates /\ calls[c].stage = "prune"
  BY DEF QuietInv, TypeInv, KBTypeOK, Prune, At, CallStates, Stages, Running
<1>2. /\ call.todo = calls[c].todo /\ call.docs = calls[c].docs
      /\ call.prune = calls[c].prune /\ call.kind = calls[c].kind
      /\ call.alone = calls[c].alone /\ call.stage = "rebuild"
      /\ call.force = calls[c].force /\ call.skipped = calls[c].skipped
  BY <1>1 DEF CallStates
<1>3. /\ Moves(c, call) /\ files' = files /\ lexical' = lexical
      /\ rows' = {r \in rows : calls[c].docs[r.key] # Absent}
  BY DEF Prune, Kept
<1>4. calls'[c] = call
  BY <1>1, <1>3, MovesType DEF QuietInv, TypeInv
<1>. HIDE DEF call
<1>5. Sole(c)' /\ \A d \in Calls \ {c} : Quietly(d)'
  BY <1>1, <1>2, <1>3, OnlyMine DEF Running
<1>6. Listed(c)'
  BY <1>2, <1>3, <1>4 DEF QuietInv, Quietly, Listed, Readable
<1>7. ASSUME calls[c].alone, calls[c].kind # "search",
             NEW q \in Paths \ calls[c].todo, calls[c].docs[q] # Absent
      PROVE  \E r \in rows' : r.key = q /\ Stands(r, calls[c], q)
  <2>1. PICK r \in rows : r.key = q /\ Stands(r, calls[c], q)
    BY <1>1, <1>7 DEF QuietInv, Quietly, Progress, Covered, RowsOf
  <2>. QED BY <1>3, <1>7, <2>1
<1>8. call.alone /\ call.kind # "search" => Covered(calls[c])'
  <2>1. calls[c].alone /\ calls[c].kind # "search" =>
            (calls[c].force => calls[c].skipped = {})
    BY <1>1 DEF QuietInv, Quietly, Progress, Covered
  <2>. QED BY <1>2, <1>4, <1>7, <2>1 DEF Covered, Stands, RowsOf
<1>9. OnlyListed(calls[c])'
  BY <1>2, <1>3, <1>4 DEF OnlyListed
<1>10. call.alone /\ call.kind # "search" => call.todo = {}
  BY <1>1, <1>2 DEF Progress, QuietInv, Quietly
<1>11. Progress(c)'
  BY <1>2, <1>4, <1>8, <1>9, <1>10 DEF Progress
<1>. QED BY <1>5, <1>6, <1>11 DEF Quietly

LEMMA ReadChunksQuietly ==
  ASSUME QuietInv, NEW c \in Calls, ReadChunks(c), NEW o \in Calls
  PROVE  Quietly(o)'
<1>. DEFINE call == [calls[c] EXCEPT !.stage = "build", !.chunks = rows]
<1>1. calls[c] \in CallStates /\ call \in CallStates /\ calls[c].stage = "rebuild"
  BY DEF QuietInv, TypeInv, KBTypeOK, ReadChunks, At, CallStates, Stages, Running
<1>2. /\ call.todo = calls[c].todo /\ call.docs = calls[c].docs
      /\ call.prune = calls[c].prune /\ call.kind = calls[c].kind
      /\ call.alone = calls[c].alone /\ call.stage = "build" /\ call.chunks = rows
      /\ call.force = calls[c].force /\ call.skipped = calls[c].skipped
  BY <1>1 DEF CallStates
<1>3. Moves(c, call) /\ files' = files /\ lexical' = lexical /\ rows' = rows
  BY DEF ReadChunks
<1>4. calls'[c] = call
  BY <1>1, <1>3, MovesType DEF QuietInv, TypeInv
<1>. HIDE DEF call
<1>5. Sole(c)' /\ \A d \in Calls \ {c} : Quietly(d)'
  BY <1>1, <1>2, <1>3, OnlyMine DEF Running
<1>6. Listed(c)'
  BY <1>2, <1>3, <1>4 DEF QuietInv, Quietly, Listed, Readable
<1>7. calls[c].alone /\ calls[c].kind # "search" =>
          Covered(calls[c]) /\ OnlyListed(calls[c]) /\ calls[c].todo = {}
  BY <1>1 DEF Progress, QuietInv, Quietly
<1>8. /\ Covered(calls[c]) => Covered(calls[c])'
      /\ OnlyListed(calls[c]) => OnlyListed(calls[c])'
  BY <1>2, <1>3, <1>4 DEF Covered, Stands, OnlyListed, RowsOf
<1>9. Progress(c)'
  BY <1>2, <1>3, <1>4, <1>7, <1>8 DEF Progress
<1>. QED BY <1>5, <1>6, <1>9 DEF Quietly

LEMMA BuildQuietly ==
  ASSUME QuietInv, NEW c \in Calls, Build(c), NEW o \in Calls
  PROVE  Quietly(o)'
<1>. DEFINE call == IF calls[c].kind = "search"
                    THEN [calls[c] EXCEPT !.stage = "retrieve", !.chunks = {}]
                    ELSE Returned(calls[c])
<1>1. calls[c] \in CallStates /\ call \in CallStates /\ calls[c].stage = "build"
  <2>1. calls[c] \in CallStates
    BY DEF QuietInv, TypeInv, KBTypeOK
  <2>2. [calls[c] EXCEPT !.stage = "retrieve", !.chunks = {}] \in CallStates
    BY <2>1 DEF CallStates, Stages, Running
  <2>. QED BY <2>1, <2>2, ChangedCalls DEF Build, At
<1>2. /\ call.alone => /\ calls[c].alone
                       /\ call.todo = calls[c].todo /\ call.docs = calls[c].docs
                       /\ call.prune = calls[c].prune /\ call.kind = calls[c].kind
                       /\ call.force = calls[c].force /\ call.skipped = calls[c].skipped
                       /\ call.stage \in {"retrieve", "done"}
      /\ call.alone /\ call.kind # "search" => call.stage = "done"
  <2>1. CASE calls[c].kind = "search"
    BY <1>1, <2>1 DEF CallStates
  <2>2. CASE calls[c].kind # "search"
    BY <1>1, <2>2 DEF Returned, Idle, CallStates
  <2>. QED BY <2>1, <2>2
<1>3. Moves(c, call) /\ files' = files /\ lexical' = calls[c].chunks /\ rows' = rows
  BY DEF Build
<1>4. calls'[c] = call
  BY <1>1, <1>3, MovesType DEF QuietInv, TypeInv
<1>. HIDE DEF call
<1>5. Sole(c)' /\ \A d \in Calls \ {c} : Quietly(d)'
  BY <1>1, <1>2, <1>3, OnlyMine DEF Running
<1>6. Listed(c)'
  BY <1>2, <1>3, <1>4 DEF QuietInv, Quietly, Listed, Readable
<1>7. Progress(c)'
  BY <1>1, <1>2, <1>3, <1>4 DEF Progress, Covered, Stands, OnlyListed, RowsOf, QuietInv, Quietly
<1>. QED BY <1>5, <1>6, <1>7 DEF Quietly

LEMMA QuietStep == ASSUME QuietInv, [KBNext]_kbVars, OneRowPerFile PROVE QuietInv'
<1>1. TypeInv' /\ PrimaryKey'
  BY TypeInvStep, RowsAreKeyed DEF QuietInv
<1>2. ASSUME NEW o \in Calls PROVE Quietly(o)'
  <2>1. CASE Edit
    <3>1. ~ calls'[o].alone
      BY <2>1, ChangedCalls DEF Edit, QuietInv, TypeInv, KBTypeOK
    <3>. QED BY <3>1, NothingClaimed
  <2>2. CASE Restart
    <3>1. ~ calls'[o].alone
      BY <2>2, IdleIsACall DEF Restart
    <3>. QED BY <3>1, NothingClaimed
  <2>3. ASSUME NEW c \in Calls, Answer(c) \/ Fail(c) PROVE Quietly(o)'
    <3>1. /\ Moves(c, Idle) /\ calls[c].stage \in Running
      BY <2>3 DEF Answer, Fail, At, Running
    <3>2. CASE o = c
      <4>1. ~ calls'[o].alone
        BY <3>1, <3>2, IdleIsACall, MovesType DEF QuietInv, TypeInv
      <4>. QED BY <4>1, NothingClaimed
    <3>3. CASE o # c
      BY <3>1, <3>3, IdleIsACall, OnlyMine
    <3>. QED BY <3>2, <3>3
  <2>4. CASE UNCHANGED kbVars
    BY <2>4 DEF kbVars, QuietInv, Quietly, Sole, Listed, Progress, Covered, OnlyListed,
       RowsOf, Readable, IsNext
  <2>. QED BY <2>1, <2>2, <2>3, <2>4, BeginQuietly, ReadQuietly, FindQuietly, WriteQuietly,
            PruneQuietly, ReadChunksQuietly, BuildQuietly DEF KBNext, Step
<1>. QED BY <1>1, <1>2 DEF QuietInv

LEMMA QuietAlways == KBSpec => [](QuietInv /\ OneRowPerFile)
<1>1. KBInit => QuietInv /\ OneRowPerFile
  <2>1. KBInit => \A c \in Calls : ~ calls[c].alone
    BY IdleIsACall DEF KBInit
  <2>2. KBInit => \A c \in Calls : Quietly(c)
    BY <2>1 DEF Quietly, Sole, Listed, Progress
  <2>. QED BY <2>2, InitType, InitKeyed DEF QuietInv, TypeInv
<1>2. QuietInv /\ OneRowPerFile /\ [KBNext]_kbVars => (QuietInv /\ OneRowPerFile)'
  BY QuietStep, RowsAreKeyed DEF QuietInv
<1>. QED BY <1>1, <1>2, PTL DEF KBSpec

(* Ingestion is a mirror: after any history of failed, crossing and        *)
(* interrupted calls, one undisturbed pruning ingest leaves exactly the    *)
(* readable files indexed, once, each with its body, and with its front    *)
(* matter unless it was skipped; a forced ingest skips none.               *)
THEOREM IngestionIsAMirror == KBSpec => []QuietIngestMirrors
<1>1. QuietInv /\ OneRowPerFile => QuietIngestMirrors
  <2>. SUFFICES ASSUME QuietInv, OneRowPerFile, NEW c \in Calls, Quiet(c),
                       calls[c].kind = "corpus", calls[c].prune
                PROVE  /\ \A p \in Readable(files) : \E r \in RowsOf(p) :
                            /\ RowsOf(p) = {r}
                            /\ r.doc.body = files[p].body
                            /\ r.doc.front # files[p].front => p \in calls[c].skipped
                       /\ \A p \in Paths \ Readable(files) : RowsOf(p) = {}
                       /\ calls[c].force => calls[c].skipped = {}
    BY DEF QuietIngestMirrors
  <2>1. /\ \A p \in Paths : calls[c].docs[p] = IF p \in Readable(files) THEN files[p] ELSE Absent
        /\ calls[c].todo = {} /\ Covered(calls[c]) /\ OnlyListed(calls[c])
    BY DEF Quiet, QuietInv, Quietly, Listed, Progress
  <2>2. ASSUME NEW p \in Readable(files)
        PROVE  \E r \in RowsOf(p) :
                   /\ RowsOf(p) = {r}
                   /\ r.doc.body = files[p].body
                   /\ r.doc.front # files[p].front => p \in calls[c].skipped
    <3>1. p \in Paths /\ files[p] # Absent
      BY <2>2 DEF Readable, KBAssumption
    <3>2. PICK r \in RowsOf(p) : Stands(r, calls[c], p)
      BY <2>1, <2>2, <3>1 DEF Covered
    <3>3. \A s \in RowsOf(p) : s = r
      BY <3>2 DEF RowsOf, OneRowPerFile
    <3>. QED BY <2>1, <2>2, <3>1, <3>2, <3>3 DEF Stands
  <2>3. ASSUME NEW p \in Paths \ Readable(files) PROVE RowsOf(p) = {}
    BY <2>1, <2>3 DEF OnlyListed, RowsOf
  <2>. QED BY <2>1, <2>2, <2>3 DEF Covered
<1>. QED BY <1>1, QuietAlways, PTL

(* What an undisturbed ingest or write-up brought is found by both halves  *)
(* of a search as soon as it has returned.                                 *)
THEOREM IngestedIsSearchable == KBSpec => []QuietCallIsSearchable
<1>1. QuietInv => QuietCallIsSearchable
  BY DEF QuietInv, Quietly, Progress, Covered, Stands, Quiet, QuietCallIsSearchable
<1>. QED BY <1>1, QuietAlways, PTL
=============================================================================
