-------------------------- MODULE SharePhotoProofs --------------------------
(***************************************************************************)
(* Proofs about SharePhoto, for any photos, products, invocations and      *)
(* bounds.  The inductive invariant is Inv: type correctness; what a call  *)
(* has judged stays judged, since hashes are only ever added to the block  *)
(* list; and, as long as no removal is under way and none has met a call   *)
(* at work (Calm), the row has its photo and every call may still rely on  *)
(* what it saw in the bucket (CallSafe): the object it uploaded or is      *)
(* about to adopt is there until some call has won.                        *)
(* StrayInv and ServedInv, further down, say who is still at work: on an   *)
(* object that is not the row's, and for a product without a photo.        *)
(***************************************************************************)
EXTENDS SharePhoto, TLAPS

CallType == [phase : Phases, todo : SUBSET Products, own : Photos \cup {NoPhoto},
             orphan : Photos \cup {NoPhoto}, known : SUBSET Photos,
             asked : SUBSET Products]

(* The object name of a call in hand; Judged are the phases after its own  *)
(* photo was found not to be blocked.                                      *)
Name(k) == photoContentType(k.own)
Judged == Uploading \ {"judge"}
HasOrphan == {"judgeOrphan", "adopt", "clear"}

(* The types of a call, and that it never goes on with a photo that was    *)
(* blocked when it began.                                                  *)
CallOK(k) ==
  k = Idle \/
    /\ k \in CallType
    /\ k.phase \in Uploading => k.own \in Photos /\ Name(k) \in Types
    /\ k.phase \in HasOrphan => k.orphan \in Photos
    /\ k.known \subseteq blocks
    /\ k.phase \in Judged => k.own \notin k.known
    /\ k.phase = "adopt" => k.orphan \notin k.known

CallsOK == \A c \in Calls : CallOK(calls[c])

(* What a call may rely on between its awaits, in calm times.              *)
CallSafe(k) ==
  /\ k.phase \in Judged => k.own \notin blocks
  /\ k.phase = "insert" /\ row = NoRow => objects[Name(k)] = k.own
  /\ k.phase \in {"verify", "stray"} => row # NoRow
  /\ k.phase = "stray" => row.path # Name(k)
  /\ k.phase = "judgeOrphan" /\ row = NoRow =>
       objects[Name(k)] = k.orphan \/ k.orphan \in blocks
  /\ k.phase = "adopt" => k.orphan \notin blocks
  /\ k.phase = "adopt" /\ row = NoRow => objects[Name(k)] = k.orphan
  /\ k.phase = "clear" => k.orphan \in blocks

Calm == operator.step \in {"none", "cleared"} /\ ~overlap

RowSound == row # NoRow => objects[row.path] = row.sha /\ row.sha \notin blocks

RowType == [path : Types, sha : Photos, known : SUBSET Photos]

(* The types of everything but the invocations, which CallsOK has.         *)
TablesOK ==
  /\ listed \subseteq Products /\ source \in [Products -> Photos \cup {NoPhoto}]
  /\ requests \subseteq {ByGtin} \cup {ByRecord(p) : p \in Products}
  /\ objects \in [Types -> Photos \cup {NoPhoto}]
  /\ row = NoRow \/ row \in RowType
  /\ blocks \subseteq Photos /\ unserved \subseteq Products
  /\ calls \in [Calls -> {calls[c] : c \in Calls}]

Inv ==
  /\ TablesOK /\ CallsOK /\ BlockedNeverShared
  /\ Calm => RowSound /\ \A c \in Calls : CallSafe(calls[c])

LEMMA InvTyped == ASSUME Inv PROVE TypeOK
BY DEF Inv, TablesOK, CallsOK, CallOK, CallType, RowType, TypeOK, Path, Name

LEMMA InitInv == ASSUME ConstantsAssumption, Init PROVE Inv
<1>1. TablesOK /\ CallsOK
  BY DEF Init, TablesOK, CallsOK, CallOK
<1>2. BlockedNeverShared /\ RowSound
  BY DEF Init, BlockedNeverShared, RowSound
<1>3. \A c \in Calls : CallSafe(calls[c])
  BY DEF Init, CallSafe, Idle, Judged, Uploading, Phases
<1> QED  BY <1>1, <1>2, <1>3 DEF Inv

(* A photo the function accepts has a type the bucket takes.               *)
LEMMA AcceptableType ==
  ASSUME ConstantsAssumption, NEW ph \in Photos, Acceptable(ph)
  PROVE  photoContentType(ph) \in Types
BY DEF ConstantsAssumption, Acceptable, photoContentType, Types, ALLOWED_CONTENT_TYPES

-----------------------------------------------------------------------------
(* In calm times nobody touches an object but to upload where there is     *)
(* none, to remove a blocked one, or to remove one that is not the row's.  *)
Gentle ==
  /\ blocks' = blocks
  /\ row' = row \/ row = NoRow
  /\ \A t \in Types :
        \/ objects'[t] = objects[t]
        \/ objects[t] \in blocks \cup {NoPhoto}
        \/ row # NoRow /\ row.path # t

LEMMA CallSurvives ==
  ASSUME ConstantsAssumption, TablesOK, Gentle, NEW k, CallOK(k), CallSafe(k)
  PROVE  CallSafe(k)'
<1>1. CASE k = Idle
  BY <1>1 DEF CallSafe, Idle, Judged, Uploading, Phases
<1>2. CASE k # Idle
  <2>1. /\ k.phase \in Uploading => k.own \in Photos /\ Name(k) \in Types
        /\ k.phase \in HasOrphan => k.orphan \in Photos
    BY <1>2 DEF CallOK
  <2>2. {"insert", "judgeOrphan", "adopt"} \subseteq Judged /\ Judged \subseteq Uploading
    BY DEF Judged, Uploading, Phases
  <2>3. k.phase = "insert" /\ row' = NoRow => objects'[Name(k)] = k.own
    BY <2>1, <2>2 DEF Gentle, CallSafe, ConstantsAssumption
  <2>4. k.phase = "judgeOrphan" /\ row' = NoRow =>
          objects'[Name(k)] = k.orphan \/ k.orphan \in blocks'
    BY <2>1, <2>2 DEF Gentle, CallSafe, ConstantsAssumption, HasOrphan
  <2>5. k.phase = "adopt" /\ row' = NoRow => objects'[Name(k)] = k.orphan
    BY <2>1, <2>2 DEF Gentle, CallSafe, ConstantsAssumption, HasOrphan
  <2>6. /\ k.phase \in {"verify", "stray"} => row' # NoRow
        /\ k.phase = "stray" => row'.path # Name(k)
    BY DEF Gentle, CallSafe
  <2>7. /\ k.phase \in Judged => k.own \notin blocks'
        /\ k.phase = "adopt" => k.orphan \notin blocks'
        /\ k.phase = "clear" => k.orphan \in blocks'
    BY DEF Gentle, CallSafe
  <2> QED  BY <2>3, <2>4, <2>5, <2>6, <2>7 DEF CallSafe, Name
<1> QED  BY <1>1, <1>2

(* A step of the call c that leaves it as j.                               *)
LEMMA CallMoves ==
  ASSUME ConstantsAssumption, Inv, InCall, unserved' \subseteq Products,
         NEW c \in Calls, NEW j,
         calls' = [calls EXCEPT ![c] = j],
         CallOK(j), objects' \in [Types -> Photos \cup {NoPhoto}],
         row' = row \/ (row = NoRow /\ row' \in RowType /\ row'.sha \notin row'.known),
         overlap => overlap',
         Calm /\ Calm' => Gentle /\ RowSound' /\ CallSafe(j)'
  PROVE  Inv'
<1>1. /\ UNCHANGED <<listed, source, requests, blocks, operator, used>>
      /\ calls \in [Calls -> {calls[d] : d \in Calls}]
      /\ calls'[c] = j /\ \A d \in Calls \ {c} : calls'[d] = calls[d]
      /\ calls' \in [Calls -> {calls'[d] : d \in Calls}]
  BY DEF Inv, TablesOK, InCall, shops
<1>2. TablesOK'
  BY <1>1 DEF Inv, TablesOK
<1>3. CallsOK'
  <2> SUFFICES ASSUME NEW d \in Calls
               PROVE  CallOK(calls[d])'
    BY DEF CallsOK
  <2>1. PICK k : k = calls'[d]
    OBVIOUS
  <2>2. CallOK(k)
    BY <1>1, <2>1 DEF Inv, CallsOK
  <2>3. CallOK(k)'
    BY <1>1, <2>2 DEF CallOK
  <2> QED  BY <2>1, <2>3 DEF CallOK
<1>4. BlockedNeverShared'
  BY DEF Inv, BlockedNeverShared
<1>5. ASSUME Calm'
      PROVE  RowSound' /\ \A d \in Calls : CallSafe(calls[d])'
  <2>1. Calm
    BY <1>1, <1>5 DEF Calm
  <2> SUFFICES ASSUME NEW d \in Calls
               PROVE  CallSafe(calls[d])'
    BY <1>5, <2>1
  <2>2. PICK k : k = calls'[d]
    OBVIOUS
  <2>3. CallSafe(k)'
    <3>1. CASE d = c
      BY <1>1, <1>5, <2>1, <2>2, <3>1
    <3>2. CASE d # c
      <4>1. CallOK(k) /\ CallSafe(k)
        BY <1>1, <2>1, <2>2, <3>2 DEF Inv, CallsOK
      <4> QED  BY <1>5, <2>1, <4>1, CallSurvives DEF Inv
    <3> QED  BY <3>1, <3>2
  <2> QED  BY <2>2, <2>3 DEF CallSafe
<1> QED  BY <1>2, <1>3, <1>4, <1>5 DEF Inv

LEMMA CallStepKeeps ==
  ASSUME ConstantsAssumption, Inv, CallSteps, NEW c \in Calls, NEW j,
         calls' = [calls EXCEPT ![c] = j],
         CallOK(j), objects' \in [Types -> Photos \cup {NoPhoto}],
         row' = row \/ (row = NoRow /\ row' \in RowType /\ row'.sha \notin row'.known),
         overlap => overlap',
         Calm /\ Calm' => Gentle /\ RowSound' /\ CallSafe(j)'
  PROVE  Inv'
<1>1. InCall /\ unserved' \subseteq Products
  BY DEF CallSteps, Inv, TablesOK
<1> QED  BY <1>1, CallMoves

LEMMA IdleFine == CallOK(Idle) /\ CallSafe(Idle)
BY DEF CallOK, CallSafe, Idle, Judged, Uploading, Phases

(* A step that only reads: everything is as before but for the call.       *)
LEMMA ReadOnlyStepKeeps ==
  ASSUME ConstantsAssumption, Inv, ReadOnly, NEW c \in Calls, NEW j,
         calls' = [calls EXCEPT ![c] = j], CallOK(j), Calm => CallSafe(j)
  PROVE  Inv'
<1>1. CallSteps /\ UNCHANGED <<objects, row, overlap, blocks>>
  BY DEF ReadOnly, CallSteps, InCall
<1>2. objects' \in [Types -> Photos \cup {NoPhoto}]
  BY <1>1 DEF Inv, TablesOK
<1>3. Calm /\ Calm' => Gentle /\ RowSound' /\ CallSafe(j)'
  BY <1>1 DEF Inv, Gentle, RowSound, CallSafe
<1> QED  BY <1>1, <1>2, <1>3, CallStepKeeps

(* What a call at work is known to be.                                     *)
LEMMA AtWork ==
  ASSUME Inv, NEW c \in Calls, calls[c].phase \in Phases
  PROVE  /\ CallOK(calls[c]) /\ calls[c] # Idle /\ calls[c] \in CallType
         /\ Calm => CallSafe(calls[c]) /\ RowSound
         /\ calls \in [Calls -> {calls[d] : d \in Calls}]
<1>1. calls[c] # Idle
  BY DEF Idle, Phases
<1>2. CallOK(calls[c])
  BY DEF Inv, CallsOK
<1> QED  BY <1>1, <1>2 DEF Inv, TablesOK, CallOK

-----------------------------------------------------------------------------
(* The awaits of shareFirstUnblocked.                                      *)
LEMMA CheckRowKeeps ==
  ASSUME ConstantsAssumption, Inv, NEW c \in Calls, CheckRow(c)
  PROVE  Inv'
<1> DEFINE j == [calls[c] EXCEPT !.phase = "next"]
<1>1. calls[c].phase \in Phases /\ ReadOnly
  BY DEF CheckRow, Phases
<1>2. CASE calls' = [calls EXCEPT ![c] = Idle]
  BY <1>1, <1>2, IdleFine, ReadOnlyStepKeeps
<1>3. CASE calls' = [calls EXCEPT ![c] = j]
  <2>1. CallOK(j) /\ CallSafe(j)
    BY <1>1, AtWork DEF CheckRow, CallOK, CallSafe, CallType, HasOrphan, Judged, Uploading, Phases
  <2> QED  BY <1>1, <1>3, <2>1, ReadOnlyStepKeeps
<1>4. calls' = [calls EXCEPT ![c] = Idle] \/ calls' = [calls EXCEPT ![c] = j]
  BY DEF CheckRow, Goes, Finish
<1> QED  BY <1>2, <1>3, <1>4

LEMMA NextCandidateKeeps ==
  ASSUME ConstantsAssumption, Inv, NEW c \in Calls, NextCandidate(c)
  PROVE  Inv'
<1>1. calls[c].phase \in Phases /\ ReadOnly
  BY DEF NextCandidate, Phases
<1>2. CASE Finish(c)
  BY <1>1, <1>2, IdleFine, ReadOnlyStepKeeps DEF Finish
<1>3. ASSUME NEW p \in calls[c].todo, NEW usable \in BOOLEAN,
             usable = (HasSourcePath(p) /\ Acceptable(source[p])),
             calls' = [calls EXCEPT ![c].todo = @ \ {p},
                         ![c].phase = IF usable THEN "judge" ELSE "next",
                         ![c].own = IF usable THEN source[p] ELSE NoPhoto]
      PROVE  Inv'
  <2> DEFINE j == [calls[c] EXCEPT !.todo = @ \ {p},
                     !.phase = IF usable THEN "judge" ELSE "next",
                     !.own = IF usable THEN source[p] ELSE NoPhoto]
  <2>1. calls' = [calls EXCEPT ![c] = j]
    BY <1>1, <1>3, AtWork
  <2>2. calls[c] \in CallType /\ p \in Products /\ source[p] \in Photos \cup {NoPhoto}
    BY <1>1, <1>3, AtWork DEF CallType, Inv, TablesOK
  <2>3. j \in CallType /\ j.phase = (IF usable THEN "judge" ELSE "next")
        /\ j.own = (IF usable THEN source[p] ELSE NoPhoto) /\ j.known = calls[c].known
    BY <2>2 DEF CallType, Phases
  <2>4. usable => source[p] \in Photos /\ photoContentType(source[p]) \in Types
    BY <1>3, <2>2, AcceptableType DEF Acceptable
  <2>5. calls[c].known \subseteq blocks
    BY <1>1, AtWork DEF CallOK
  <2>6. CallOK(j) /\ CallSafe(j)
    BY <2>3, <2>4, <2>5 DEF CallOK, CallSafe, Name, HasOrphan, Judged, Uploading, Phases
  <2> QED  BY <1>1, <2>1, <2>6, ReadOnlyStepKeeps
<1> QED  BY <1>2, <1>3 DEF NextCandidate

LEMMA JudgeOwnKeeps ==
  ASSUME ConstantsAssumption, Inv, NEW c \in Calls, JudgeOwn(c)
  PROVE  Inv'
<1> DEFINE next == IF calls[c].own \in blocks THEN "next" ELSE "upload"
           j == [calls[c] EXCEPT !.phase = next]
<1>1. calls[c].phase = "judge" /\ calls[c].phase \in Phases \cap Uploading /\ ReadOnly
      /\ calls' = [calls EXCEPT ![c].phase = next]
  BY DEF JudgeOwn, Goes, Phases, Uploading
<1>2. calls' = [calls EXCEPT ![c] = j]
  BY <1>1, AtWork
<1>3. calls[c] \in CallType /\ calls[c].own \in Photos /\ Name(calls[c]) \in Types
      /\ calls[c].known \subseteq blocks
  BY <1>1, AtWork DEF CallOK
<1>4. /\ j \in CallType /\ j.phase = next /\ j.own = calls[c].own
      /\ j.known = calls[c].known
  BY <1>3 DEF CallType, Phases
<1>5. CallOK(j) /\ CallSafe(j)
  BY <1>3, <1>4 DEF CallOK, CallSafe, Name, HasOrphan, Judged, Uploading, Phases
<1> QED  BY <1>1, <1>2, <1>5, ReadOnlyStepKeeps

(* A call that goes to another phase with what it has in hand.             *)
LEMMA GoesTyped ==
  ASSUME Inv, NEW c \in Calls, calls[c].phase \in Phases, NEW phase \in Phases, Goes(c, phase)
  PROVE  LET j == [calls[c] EXCEPT !.phase = phase] IN
         /\ calls' = [calls EXCEPT ![c] = j] /\ j \in CallType /\ j.phase = phase
         /\ j.own = calls[c].own /\ j.orphan = calls[c].orphan /\ j.known = calls[c].known
<1>1. calls[c] \in CallType /\ calls \in [Calls -> {calls[d] : d \in Calls}]
  BY AtWork
<1> QED  BY <1>1 DEF Goes, CallType

(* What every call past the judgement of its own photo has.                *)
LEMMA HasOwn ==
  ASSUME Inv, NEW c \in Calls, calls[c].phase \in Judged
  PROVE  /\ calls[c].phase \in Phases /\ calls[c].own \in Photos /\ Name(calls[c]) \in Types
         /\ Path(c) = Name(calls[c])
         /\ calls[c].known \subseteq blocks /\ calls[c].own \notin calls[c].known
         /\ Calm => calls[c].own \notin blocks
         /\ calls[c].phase \in HasOrphan => calls[c].orphan \in Photos
<1>1. calls[c].phase \in Phases /\ calls[c].phase \in Uploading
  BY DEF Judged, Uploading
<1> QED  BY <1>1, AtWork DEF CallOK, CallSafe, Path, Name

LEMMA UploadKeeps ==
  ASSUME ConstantsAssumption, Inv, NEW c \in Calls, Upload(c)
  PROVE  Inv'
<1> DEFINE k == calls[c]
<1>1. /\ k.phase \in {"upload", "again"} /\ k.phase \in Judged
      /\ InCall /\ UNCHANGED <<row, overlap, blocks>>
  BY DEF Upload, Judged, Uploading, Phases, InCall
<1>2. k.phase \in Phases
  BY <1>1, HasOwn
<1>3. CASE objects[Path(c)] = NoPhoto
  <2>1. Goes(c, "insert") /\ CallSteps /\ objects' = [objects EXCEPT ![Path(c)] = k.own]
    BY <1>3 DEF Upload, CallSteps
  <2>2. PICK j : /\ calls' = [calls EXCEPT ![c] = j] /\ j \in CallType
                 /\ j.phase = "insert" /\ j.own = k.own /\ j.known = k.known
    <3>1. "insert" \in Phases
      BY DEF Phases
    <3> DEFINE i == [k EXCEPT !.phase = "insert"]
    <3>2. /\ calls' = [calls EXCEPT ![c] = i] /\ i \in CallType
          /\ i.phase = "insert" /\ i.own = k.own /\ i.known = k.known
      BY <1>2, <2>1, <3>1, GoesTyped
    <3> HIDE DEF i
    <3> QED  BY <3>2
  <2>3. CallOK(j)
    BY <1>1, <2>2, HasOwn DEF CallOK, Name, HasOrphan
  <2>4. /\ objects \in [Types -> Photos \cup {NoPhoto}]
        /\ objects' \in [Types -> Photos \cup {NoPhoto}]
        /\ objects'[Name(k)] = k.own /\ objects[Name(k)] = NoPhoto
        /\ \A t \in Types : t # Name(k) => objects'[t] = objects[t]
    BY <1>1, <1>3, <2>1, HasOwn DEF Inv, TablesOK
  <2>5. ASSUME Calm
        PROVE  Gentle /\ RowSound' /\ CallSafe(j)'
    <3>1. Gentle
      BY <1>1, <2>4 DEF Gentle
    <3>2. RowSound'
      <4>1. RowSound /\ (row = NoRow \/ row \in RowType)
        BY <2>5 DEF Inv, TablesOK
      <4> QED  BY <1>1, <2>4, <4>1 DEF RowSound, RowType, ConstantsAssumption
    <3>3. CallSafe(j)'
      <4>1. objects'[Name(j)] = j.own /\ j.own \notin blocks'
        BY <1>1, <2>2, <2>4, <2>5, HasOwn DEF Name
      <4> QED  BY <2>2, <4>1 DEF CallSafe, Name
    <3> QED  BY <3>1, <3>2, <3>3
  <2>6. row' = row /\ (overlap => overlap')
    BY <1>1
  <2>7. Calm /\ Calm' => Gentle /\ RowSound' /\ CallSafe(j)'
    BY <2>5
  <2> QED  BY <1>1, <2>1, <2>2, <2>3, <2>4, <2>6, <2>7, CallStepKeeps
<1>4. CASE objects[Path(c)] # NoPhoto
  <2>1. objects' = objects
    BY <1>4 DEF Upload
  <2>2. CASE k.phase = "upload"
    <3> DEFINE j == [k EXCEPT !.phase = "exists"]
    <3>1. Goes(c, "exists") /\ "exists" \in Phases
      BY <1>4, <2>2 DEF Upload, Phases
    <3>a. ReadOnly
      BY <1>1, <1>4, <2>1, <2>2 DEF Upload, ReadOnly, CallSteps
    <3>2. /\ calls' = [calls EXCEPT ![c] = j] /\ j \in CallType /\ j.phase = "exists"
          /\ j.own = k.own /\ j.known = k.known
      BY <1>2, <3>1, GoesTyped
    <3>3. CallOK(j) /\ (Calm => CallSafe(j))
      BY <1>1, <3>2, HasOwn DEF CallOK, CallSafe, Name, HasOrphan
    <3> QED  BY <3>a, <3>2, <3>3, ReadOnlyStepKeeps
  <2>3. CASE k.phase # "upload"
    <3>1. calls' = [calls EXCEPT ![c] = Idle] /\ unserved' = unserved \cup k.asked
      BY <1>1, <1>4, <2>3 DEF Upload, GivesWay, Finish
    <3>2. unserved' \subseteq Products
      BY <1>2, <3>1, AtWork DEF Inv, TablesOK, CallType
    <3>3. objects' \in [Types -> Photos \cup {NoPhoto}]
      BY <2>1 DEF Inv, TablesOK
    <3>4. Calm => Gentle /\ RowSound' /\ CallSafe(Idle)'
      BY <1>1, <2>1, IdleFine DEF Inv, Gentle, RowSound, CallSafe
    <3> QED  BY <1>1, <3>1, <3>2, <3>3, <3>4, IdleFine, CallMoves
  <2> QED  BY <2>2, <2>3
<1> QED  BY <1>3, <1>4

LEMMA CheckRowAgainKeeps ==
  ASSUME ConstantsAssumption, Inv, NEW c \in Calls, CheckRowAgain(c)
  PROVE  Inv'
<1> DEFINE k == calls[c]
           j == [k EXCEPT !.phase = "peek"]
<1>1. ReadOnly /\ k.phase \in Judged /\ "peek" \in Phases
  BY DEF CheckRowAgain, Judged, Uploading, Phases
<1>2. CASE Finish(c)
  BY <1>1, <1>2, IdleFine, ReadOnlyStepKeeps DEF Finish
<1>3. CASE Goes(c, "peek")
  <2>1. /\ calls' = [calls EXCEPT ![c] = j] /\ j \in CallType /\ j.phase = "peek"
        /\ j.own = k.own /\ j.known = k.known
    BY <1>1, <1>3, HasOwn, GoesTyped
  <2>2. CallOK(j) /\ (Calm => CallSafe(j))
    BY <1>1, <2>1, HasOwn DEF CallOK, CallSafe, Name, HasOrphan
  <2> QED  BY <1>1, <2>1, <2>2, ReadOnlyStepKeeps
<1> QED  BY <1>2, <1>3 DEF CheckRowAgain

LEMMA DownloadOrphanKeeps ==
  ASSUME ConstantsAssumption, Inv, NEW c \in Calls, DownloadOrphan(c)
  PROVE  Inv'
<1> DEFINE k == calls[c]
           found == objects[Path(c)]
           next == IF found = NoPhoto THEN "again" ELSE "judgeOrphan"
           j == [k EXCEPT !.orphan = found, !.phase = next]
<1>1. ReadOnly /\ k.phase \in Judged
  BY DEF DownloadOrphan, Judged, Uploading, Phases
<1>2. calls' = [calls EXCEPT ![c].orphan = found, ![c].phase = next]
  BY DEF DownloadOrphan
<1>3. k \in CallType /\ calls \in [Calls -> {calls[d] : d \in Calls}]
  BY <1>1, HasOwn, AtWork
<1>4. found \in Photos \cup {NoPhoto} /\ found = objects[Name(k)]
  BY <1>1, HasOwn DEF Inv, TablesOK
<1>5. next \in Phases
  BY DEF Phases
<1>6. /\ calls' = [calls EXCEPT ![c] = j] /\ j \in CallType /\ j.phase = next
      /\ j.own = k.own /\ j.known = k.known /\ j.orphan = found
  BY <1>2, <1>3, <1>4, <1>5 DEF CallType
<1>7. CallOK(j) /\ (Calm => CallSafe(j))
  BY <1>1, <1>4, <1>6, HasOwn DEF CallOK, CallSafe, Name, HasOrphan
<1> QED  BY <1>1, <1>6, <1>7, ReadOnlyStepKeeps

LEMMA JudgeOrphanKeeps ==
  ASSUME ConstantsAssumption, Inv, NEW c \in Calls, JudgeOrphan(c)
  PROVE  Inv'
<1> DEFINE k == calls[c]
           next == IF k.orphan \in blocks THEN "clear" ELSE "adopt"
           j == [k EXCEPT !.phase = next]
<1>1. ReadOnly /\ k.phase \in Judged /\ k.phase = "judgeOrphan" /\ next \in Phases
      /\ Goes(c, next) /\ k.phase \in HasOrphan
  BY DEF JudgeOrphan, Judged, Uploading, Phases, HasOrphan
<1>2. /\ calls' = [calls EXCEPT ![c] = j] /\ j \in CallType /\ j.phase = next
      /\ j.own = k.own /\ j.known = k.known /\ j.orphan = k.orphan
  BY <1>1, HasOwn, GoesTyped
<1>3. Calm => CallSafe(k)
  BY <1>1, HasOwn, AtWork
<1>4. CallOK(j)
  BY <1>1, <1>2, HasOwn DEF CallOK, Name, HasOrphan
<1>5. Calm => CallSafe(j)
  BY <1>1, <1>2, <1>3, HasOwn DEF CallSafe, Name
<1> QED  BY <1>1, <1>2, <1>4, <1>5, ReadOnlyStepKeeps

(* Inserting the row for a photo that is in the bucket and is not blocked. *)
LEMMA InsertKeepsRow ==
  ASSUME ConstantsAssumption, Inv, NEW c \in Calls, calls[c].phase \in Judged,
         NEW ph \in Photos, InsertSharedRow(c, ph), ph \notin calls[c].known,
         UNCHANGED <<objects, blocks>>,
         Calm => ph \notin blocks /\ (row = NoRow => objects[Name(calls[c])] = ph)
  PROVE  /\ row' = row \/ (row = NoRow /\ row' \in RowType /\ row'.sha \notin row'.known)
         /\ row' # NoRow
         /\ Calm => Gentle /\ RowSound'
<1>1. Path(c) \in Types /\ Path(c) = Name(calls[c]) /\ calls[c].known \subseteq Photos
  BY HasOwn DEF Inv, TablesOK
<1>2. CASE row = NoRow
  <2>1. PICK r : r = [path |-> Path(c), sha |-> ph, known |-> calls[c].known]
    OBVIOUS
  <2>2. row' = r /\ r \in RowType /\ r.path = Path(c) /\ r.sha = ph /\ r.known = calls[c].known
    BY <1>1, <1>2, <2>1 DEF InsertSharedRow, RowType
  <2>3. r # NoRow
    BY <2>1 DEF NoRow
  <2>4. Calm => Gentle /\ RowSound'
    BY <1>1, <1>2, <2>2 DEF Gentle, RowSound
  <2> QED  BY <1>2, <2>2, <2>3, <2>4
<1>3. CASE row # NoRow
  <2>1. row' = row
    BY <1>3 DEF InsertSharedRow
  <2> QED  BY <1>3, <2>1 DEF Gentle, RowSound, Inv
<1> QED  BY <1>2, <1>3

LEMMA AdoptOrphanKeeps ==
  ASSUME ConstantsAssumption, Inv, NEW c \in Calls, AdoptOrphan(c)
  PROVE  Inv'
<1> DEFINE k == calls[c]
<1>1. /\ k.phase = "adopt" /\ k.phase \in Judged /\ k.phase \in HasOrphan
      /\ InsertSharedRow(c, k.orphan) /\ calls' = [calls EXCEPT ![c] = Idle]
      /\ CallSteps /\ UNCHANGED <<objects, overlap, blocks>>
  BY DEF AdoptOrphan, Judged, Uploading, Phases, HasOrphan, Finish, CallSteps, InCall
<1>2. k.orphan \in Photos /\ k.orphan \notin k.known
      /\ (Calm => k.orphan \notin blocks /\ (row = NoRow => objects[Name(k)] = k.orphan))
  BY <1>1, HasOwn, AtWork DEF CallOK, CallSafe
<1>3. /\ row' = row \/ (row = NoRow /\ row' \in RowType /\ row'.sha \notin row'.known)
      /\ Calm => Gentle /\ RowSound'
  BY <1>1, <1>2, InsertKeepsRow
<1>4. CallSafe(Idle)'
  BY DEF CallSafe, Idle, Judged, Uploading, Phases
<1>5. objects' \in [Types -> Photos \cup {NoPhoto}] /\ (overlap => overlap')
  BY <1>1 DEF Inv, TablesOK
<1> QED  BY <1>1, <1>3, <1>4, <1>5, IdleFine, CallStepKeeps DEF Idle

LEMMA InsertOwnKeeps ==
  ASSUME ConstantsAssumption, Inv, NEW c \in Calls, InsertOwn(c)
  PROVE  Inv'
<1> DEFINE k == calls[c]
<1>1. /\ k.phase = "insert" /\ k.phase \in Judged /\ "verify" \in Phases
      /\ InsertSharedRow(c, k.own) /\ Goes(c, "verify")
      /\ CallSteps /\ UNCHANGED <<objects, overlap, blocks>>
  BY DEF InsertOwn, Judged, Uploading, Phases, CallSteps, InCall
<1>2. k.own \in Photos /\ k.own \notin k.known
      /\ (Calm => k.own \notin blocks /\ (row = NoRow => objects[Name(k)] = k.own))
  BY <1>1, HasOwn, AtWork DEF CallSafe
<1>3. /\ row' = row \/ (row = NoRow /\ row' \in RowType /\ row'.sha \notin row'.known)
      /\ row' # NoRow /\ (Calm => Gentle /\ RowSound')
  BY <1>1, <1>2, InsertKeepsRow
<1>4. PICK j : /\ calls' = [calls EXCEPT ![c] = j] /\ j \in CallType
               /\ j.phase = "verify" /\ j.own = k.own /\ j.known = k.known
  <2> DEFINE i == [k EXCEPT !.phase = "verify"]
  <2>1. /\ calls' = [calls EXCEPT ![c] = i] /\ i \in CallType
        /\ i.phase = "verify" /\ i.own = k.own /\ i.known = k.known
    BY <1>1, HasOwn, GoesTyped
  <2> HIDE DEF i
  <2> QED  BY <2>1
<1>5. CallOK(j)
  BY <1>1, <1>4, HasOwn DEF CallOK, Name, HasOrphan
<1>6. Calm => CallSafe(j)'
  BY <1>1, <1>2, <1>3, <1>4 DEF CallSafe
<1>7. objects' \in [Types -> Photos \cup {NoPhoto}] /\ (overlap => overlap')
  BY <1>1 DEF Inv, TablesOK
<1> QED  BY <1>1, <1>3, <1>4, <1>5, <1>6, <1>7, CallStepKeeps

LEMMA VerifyRowKeeps ==
  ASSUME ConstantsAssumption, Inv, NEW c \in Calls, VerifyRow(c)
  PROVE  Inv'
<1> DEFINE k == calls[c]
           j == [k EXCEPT !.phase = "stray"]
<1>1. ReadOnly /\ k.phase = "verify" /\ k.phase \in Judged /\ "stray" \in Phases
  BY DEF VerifyRow, Judged, Uploading, Phases
<1>2. CASE row.path = Path(c)
  <2>1. calls' = [calls EXCEPT ![c] = Idle]
    BY <1>2 DEF VerifyRow, Finish
  <2> QED  BY <1>1, <2>1, IdleFine, ReadOnlyStepKeeps
<1>3. CASE row.path # Path(c)
  <2>1. Goes(c, "stray")
    BY <1>3 DEF VerifyRow
  <2>2. /\ calls' = [calls EXCEPT ![c] = j] /\ j \in CallType /\ j.phase = "stray"
        /\ j.own = k.own /\ j.known = k.known
    BY <1>1, <2>1, HasOwn, GoesTyped
  <2>3. CallOK(j)
    BY <1>1, <2>2, HasOwn DEF CallOK, Name, HasOrphan
  <2>4. Calm => row # NoRow /\ k.own \notin blocks
    BY <1>1, HasOwn, AtWork DEF CallSafe
  <2>5. row.path # Name(j)
    BY <1>1, <1>3, <2>2, HasOwn DEF Name
  <2>6. Calm => CallSafe(j)
    BY <2>2, <2>4, <2>5 DEF CallSafe
  <2> QED  BY <1>1, <2>2, <2>3, <2>6, ReadOnlyStepKeeps
<1> QED  BY <1>2, <1>3

(* A removal that takes what it means to take.                             *)
LEMMA RemovalGentle ==
  ASSUME ConstantsAssumption, Inv, NEW c \in Calls, calls[c].phase \in Judged,
         NEW meant, RemoveShared(c, meant), UNCHANGED <<row, blocks>>,
         Calm => meant \in blocks \/ (row # NoRow /\ row.path # Name(calls[c]))
  PROVE  /\ objects' \in [Types -> Photos \cup {NoPhoto}] /\ (overlap => overlap')
         /\ Calm /\ Calm' => Gentle /\ RowSound'
<1>1. /\ Path(c) = Name(calls[c]) /\ Path(c) \in Types
      /\ objects \in [Types -> Photos \cup {NoPhoto}]
  BY HasOwn DEF Inv, TablesOK
<1>2. /\ objects' \in [Types -> Photos \cup {NoPhoto}]
      /\ \A t \in Types : t # Path(c) => objects'[t] = objects[t]
  BY <1>1 DEF RemoveShared
<1>3. ASSUME Calm, Calm'
      PROVE  Gentle /\ RowSound'
  <2>1. objects[Path(c)] \in {meant, NoPhoto} /\ (row = NoRow \/ row \in RowType) /\ RowSound
    BY <1>3 DEF RemoveShared, Calm, Inv, TablesOK
  <2>2. CASE row # NoRow /\ row.path # Path(c)
    <3>1. Gentle
      BY <1>2, <2>2 DEF Gentle
    <3>2. RowSound'
      BY <1>2, <2>1, <2>2 DEF RowSound, RowType
    <3> QED  BY <3>1, <3>2
  <2>3. CASE meant \in blocks /\ ~(row # NoRow /\ row.path # Path(c))
    <3>1. Gentle
      BY <1>2, <2>1, <2>3 DEF Gentle
    <3>2. row # NoRow => objects[row.path] = row.sha /\ row.sha \notin blocks
                         /\ row.sha \in Photos
      BY <2>1 DEF RowSound, RowType
    <3>3. row = NoRow
      BY <2>1, <2>3, <3>2 DEF ConstantsAssumption
    <3> QED  BY <3>1, <3>3 DEF RowSound
  <2> QED  BY <1>1, <1>3, <2>2, <2>3
<1> QED  BY <1>2, <1>3 DEF RemoveShared

LEMMA RemoveBlockedOrphanKeeps ==
  ASSUME ConstantsAssumption, Inv, NEW c \in Calls, RemoveBlockedOrphan(c)
  PROVE  Inv'
<1> DEFINE k == calls[c]
<1>1. /\ k.phase = "clear" /\ k.phase \in Judged /\ "again" \in Phases
      /\ RemoveShared(c, k.orphan) /\ Goes(c, "again")
      /\ CallSteps /\ UNCHANGED <<row, blocks>>
  BY DEF RemoveBlockedOrphan, Judged, Uploading, Phases, CallSteps, InCall
<1>2. Calm => k.orphan \in blocks
  BY <1>1, HasOwn, AtWork DEF CallSafe
<1>3. /\ objects' \in [Types -> Photos \cup {NoPhoto}] /\ (overlap => overlap')
      /\ Calm /\ Calm' => Gentle /\ RowSound'
  BY <1>1, <1>2, RemovalGentle
<1>4. PICK j : /\ calls' = [calls EXCEPT ![c] = j] /\ j \in CallType
               /\ j.phase = "again" /\ j.own = k.own /\ j.known = k.known
  <2> DEFINE i == [k EXCEPT !.phase = "again"]
  <2>1. /\ calls' = [calls EXCEPT ![c] = i] /\ i \in CallType
        /\ i.phase = "again" /\ i.own = k.own /\ i.known = k.known
    BY <1>1, HasOwn, GoesTyped
  <2> HIDE DEF i
  <2> QED  BY <2>1
<1>5. CallOK(j)
  BY <1>1, <1>4, HasOwn DEF CallOK, Name, HasOrphan
<1>6. Calm => CallSafe(j)'
  BY <1>1, <1>4, HasOwn DEF CallSafe
<1> QED  BY <1>1, <1>3, <1>4, <1>5, <1>6, CallStepKeeps

LEMMA RemoveStrayKeeps ==
  ASSUME ConstantsAssumption, Inv, NEW c \in Calls, RemoveStray(c)
  PROVE  Inv'
<1> DEFINE k == calls[c]
<1>1. /\ k.phase = "stray" /\ k.phase \in Judged
      /\ RemoveShared(c, k.own) /\ calls' = [calls EXCEPT ![c] = Idle]
      /\ CallSteps /\ UNCHANGED <<row, blocks>>
  BY DEF RemoveStray, Judged, Uploading, Phases, Finish, CallSteps, InCall
<1>2. Calm => row # NoRow /\ row.path # Name(k)
  BY <1>1, HasOwn, AtWork DEF CallSafe
<1>3. /\ objects' \in [Types -> Photos \cup {NoPhoto}] /\ (overlap => overlap')
      /\ Calm /\ Calm' => Gentle /\ RowSound'
  BY <1>1, <1>2, RemovalGentle
<1>4. CallSafe(Idle)'
  BY DEF CallSafe, Idle, Judged, Uploading, Phases
<1> QED  BY <1>1, <1>3, <1>4, IdleFine, CallStepKeeps DEF Idle

LEMMA StepKeeps ==
  ASSUME ConstantsAssumption, Inv, NEW c \in Calls, Step(c)
  PROVE  Inv'
BY CheckRowKeeps, NextCandidateKeeps, JudgeOwnKeeps, UploadKeeps, CheckRowAgainKeeps,
   DownloadOrphanKeeps, JudgeOrphanKeeps, AdoptOrphanKeeps, RemoveBlockedOrphanKeeps,
   InsertOwnKeeps, VerifyRowKeeps, RemoveStrayKeeps DEF Step

-----------------------------------------------------------------------------
(* The beginning and the death of a call: j is what the call is then.      *)
LEMMA CallsKeep ==
  ASSUME ConstantsAssumption, Inv, NEW c \in Calls, NEW j,
         calls' = [calls EXCEPT ![c] = j] \/ UNCHANGED calls,
         CallOK(j), CallSafe(j),
         UNCHANGED <<listed, source, objects, row, blocks, operator, overlap>>,
         requests' \subseteq requests, unserved' \subseteq Products
  PROVE  Inv'
<1>1. /\ calls \in [Calls -> {calls[d] : d \in Calls}]
      /\ \A d \in Calls : calls'[d] = calls[d] \/ calls'[d] = j
      /\ calls' \in [Calls -> {calls'[d] : d \in Calls}]
  BY DEF Inv, TablesOK
<1>2. TablesOK'
  BY <1>1 DEF Inv, TablesOK
<1>3. \A d \in Calls : CallOK(calls'[d]) /\ (Calm => CallSafe(calls'[d]))
  BY <1>1 DEF Inv, CallsOK
<1>4. CallsOK'
  BY <1>3 DEF CallsOK, CallOK
<1>5. BlockedNeverShared' /\ (Calm' => Calm) /\ (RowSound => RowSound')
  BY DEF Inv, BlockedNeverShared, Calm, RowSound
<1>6. Calm => \A d \in Calls : CallSafe(calls[d])'
  BY <1>3 DEF CallSafe
<1> QED  BY <1>2, <1>4, <1>5, <1>6 DEF Inv

LEMMA AskedTyped ==
  ASSUME Inv, NEW req \in requests
  PROVE  Asked(req) \subseteq Products /\ Candidates(req) \subseteq Products
BY DEF Inv, TablesOK, Asked, Candidates, ByGtin, ByRecord

LEMMA StartCallKeeps ==
  ASSUME ConstantsAssumption, Inv, NEW c \in Calls, NEW req \in requests, StartCall(c, req)
  PROVE  Inv'
<1> DEFINE i == [phase |-> "row", todo |-> Candidates(req), own |-> NoPhoto,
                 orphan |-> NoPhoto, known |-> blocks, asked |-> Asked(req)]
<1>1. PICK j : j = i
  OBVIOUS
<1>2. j \in CallType /\ j.phase = "row" /\ j.known = blocks
  BY <1>1, AskedTyped DEF CallType, Phases, Inv, TablesOK
<1>3. CallOK(j) /\ CallSafe(j)
  BY <1>2 DEF CallOK, CallSafe, HasOrphan, Judged, Uploading, Phases
<1>4. /\ calls' = [calls EXCEPT ![c] = j] \/ UNCHANGED calls
      /\ UNCHANGED <<listed, source, objects, row, blocks, operator, overlap, unserved>>
      /\ requests' \subseteq requests
  BY <1>1 DEF StartCall, shops, shared
<1>5. unserved' \subseteq Products
  BY <1>4 DEF Inv, TablesOK
<1> QED  BY <1>3, <1>4, <1>5, CallsKeep

LEMMA CallFailsKeeps ==
  ASSUME ConstantsAssumption, Inv, NEW c \in Calls, CallFails(c)
  PROVE  Inv'
<1>1. /\ calls' = [calls EXCEPT ![c] = Idle]
      /\ UNCHANGED <<listed, source, objects, row, blocks, operator, overlap, requests>>
      /\ unserved' = unserved \cup calls[c].asked
  BY DEF CallFails, Finish, shops, shared
<1>2. unserved' \subseteq Products
  BY <1>1 DEF CallFails, Inv, TablesOK, CallsOK, CallOK, CallType
<1> QED  BY <1>1, <1>2, IdleFine, CallsKeep

(* The shops and the operator leave the calls alone.  Times are calm after *)
(* their step if they were and the step does not concern the bucket, or if *)
(* a removal ends that found nobody at work.                               *)
LEMMA OthersKeep ==
  ASSUME ConstantsAssumption, Inv, UNCHANGED calls,
         listed' \subseteq Products, source' \in [Products -> Photos \cup {NoPhoto}],
         requests' \subseteq {ByGtin} \cup {ByRecord(p) : p \in Products},
         unserved' \subseteq Products, objects' \in [Types -> Photos \cup {NoPhoto}],
         blocks \subseteq blocks', blocks' \subseteq Photos, row' \in {row, NoRow},
         Calm' => \/ Calm /\ UNCHANGED <<objects, row, blocks>>
                  \/ row' = NoRow /\ \A c \in Calls : calls[c] = Idle
  PROVE  Inv'
<1>1. TablesOK'
  BY DEF Inv, TablesOK
<1>2. CallsOK'
  <2> SUFFICES ASSUME NEW d \in Calls
               PROVE  CallOK(calls[d])'
    BY DEF CallsOK
  <2>1. PICK k : k = calls[d]
    OBVIOUS
  <2>2. CallOK(k)
    BY <2>1 DEF Inv, CallsOK
  <2>3. CallOK(k)'
    BY <2>2 DEF CallOK
  <2> QED  BY <2>1, <2>3 DEF CallOK
<1>3. BlockedNeverShared'
  BY DEF Inv, BlockedNeverShared
<1>4. CASE Calm' /\ Calm /\ UNCHANGED <<objects, row, blocks>>
  BY <1>1, <1>2, <1>3, <1>4 DEF Inv, RowSound, CallSafe
<1>5. CASE Calm' /\ row' = NoRow /\ \A c \in Calls : calls[c] = Idle
  <2>1. RowSound'
    BY <1>5 DEF RowSound
  <2>2. \A c \in Calls : CallSafe(calls[c])'
    BY <1>5 DEF CallSafe, Idle, Judged, Uploading, Phases
  <2> QED  BY <1>1, <1>2, <1>3, <2>1, <2>2 DEF Inv
<1>6. CASE ~Calm'
  BY <1>1, <1>2, <1>3, <1>6 DEF Inv
<1> QED  BY <1>4, <1>5, <1>6

LEMMA ShopsKeep ==
  ASSUME ConstantsAssumption, Inv, NEW p \in Products,
         (\E ph \in PhotosOf[p] : SaveProduct(p, ph))
           \/ (\E onlyObject \in BOOLEAN : DropProduct(p, onlyObject))
  PROVE  Inv'
<1> DEFINE Typed ==
      /\ UNCHANGED <<calls, objects, row, blocks, operator, overlap>>
      /\ listed' \subseteq Products /\ source' \in [Products -> Photos \cup {NoPhoto}]
      /\ requests' \subseteq {ByGtin} \cup {ByRecord(q) : q \in Products}
      /\ unserved' \subseteq Products
<1>1. Typed
  <2>1. ASSUME NEW ph \in PhotosOf[p], SaveProduct(p, ph)
        PROVE  Typed
    BY <2>1 DEF SaveProduct, shared, Inv, TablesOK, ConstantsAssumption
  <2>2. ASSUME NEW onlyObject \in BOOLEAN, DropProduct(p, onlyObject)
        PROVE  Typed
    BY <2>2 DEF DropProduct, shared, Inv, TablesOK
  <2> QED  BY <2>1, <2>2
<1>2. Calm' => Calm
  BY <1>1 DEF Calm
<1>3. objects' \in [Types -> Photos \cup {NoPhoto}] /\ blocks' \subseteq Photos
  BY <1>1 DEF Inv, TablesOK
<1> QED  BY <1>1, <1>2, <1>3, OthersKeep

LEMMA LoseRequestKeeps ==
  ASSUME ConstantsAssumption, Inv, NEW req \in requests, LoseRequest(req)
  PROVE  Inv'
<1>1. /\ UNCHANGED <<calls, listed, source, objects, row, blocks, operator, overlap>>
      /\ requests' \subseteq requests /\ unserved' \subseteq Products
  BY AskedTyped DEF LoseRequest, shops, shared, Inv, TablesOK
<1>2. Calm' => Calm
  BY <1>1 DEF Calm
<1>3. Inv => TablesOK
  BY DEF Inv
<1> QED  BY <1>1, <1>2, <1>3, OthersKeep DEF TablesOK

LEMMA RunbookKeeps == ASSUME ConstantsAssumption, Inv, Runbook PROVE Inv'
<1>1. /\ TablesOK /\ UNCHANGED <<calls, listed, source>>
      /\ row' \in {row, NoRow} /\ blocks \subseteq blocks'
  BY DEF Inv, Runbook, BlockPhoto, DeleteRow, DeleteObject, Promote, OperatorSteps, shops, shared
<1>2. /\ objects' \in [Types -> Photos \cup {NoPhoto}] /\ blocks' \subseteq Photos
      /\ requests' \subseteq {ByGtin} \cup {ByRecord(p) : p \in Products}
      /\ unserved' \subseteq Products
  <2>1. CASE BlockPhoto
    BY <1>1, <2>1 DEF BlockPhoto, TablesOK, RowType
  <2>2. CASE DeleteRow
    BY <1>1, <2>2 DEF DeleteRow, TablesOK
  <2>3. CASE DeleteObject
    BY <1>1, <2>3 DEF DeleteObject, TablesOK
  <2>4. CASE Promote
    BY <1>1, <2>4 DEF Promote, shared, TablesOK
  <2> QED  BY <2>1, <2>2, <2>3, <2>4 DEF Runbook
<1>3. Calm' => \/ Calm /\ UNCHANGED <<objects, row, blocks>>
               \/ row' = NoRow /\ \A c \in Calls : calls[c] = Idle
  <2>1. CASE BlockPhoto \/ DeleteRow
    BY <2>1 DEF BlockPhoto, DeleteRow, OperatorSteps, Calm
  <2>2. CASE DeleteObject
    BY <2>2 DEF DeleteObject, RemovalOverlaps, Calm
  <2>3. CASE Promote
    BY <2>3 DEF Promote, RemovalOverlaps, OperatorSteps, Calm, shared
  <2> QED  BY <2>1, <2>2, <2>3 DEF Runbook
<1> QED  BY <1>1, <1>2, <1>3, OthersKeep DEF TablesOK

-----------------------------------------------------------------------------
LEMMA NextKeeps == ASSUME ConstantsAssumption, Inv, [Next]_vars PROVE Inv'
<1>1. CASE UNCHANGED vars
  <2>1. UNCHANGED <<listed, source, requests, objects, row, blocks, calls, operator, used,
                    overlap, unserved>>
    BY <1>1 DEF vars
  <2>2. Calm' => Calm
    BY <2>1 DEF Calm
  <2>3. TablesOK
    BY DEF Inv
  <2> QED  BY <2>1, <2>2, <2>3, OthersKeep DEF TablesOK
<1>2. CASE Next
  BY <1>2, ShopsKeep, RunbookKeeps, LoseRequestKeeps, StartCallKeeps, StepKeeps,
     CallFailsKeeps DEF Next
<1> QED  BY <1>1, <1>2

LEMMA InvHolds == Spec => []Inv
<1>1. Init => Inv
  BY ConstantsAssumption, InitInv
<1>2. Inv /\ [Next]_vars => Inv'
  BY ConstantsAssumption, NextKeeps
<1> QED  BY <1>1, <1>2, PTL DEF Spec

-----------------------------------------------------------------------------
(* Every variable keeps its type: in particular a call past the choice of  *)
(* a photo has one, of a type the bucket takes.                            *)
THEOREM TypeCorrect == Spec => []TypeOK
<1>1. Inv => TypeOK
  BY InvTyped
<1> QED  BY <1>1, InvHolds, PTL

(* However calls and removals overlap, a photo that was blocked before a   *)
(* request began is not shared by it, uploaded or adopted.                 *)
THEOREM BlockedStaysOut == Spec => []BlockedNeverShared
<1>1. Inv => BlockedNeverShared
  BY DEF Inv
<1> QED  BY <1>1, InvHolds, PTL

(* Whatever calls race for a barcode or die on the way, the photo of the   *)
(* row is in the bucket and has the hash of the row, in calm times.        *)
THEOREM RowIsSound == Spec => []RowHasItsPhoto
<1>1. Inv => RowHasItsPhoto
  BY DEF Inv, RowHasItsPhoto, RowSound, Calm
<1> QED  BY <1>1, InvHolds, PTL

-----------------------------------------------------------------------------
(* The bucket.  An object of the barcode is the row's, or is being removed *)
(* by the operator, or belongs to a call that has uploaded it and not yet  *)
(* compared it with the row; only a failure takes such a call, or such a   *)
(* removal, away before it is done.                                        *)
Holding == {"insert", "verify", "stray"}

Kept(t) ==
  \/ row # NoRow /\ row.path = t
  \/ operator.step = "deleted" /\ operator.path = t
  \/ \E c \in Calls : calls[c].phase \in Holding /\ Name(calls[c]) = t

UsedOK == used \in [events : Nat, faults : Nat, removals : Nat]

StrayInv ==
  /\ UsedOK
  /\ used.faults = 0 => \A t \in Types : objects[t] # NoPhoto => Kept(t)

LEMMA UsesCounts ==
  ASSUME UsedOK, NEW what \in {"events", "faults", "removals"}, NEW max, Uses(what, max)
  PROVE  /\ UsedOK'
         /\ used'.faults = IF what = "faults" THEN used.faults + 1 ELSE used.faults
BY DEF UsedOK, Uses

LEMMA NoRowHasNoType == \A t \in Types : NoRow.path # t
BY DEF NoRow, Types, ALLOWED_CONTENT_TYPES

(* A step of the call c.                                                   *)
LEMMA CallMoveTidy ==
  ASSUME StrayInv, UNCHANGED <<used, operator>>, NEW c \in Calls,
         \A d \in Calls \ {c} : calls'[d] = calls[d],
         row' = row \/ row = NoRow,
         \A t \in Types : objects'[t] # NoPhoto =>
           /\ objects[t] = NoPhoto => calls'[c].phase \in Holding /\ Name(calls'[c]) = t
           /\ calls[c].phase \in Holding /\ Name(calls[c]) = t =>
                \/ calls'[c].phase \in Holding /\ Name(calls'[c]) = t
                \/ row' # NoRow /\ row'.path = t
  PROVE  StrayInv'
<1>1. UsedOK'
  BY DEF StrayInv, UsedOK
<1>2. ASSUME used'.faults = 0, NEW t \in Types, objects'[t] # NoPhoto
      PROVE  Kept(t)'
  <2>1. objects[t] # NoPhoto \/ (calls'[c].phase \in Holding /\ Name(calls'[c]) = t)
    BY <1>2
  <2>2. CASE calls'[c].phase \in Holding /\ Name(calls'[c]) = t
    BY <2>2 DEF Kept, Name
  <2>3. CASE objects[t] # NoPhoto
    <3>1. Kept(t)
      BY <1>2, <2>3 DEF StrayInv
    <3>2. CASE row # NoRow /\ row.path = t
      BY <3>2 DEF Kept
    <3>3. CASE operator.step = "deleted" /\ operator.path = t
      BY <3>3 DEF Kept
    <3>4. ASSUME NEW d \in Calls, calls[d].phase \in Holding, Name(calls[d]) = t
          PROVE  Kept(t)'
      <4>1. CASE d = c
        BY <1>2, <2>2, <3>4, <4>1 DEF Kept
      <4>2. CASE d # c
        BY <3>4, <4>2 DEF Kept, Name
      <4> QED  BY <4>1, <4>2
    <3> QED  BY <3>1, <3>2, <3>3, <3>4 DEF Kept
  <2> QED  BY <2>1, <2>2, <2>3
<1> QED  BY <1>1, <1>2 DEF StrayInv

(* A call that holds nothing may go where it likes and remove what it      *)
(* likes, as long as it uploads nothing.                                   *)
LEMMA EmptyHandedTidy ==
  ASSUME StrayInv, UNCHANGED <<used, operator>>, NEW c \in Calls,
         \A d \in Calls \ {c} : calls'[d] = calls[d],
         row' = row \/ row = NoRow,
         \A t \in Types : objects'[t] \in {objects[t], NoPhoto},
         calls[c].phase \notin Holding
  PROVE  StrayInv'
<1>1. \A t \in Types : objects'[t] # NoPhoto => objects[t] # NoPhoto
  OBVIOUS
<1> QED  BY <1>1, CallMoveTidy

LEMMA ReaderTidy ==
  ASSUME Inv, StrayInv, ReadOnly, NEW c \in Calls,
         \A d \in Calls \ {c} : calls'[d] = calls[d], calls[c].phase \notin Holding
  PROVE  StrayInv'
BY EmptyHandedTidy DEF ReadOnly, CallSteps, InCall

LEMMA RemovalShrinks ==
  ASSUME Inv, NEW c \in Calls, NEW meant, RemoveShared(c, meant)
  PROVE  /\ \A t \in Types : objects'[t] \in {objects[t], NoPhoto}
         /\ Path(c) \in Types => objects'[Path(c)] = NoPhoto
BY DEF RemoveShared, Inv, TablesOK

LEMMA GoesOn ==
  ASSUME Inv, NEW c \in Calls, calls[c].phase \in Phases, NEW phase \in Phases, Goes(c, phase)
  PROVE  /\ calls'[c].phase = phase /\ calls'[c].own = calls[c].own
         /\ calls'[c].todo = calls[c].todo /\ calls'[c].asked = calls[c].asked
<1>1. calls[c] \in CallType /\ calls \in [Calls -> {calls[d] : d \in Calls}]
  BY AtWork
<1> QED  BY <1>1 DEF Goes, CallType

LEMMA UploadTidy ==
  ASSUME Inv, StrayInv, NEW c \in Calls, Upload(c)
  PROVE  StrayInv'
<1>1. /\ calls[c].phase \in Judged /\ calls[c].phase \notin Holding
      /\ UNCHANGED <<used, operator, row>> /\ "insert" \in Phases
  BY DEF Upload, InCall, Judged, Uploading, Phases, Holding
<1>2. calls \in [Calls -> {calls[d] : d \in Calls}]
  BY DEF Inv, TablesOK
<1>3. CASE objects[Path(c)] = NoPhoto
  <2>1. Goes(c, "insert") /\ objects' = [objects EXCEPT ![Path(c)] = calls[c].own]
    BY <1>3 DEF Upload
  <2>2. calls'[c].phase = "insert" /\ calls'[c].own = calls[c].own
    BY <1>1, <2>1, HasOwn, GoesOn
  <2>3. \A d \in Calls \ {c} : calls'[d] = calls[d]
    BY <1>2, <2>1 DEF Goes
  <2>4. Path(c) = Name(calls'[c])
    BY <2>2 DEF Path, Name
  <2>5. \A t \in Types : t # Path(c) => objects'[t] = objects[t]
    BY <2>1 DEF Inv, TablesOK
  <2>6. calls'[c].phase \in Holding
    BY <2>2 DEF Holding
  <2>7. \A t \in Types : objects'[t] # NoPhoto /\ objects[t] = NoPhoto
                           => calls'[c].phase \in Holding /\ Name(calls'[c]) = t
    BY <2>4, <2>5, <2>6
  <2> QED  BY <1>1, <2>3, <2>7, CallMoveTidy
<1>4. CASE objects[Path(c)] # NoPhoto
  <2>1. objects' = objects /\ (Goes(c, "exists") \/ Finish(c))
    BY <1>4 DEF Upload, GivesWay
  <2>2. \A d \in Calls \ {c} : calls'[d] = calls[d]
    BY <1>2, <2>1 DEF Goes, Finish
  <2> QED  BY <1>1, <2>1, <2>2, EmptyHandedTidy
<1> QED  BY <1>3, <1>4

(* The upload is still held when its row has been tried.                   *)
LEMMA InsertOwnTidy ==
  ASSUME Inv, StrayInv, NEW c \in Calls, InsertOwn(c)
  PROVE  StrayInv'
<1>1. /\ calls[c].phase \in Judged /\ "verify" \in Phases /\ Goes(c, "verify")
      /\ UNCHANGED <<used, operator, objects>> /\ (row' = row \/ row = NoRow)
  BY DEF InsertOwn, InsertSharedRow, CallSteps, InCall, Judged, Uploading, Phases
<1>2. calls'[c].phase = "verify" /\ calls'[c].own = calls[c].own
  BY <1>1, HasOwn, GoesOn
<1>3. \A d \in Calls \ {c} : calls'[d] = calls[d]
  BY <1>1 DEF Goes, Inv, TablesOK
<1>4. calls'[c].phase \in Holding /\ Name(calls'[c]) = Name(calls[c])
  BY <1>2 DEF Holding, Name
<1> QED  BY <1>1, <1>3, <1>4, CallMoveTidy

(* It is let go of only when it is the row's.                              *)
LEMMA VerifyRowTidy ==
  ASSUME Inv, StrayInv, NEW c \in Calls, VerifyRow(c)
  PROVE  StrayInv'
<1>1. /\ calls[c].phase \in Judged /\ "stray" \in Phases
      /\ UNCHANGED <<used, operator, objects, row>>
  BY DEF VerifyRow, ReadOnly, CallSteps, InCall, Judged, Uploading, Phases
<1>2. calls \in [Calls -> {calls[d] : d \in Calls}]
  BY DEF Inv, TablesOK
<1>3. CASE row.path = Path(c)
  <2>1. row # NoRow /\ Path(c) = Name(calls[c])
    BY <1>1, <1>3, HasOwn, NoRowHasNoType
  <2>2. \A d \in Calls \ {c} : calls'[d] = calls[d]
    BY <1>2, <1>3 DEF VerifyRow, Finish
  <2> QED  BY <1>1, <1>3, <2>1, <2>2, CallMoveTidy
<1>4. CASE row.path # Path(c)
  <2>1. Goes(c, "stray")
    BY <1>4 DEF VerifyRow
  <2>2. calls'[c].phase = "stray" /\ calls'[c].own = calls[c].own
    BY <1>1, <2>1, HasOwn, GoesOn
  <2>3. \A d \in Calls \ {c} : calls'[d] = calls[d]
    BY <1>2, <2>1 DEF Goes
  <2>4. calls'[c].phase \in Holding /\ Name(calls'[c]) = Name(calls[c])
    BY <2>2 DEF Holding, Name
  <2> QED  BY <1>1, <2>3, <2>4, CallMoveTidy
<1> QED  BY <1>3, <1>4

LEMMA RemoveStrayTidy ==
  ASSUME Inv, StrayInv, NEW c \in Calls, RemoveStray(c)
  PROVE  StrayInv'
<1>1. /\ calls[c].phase \in Judged /\ RemoveShared(c, calls[c].own) /\ Finish(c)
      /\ UNCHANGED <<used, operator, row>>
  BY DEF RemoveStray, CallSteps, InCall, Judged, Uploading, Phases
<1>2. \A d \in Calls \ {c} : calls'[d] = calls[d]
  BY <1>1 DEF Finish, Inv, TablesOK
<1>3. Path(c) = Name(calls[c])
  BY <1>1, HasOwn
<1>4. /\ \A t \in Types : objects'[t] \in {objects[t], NoPhoto}
      /\ \A t \in Types : t = Name(calls[c]) => objects'[t] = NoPhoto
  BY <1>1, <1>3, RemovalShrinks
<1>5. \A t \in Types : objects'[t] # NoPhoto => objects[t] # NoPhoto /\ Name(calls[c]) # t
  BY <1>4
<1> QED  BY <1>1, <1>2, <1>5, CallMoveTidy

LEMMA StepTidy ==
  ASSUME Inv, StrayInv, NEW c \in Calls, Step(c)
  PROVE  StrayInv'
<1>1. calls \in [Calls -> {calls[d] : d \in Calls}]
  BY DEF Inv, TablesOK
<1>2. CASE \/ CheckRow(c) \/ NextCandidate(c) \/ JudgeOwn(c) \/ CheckRowAgain(c)
           \/ DownloadOrphan(c) \/ JudgeOrphan(c)
  <2>1. ReadOnly /\ calls[c].phase \notin Holding
    BY <1>2 DEF CheckRow, NextCandidate, JudgeOwn, CheckRowAgain, DownloadOrphan, JudgeOrphan,
                Holding
  <2>2. \A d \in Calls \ {c} : calls'[d] = calls[d]
    BY <1>1, <1>2 DEF CheckRow, NextCandidate, JudgeOwn, CheckRowAgain, DownloadOrphan,
                      JudgeOrphan, Goes, Finish
  <2> QED  BY <2>1, <2>2, ReaderTidy
<1>3. CASE AdoptOrphan(c)
  <2>1. /\ UNCHANGED <<used, operator, objects>> /\ (row' = row \/ row = NoRow)
        /\ calls[c].phase \notin Holding
    BY <1>3 DEF AdoptOrphan, InsertSharedRow, CallSteps, InCall, Holding
  <2>2. \A d \in Calls \ {c} : calls'[d] = calls[d]
    BY <1>1, <1>3 DEF AdoptOrphan, Finish
  <2> QED  BY <2>1, <2>2, EmptyHandedTidy
<1>4. CASE RemoveBlockedOrphan(c)
  <2>1. /\ UNCHANGED <<used, operator, row>> /\ calls[c].phase \notin Holding
        /\ RemoveShared(c, calls[c].orphan)
    BY <1>4 DEF RemoveBlockedOrphan, CallSteps, InCall, Holding
  <2>2. \A d \in Calls \ {c} : calls'[d] = calls[d]
    BY <1>1, <1>4 DEF RemoveBlockedOrphan, Goes
  <2> QED  BY <2>1, <2>2, RemovalShrinks, EmptyHandedTidy
<1> QED  BY <1>2, <1>3, <1>4, UploadTidy, InsertOwnTidy, VerifyRowTidy, RemoveStrayTidy DEF Step

(* A failure: from then on nothing is said.                                *)
LEMMA FaultTidy ==
  ASSUME StrayInv, Uses("faults", MaxFaults)
  PROVE  StrayInv'
<1>1. UsedOK' /\ used'.faults = used.faults + 1 /\ used.faults \in Nat
  BY UsesCounts DEF StrayInv, UsedOK
<1>2. used'.faults # 0
  BY <1>1
<1> QED  BY <1>1, <1>2 DEF StrayInv

(* The rest, which adds no object and takes none from a call.              *)
LEMMA OthersTidy ==
  ASSUME StrayInv, UsedOK', used'.faults = used.faults,
         \A t \in Types : objects'[t] \in {objects[t], NoPhoto},
         \A c \in Calls : calls'[c] = calls[c] \/ calls[c] = Idle,
         \A t \in Types : objects'[t] # NoPhoto =>
           /\ row # NoRow /\ row.path = t =>
                \/ row' # NoRow /\ row'.path = t
                \/ operator'.step = "deleted" /\ operator'.path = t
           /\ operator.step = "deleted" /\ operator.path = t =>
                operator'.step = "deleted" /\ operator'.path = t
  PROVE  StrayInv'
<1> SUFFICES ASSUME used'.faults = 0, NEW t \in Types, objects'[t] # NoPhoto
             PROVE  Kept(t)'
  BY DEF StrayInv
<1>1. Kept(t)
  BY DEF StrayInv
<1>2. CASE row # NoRow /\ row.path = t
  BY <1>2 DEF Kept
<1>3. CASE operator.step = "deleted" /\ operator.path = t
  BY <1>3 DEF Kept
<1>4. ASSUME NEW c \in Calls, calls[c].phase \in Holding, Name(calls[c]) = t
      PROVE  Kept(t)'
  <2>1. calls'[c] = calls[c]
    BY <1>4 DEF Idle, Holding
  <2> QED  BY <1>4, <2>1 DEF Kept, Name
<1> QED  BY <1>1, <1>2, <1>3, <1>4 DEF Kept

LEMMA RunbookTidy == ASSUME Inv, StrayInv, Runbook PROVE StrayInv'
<1>1. UNCHANGED calls /\ objects \in [Types -> Photos \cup {NoPhoto}] /\ UsedOK
  BY DEF Runbook, BlockPhoto, DeleteRow, DeleteObject, Promote, OperatorSteps, Inv, TablesOK,
         StrayInv
<1>2. CASE BlockPhoto
  <2>1. /\ UNCHANGED <<objects, row>> /\ operator.step # "deleted"
        /\ Uses("removals", MaxRemovals)
    BY <1>2 DEF BlockPhoto, Resting
  <2>2. UsedOK' /\ used'.faults = used.faults
    BY <1>1, <2>1, UsesCounts
  <2> QED  BY <1>1, <2>1, <2>2, OthersTidy
<1>3. CASE DeleteRow
  <2>1. /\ UNCHANGED <<objects, used>> /\ operator.step # "deleted"
        /\ operator'.step = "deleted" /\ operator'.path = row.path
    BY <1>3 DEF DeleteRow, OperatorSteps
  <2>2. UsedOK' /\ used'.faults = used.faults
    BY <1>1, <2>1 DEF UsedOK
  <2> QED  BY <1>1, <2>1, <2>2, OthersTidy
<1>4. CASE DeleteObject
  <2>1. /\ UNCHANGED <<row, used>> /\ objects' = [objects EXCEPT ![operator.path] = NoPhoto]
    BY <1>4 DEF DeleteObject
  <2>2. UsedOK' /\ used'.faults = used.faults
    BY <1>1, <2>1 DEF UsedOK
  <2>3. /\ \A t \in Types : objects'[t] \in {objects[t], NoPhoto}
        /\ \A t \in Types : operator.path = t => objects'[t] = NoPhoto
    BY <1>1, <2>1
  <2> QED  BY <1>1, <2>1, <2>2, <2>3, OthersTidy
<1>5. CASE Promote
  <2>1. CASE operator.step = "cleared"
    <3>1. UNCHANGED <<objects, row, used>>
      BY <1>5, <2>1 DEF Promote, shared
    <3>2. UsedOK' /\ used'.faults = used.faults
      BY <1>1, <3>1 DEF UsedOK
    <3> QED  BY <1>1, <2>1, <3>1, <3>2, OthersTidy
  <2>2. CASE operator.step # "cleared"
    BY <1>5, <2>2, FaultTidy DEF Promote
  <2> QED  BY <2>1, <2>2
<1> QED  BY <1>2, <1>3, <1>4, <1>5 DEF Runbook

LEMMA NextTidy == ASSUME Inv, StrayInv, [Next]_vars PROVE StrayInv'
<1>1. calls \in [Calls -> {calls[d] : d \in Calls}] /\ UsedOK
  BY DEF Inv, TablesOK, StrayInv
<1>2. ASSUME NEW p \in Products,
             \/ \E ph \in PhotosOf[p] : SaveProduct(p, ph)
             \/ \E onlyObject \in BOOLEAN : DropProduct(p, onlyObject)
      PROVE  StrayInv'
  <2>1. Uses("events", MaxEvents) /\ UNCHANGED <<objects, row, calls, operator>>
    BY <1>2 DEF SaveProduct, DropProduct, shared
  <2>2. UsedOK' /\ used'.faults = used.faults
    BY <1>1, <2>1, UsesCounts
  <2> QED  BY <2>1, <2>2, OthersTidy
<1>3. ASSUME NEW req \in requests, NEW c \in Calls, StartCall(c, req)
      PROVE  StrayInv'
  <2>1. /\ UNCHANGED <<objects, row, operator, used>>
        /\ \A d \in Calls : calls'[d] = calls[d] \/ calls[d] = Idle
    BY <1>1, <1>3 DEF StartCall, shared
  <2>2. UsedOK' /\ used'.faults = used.faults
    BY <1>1, <2>1 DEF UsedOK
  <2> QED  BY <2>1, <2>2, OthersTidy
<1>4. ASSUME NEW req \in requests, LoseRequest(req)
      PROVE  StrayInv'
  BY <1>4, FaultTidy DEF LoseRequest
<1>5. ASSUME NEW c \in Calls, CallFails(c)
      PROVE  StrayInv'
  BY <1>5, FaultTidy DEF CallFails
<1>6. CASE UNCHANGED vars
  <2>1. UNCHANGED <<objects, row, calls, operator, used>>
    BY <1>6 DEF vars
  <2>2. UsedOK' /\ used'.faults = used.faults
    BY <1>1, <2>1 DEF UsedOK
  <2> QED  BY <2>1, <2>2, OthersTidy
<1> QED  BY <1>2, <1>3, <1>4, <1>5, <1>6, StepTidy, RunbookTidy DEF Next

(* When nothing has failed and all is quiet, the bucket holds the photo of *)
(* the row and no other of the barcode: every loser of a race has removed  *)
(* its copy, and every removal has taken the object along.                 *)
THEOREM NoStrays == Spec => []NoStrayCopy
<1>1. Init => StrayInv
  BY DEF Init, StrayInv, UsedOK
<1>2. Inv /\ StrayInv /\ [Next]_vars => StrayInv'
  BY NextTidy
<1>3. StrayInv => NoStrayCopy
  BY DEF StrayInv, NoStrayCopy, Kept, Quiet, Resting, Idle, Holding
<1> QED  BY <1>1, <1>2, <1>3, InvHolds, PTL DEF Spec

-----------------------------------------------------------------------------
(* The photo that may be shared.  While the barcode has none, a product    *)
(* whose photo may be is asked for by a request that waits, or by a call   *)
(* that has not passed it over: it still has it to look at, or has in hand *)
(* a photo that it will share unless the row is taken.                     *)
Wanted(p) == HasSourcePath(p) /\ Acceptable(source[p]) /\ source[p] \notin blocks

Carries(k, p) ==
  /\ k # Idle /\ p \in k.asked
  /\ k.phase \in {"row", "next"} => p \in k.todo
  /\ k.phase = "judge" => p \in k.todo \/ k.own \notin blocks

Served(p) ==
  \/ \E req \in requests : p \in Asked(req)
  \/ \E c \in Calls : Carries(calls[c], p)

Open == operator.step = "none" /\ ~overlap /\ row = NoRow

ServedInv == Open => \A p \in listed \ unserved : Wanted(p) => Served(p)

(* A step of the call c.                                                   *)
LEMMA CallMoveServes ==
  ASSUME ServedInv, InCall, NEW c \in Calls,
         \A d \in Calls \ {c} : calls'[d] = calls[d],
         unserved \subseteq unserved', Open' => Open,
         Open' => \A p \in listed \ unserved' :
                    Wanted(p) /\ Carries(calls[c], p) => Carries(calls'[c], p)
  PROVE  ServedInv'
<1>1. UNCHANGED <<listed, source, requests, blocks>>
  BY DEF InCall, shops
<1> SUFFICES ASSUME Open', NEW p \in listed \ unserved', Wanted(p)
             PROVE  Served(p)'
  BY <1>1 DEF ServedInv, Wanted
<1>2. Served(p)
  BY <1>1 DEF ServedInv
<1>3. CASE \E req \in requests : p \in Asked(req)
  BY <1>1, <1>3 DEF Served, Asked
<1>4. ASSUME NEW d \in Calls, Carries(calls[d], p)
      PROVE  Served(p)'
  <2>1. Carries(calls'[d], p)
    BY <1>4
  <2> QED  BY <1>1, <2>1 DEF Served, Carries
<1> QED  BY <1>2, <1>3, <1>4 DEF Served

(* A step that only reads.                                                 *)
LEMMA ReaderServes ==
  ASSUME ServedInv, ReadOnly, NEW c \in Calls,
         \A d \in Calls \ {c} : calls'[d] = calls[d],
         Open => \A p \in listed \ unserved :
                   Wanted(p) /\ Carries(calls[c], p) => Carries(calls'[c], p)
  PROVE  ServedInv'
<1>1. InCall /\ UNCHANGED <<unserved, operator, overlap, row>>
  BY DEF ReadOnly, CallSteps, InCall
<1>2. Open' => Open
  BY <1>1 DEF Open
<1> QED  BY <1>1, <1>2, CallMoveServes

LEMMA CheckRowServes ==
  ASSUME Inv, ServedInv, NEW c \in Calls, CheckRow(c)
  PROVE  ServedInv'
<1>1. calls \in [Calls -> {calls[d] : d \in Calls}] /\ ReadOnly
      /\ calls[c].phase = "row" /\ calls[c].phase \in Phases /\ "next" \in Phases
  BY DEF Inv, TablesOK, CheckRow, Phases
<1>2. \A d \in Calls \ {c} : calls'[d] = calls[d]
  BY <1>1 DEF CheckRow, Goes, Finish
<1>3. ASSUME Open, NEW p, Carries(calls[c], p)
      PROVE  Carries(calls'[c], p)
  <2>1. Goes(c, "next")
    BY <1>3 DEF CheckRow, Open
  <2>2. /\ calls'[c].phase = "next" /\ calls'[c].todo = calls[c].todo
        /\ calls'[c].asked = calls[c].asked
    BY <1>1, <2>1, GoesOn
  <2> QED  BY <1>1, <1>3, <2>2 DEF Carries, Idle
<1> QED  BY <1>1, <1>2, <1>3, ReaderServes

(* A candidate is passed over only if its photo cannot be shared.          *)
LEMMA NextCandidateServes ==
  ASSUME Inv, ServedInv, NEW c \in Calls, NextCandidate(c)
  PROVE  ServedInv'
<1>1. /\ calls \in [Calls -> {calls[d] : d \in Calls}] /\ ReadOnly
      /\ calls[c].phase = "next" /\ calls[c].phase \in Phases /\ calls[c] \in CallType
  BY AtWork DEF NextCandidate, Phases
<1>2. CASE calls[c].todo = {} /\ Finish(c)
  <2>1. \A d \in Calls \ {c} : calls'[d] = calls[d]
    BY <1>1, <1>2 DEF Finish
  <2>2. \A p : ~Carries(calls[c], p)
    BY <1>1, <1>2 DEF Carries
  <2> QED  BY <1>1, <2>1, <2>2, ReaderServes
<1>3. ASSUME NEW p \in calls[c].todo, NEW usable \in BOOLEAN,
             usable = (HasSourcePath(p) /\ Acceptable(source[p])),
             calls' = [calls EXCEPT ![c].todo = @ \ {p},
                         ![c].phase = IF usable THEN "judge" ELSE "next",
                         ![c].own = IF usable THEN source[p] ELSE NoPhoto]
      PROVE  ServedInv'
  <2>1. \A d \in Calls \ {c} : calls'[d] = calls[d]
    BY <1>1, <1>3
  <2>2. /\ calls'[c].phase = (IF usable THEN "judge" ELSE "next")
        /\ calls'[c].own = (IF usable THEN source[p] ELSE NoPhoto)
        /\ calls'[c].todo = calls[c].todo \ {p} /\ calls'[c].asked = calls[c].asked
    BY <1>1, <1>3 DEF CallType
  <2>3. calls'[c] # Idle
    BY <2>2 DEF Idle
  <2>4. ASSUME NEW q, Wanted(q), Carries(calls[c], q)
        PROVE  Carries(calls'[c], q)
    <3>1. q \in calls[c].todo /\ q \in calls'[c].asked
      BY <1>1, <2>2, <2>4 DEF Carries
    <3>2. CASE q = p
      <4>1. usable
        BY <1>3, <2>4, <3>2 DEF Wanted
      <4>2. calls'[c].phase = "judge" /\ calls'[c].own \notin blocks
        BY <2>2, <2>4, <3>2, <4>1 DEF Wanted
      <4> QED  BY <2>3, <3>1, <4>2 DEF Carries
    <3>3. CASE q # p
      BY <2>2, <2>3, <3>1, <3>3 DEF Carries
    <3> QED  BY <3>2, <3>3
  <2> QED  BY <1>1, <2>1, <2>4, ReaderServes
<1> QED  BY <1>2, <1>3 DEF NextCandidate

LEMMA JudgeOwnServes ==
  ASSUME Inv, ServedInv, NEW c \in Calls, JudgeOwn(c)
  PROVE  ServedInv'
<1> DEFINE next == IF calls[c].own \in blocks THEN "next" ELSE "upload"
<1>1. /\ calls \in [Calls -> {calls[d] : d \in Calls}] /\ ReadOnly
      /\ calls[c].phase = "judge" /\ calls[c].phase \in Phases /\ next \in Phases
      /\ Goes(c, next)
  BY DEF Inv, TablesOK, JudgeOwn, Phases
<1>2. \A d \in Calls \ {c} : calls'[d] = calls[d]
  BY <1>1 DEF Goes
<1>3. /\ calls'[c].phase = next /\ calls'[c].own = calls[c].own
      /\ calls'[c].todo = calls[c].todo /\ calls'[c].asked = calls[c].asked
  BY <1>1, GoesOn
<1>4. \A p : Carries(calls[c], p) => Carries(calls'[c], p)
  BY <1>1, <1>3 DEF Carries, Idle
<1> QED  BY <1>1, <1>2, <1>4, ReaderServes

(* Past the judgement of its own photo, a call that goes on carries what   *)
(* it was asked for.                                                       *)
LEMMA GoesOnServes ==
  ASSUME Inv, NEW c \in Calls, calls[c].phase \in Judged, NEW phase \in Judged, Goes(c, phase)
  PROVE  /\ \A d \in Calls \ {c} : calls'[d] = calls[d]
         /\ \A p : Carries(calls[c], p) => Carries(calls'[c], p)
<1>1. /\ calls \in [Calls -> {calls[d] : d \in Calls}]
      /\ calls[c].phase \in Phases /\ phase \in Phases
  BY DEF Inv, TablesOK, Judged, Uploading
<1>2. calls'[c].phase = phase /\ calls'[c].asked = calls[c].asked
  BY <1>1, GoesOn
<1>3. phase \notin {"idle", "row", "next", "judge"}
  BY DEF Judged, Uploading, Phases
<1>4. \A p : Carries(calls[c], p) => Carries(calls'[c], p)
  BY <1>2, <1>3 DEF Carries, Idle
<1> QED  BY <1>1, <1>4 DEF Goes

LEMMA UploadServes ==
  ASSUME Inv, ServedInv, NEW c \in Calls, Upload(c)
  PROVE  ServedInv'
<1>1. /\ calls \in [Calls -> {calls[d] : d \in Calls}] /\ calls[c].phase \in Judged
      /\ InCall /\ "insert" \in Judged /\ "exists" \in Judged
  BY DEF Inv, TablesOK, Upload, Judged, Uploading, Phases
<1>2. Open' => Open
  BY DEF Upload, InCall, Open
<1>3. CASE (Goes(c, "insert") \/ Goes(c, "exists")) /\ UNCHANGED unserved
  <2>1. /\ \A d \in Calls \ {c} : calls'[d] = calls[d]
        /\ \A p : Carries(calls[c], p) => Carries(calls'[c], p)
    BY <1>1, <1>3, GoesOnServes
  <2> QED  BY <1>1, <1>2, <1>3, <2>1, CallMoveServes
<1>4. CASE GivesWay(c)
  <2>1. \A d \in Calls \ {c} : calls'[d] = calls[d]
    BY <1>1, <1>4 DEF GivesWay, Finish
  <2>2. unserved \subseteq unserved' /\ \A p : Carries(calls[c], p) => p \in unserved'
    BY <1>4 DEF GivesWay, Carries
  <2> QED  BY <1>1, <1>2, <2>1, <2>2, CallMoveServes
<1> QED  BY <1>3, <1>4 DEF Upload

(* The reading steps behind the upload: without a row the call goes on.    *)
LEMMA OrphanServes ==
  ASSUME Inv, ServedInv, NEW c \in Calls,
         CheckRowAgain(c) \/ DownloadOrphan(c) \/ JudgeOrphan(c)
  PROVE  ServedInv'
<1>1. /\ calls \in [Calls -> {calls[d] : d \in Calls}] /\ ReadOnly
      /\ calls[c].phase \in Judged /\ calls[c].phase \in Phases
      /\ {"peek", "again", "judgeOrphan", "clear", "adopt"} \subseteq Judged
  BY DEF Inv, TablesOK, CheckRowAgain, DownloadOrphan, JudgeOrphan, Judged, Uploading, Phases
<1>2. CASE CheckRowAgain(c)
  <2>1. \A d \in Calls \ {c} : calls'[d] = calls[d]
    BY <1>1, <1>2 DEF CheckRowAgain, Goes, Finish
  <2>2. Open => Goes(c, "peek")
    BY <1>2 DEF CheckRowAgain, Open
  <2>3. Open => \A p : Carries(calls[c], p) => Carries(calls'[c], p)
    BY <1>1, <2>2, GoesOnServes
  <2> QED  BY <1>1, <2>1, <2>3, ReaderServes
<1>3. CASE DownloadOrphan(c)
  <2>1. \A d \in Calls \ {c} : calls'[d] = calls[d]
    BY <1>1, <1>3 DEF DownloadOrphan
  <2>2. calls[c] \in CallType
    BY <1>1, AtWork
  <2>3. calls'[c].phase \in {"again", "judgeOrphan"} /\ calls'[c].asked = calls[c].asked
    BY <1>1, <1>3, <2>2 DEF DownloadOrphan, CallType
  <2>4. \A p : Carries(calls[c], p) => Carries(calls'[c], p)
    BY <2>3 DEF Carries, Idle
  <2> QED  BY <1>1, <2>1, <2>4, ReaderServes
<1>4. CASE JudgeOrphan(c)
  <2>1. Goes(c, "clear") \/ Goes(c, "adopt")
    BY <1>4 DEF JudgeOrphan
  <2>2. /\ \A d \in Calls \ {c} : calls'[d] = calls[d]
        /\ \A p : Carries(calls[c], p) => Carries(calls'[c], p)
    BY <1>1, <2>1, GoesOnServes
  <2> QED  BY <1>1, <2>2, ReaderServes
<1> QED  BY <1>2, <1>3, <1>4

LEMMA RemoveBlockedOrphanServes ==
  ASSUME Inv, ServedInv, NEW c \in Calls, RemoveBlockedOrphan(c)
  PROVE  ServedInv'
<1>1. /\ calls[c].phase \in Judged /\ "again" \in Judged /\ Goes(c, "again")
      /\ InCall /\ UNCHANGED <<unserved, row, operator>> /\ (overlap => overlap')
  BY DEF RemoveBlockedOrphan, RemoveShared, CallSteps, InCall, Judged, Uploading, Phases
<1>2. /\ \A d \in Calls \ {c} : calls'[d] = calls[d]
      /\ \A p : Carries(calls[c], p) => Carries(calls'[c], p)
  BY <1>1, GoesOnServes
<1>3. Open' => Open
  BY <1>1 DEF Open
<1> QED  BY <1>1, <1>2, <1>3, CallMoveServes

(* A step after which there is a row, or times are not calm.               *)
LEMMA ShutServes == ASSUME ~Open' PROVE ServedInv'
BY DEF ServedInv

LEMMA RowServes ==
  ASSUME Inv, NEW c \in Calls,
         AdoptOrphan(c) \/ InsertOwn(c) \/ VerifyRow(c) \/ RemoveStray(c)
  PROVE  ServedInv'
<1>1. calls[c].phase \in Judged /\ Path(c) \in Types
  <2>1. calls[c].phase \in Judged
    BY DEF AdoptOrphan, InsertOwn, VerifyRow, RemoveStray, Judged, Uploading, Phases
  <2> QED  BY <2>1, HasOwn
<1>2. CASE AdoptOrphan(c) \/ InsertOwn(c)
  <2>1. row' # NoRow
    <3>1. (row' = row /\ row # NoRow) \/ row'.path = Path(c)
      BY <1>2 DEF AdoptOrphan, InsertOwn, InsertSharedRow
    <3> QED  BY <1>1, <3>1, NoRowHasNoType
  <2> QED  BY <2>1, ShutServes DEF Open
<1>3. CASE VerifyRow(c) \/ RemoveStray(c)
  <2>1. /\ calls[c].phase \in {"verify", "stray"} /\ calls[c].phase \in Phases
        /\ UNCHANGED <<row, operator>>
    BY <1>3 DEF VerifyRow, RemoveStray, ReadOnly, CallSteps, InCall, Phases
  <2>a. overlap => overlap'
    BY <1>3 DEF VerifyRow, RemoveStray, RemoveShared, ReadOnly
  <2>2. Calm => row # NoRow
    BY <2>1, AtWork DEF CallSafe
  <2> QED  BY <2>1, <2>a, <2>2, ShutServes DEF Open, Calm
<1> QED  BY <1>2, <1>3

LEMMA StepServes ==
  ASSUME Inv, ServedInv, NEW c \in Calls, Step(c)
  PROVE  ServedInv'
BY CheckRowServes, NextCandidateServes, JudgeOwnServes, UploadServes, OrphanServes,
   RemoveBlockedOrphanServes, RowServes DEF Step

-----------------------------------------------------------------------------
(* A call begins with the candidates of its request.                       *)
LEMMA StartCallServes ==
  ASSUME Inv, ServedInv, NEW c \in Calls, NEW req \in requests, StartCall(c, req)
  PROVE  ServedInv'
<1>1. /\ UNCHANGED <<listed, source, row, blocks, operator, overlap, unserved>>
      /\ calls \in [Calls -> {calls[d] : d \in Calls}] /\ calls[c] = Idle
      /\ requests' = requests \ {req} /\ listed \subseteq Products
      /\ req = ByGtin \/ \E q \in Products : req = ByRecord(q)
  BY DEF StartCall, shops, shared, Inv, TablesOK
<1>2. Open' => Open
  BY <1>1 DEF Open
<1> SUFFICES ASSUME Open', NEW p \in listed \ unserved, Wanted(p)
             PROVE  Served(p)'
  BY <1>1 DEF ServedInv, Wanted
<1>3. Served(p)
  BY <1>2 DEF ServedInv
<1>4. ASSUME NEW d \in Calls, Carries(calls[d], p)
      PROVE  Served(p)'
  <2>1. calls'[d] = calls[d]
    BY <1>1, <1>4 DEF StartCall, Carries
  <2>2. Carries(calls'[d], p)
    BY <1>4, <2>1
  <2> QED  BY <1>1, <2>2 DEF Served, Carries
<1>5. ASSUME NEW r \in requests, p \in Asked(r)
      PROVE  Served(p)'
  <2>1. CASE r # req
    <3>1. r \in requests'
      BY <1>1, <2>1
    <3> QED  BY <1>5, <3>1 DEF Served, Asked
  <2>2. CASE r = req
    <3>1. p \in Candidates(req)
      <4>1. CASE req = ByGtin
        BY <4>1 DEF Candidates
      <4>2. ASSUME NEW q \in Products, req = ByRecord(q)
            PROVE  p \in Candidates(req)
        <5>1. req # ByGtin /\ req.product = q
          BY <4>2 DEF ByGtin, ByRecord
        <5>2. p = q
          BY <1>5, <2>2, <5>1 DEF Asked
        <5> QED  BY <4>2, <5>2 DEF Candidates
      <4> QED  BY <1>1, <4>1, <4>2
    <3>2. calls' = [calls EXCEPT ![c] =
                      [phase |-> "row", todo |-> Candidates(req), own |-> NoPhoto,
                       orphan |-> NoPhoto, known |-> blocks, asked |-> Asked(req)]]
      BY <3>1 DEF StartCall
    <3>3. /\ calls'[c].phase = "row" /\ calls'[c].todo = Candidates(req)
          /\ calls'[c].asked = Asked(req)
      BY <1>1, <3>2
    <3>4. Carries(calls'[c], p)
      BY <1>5, <2>2, <3>1, <3>3 DEF Carries, Idle
    <3> QED  BY <1>1, <3>4 DEF Served, Carries
  <2> QED  BY <2>1, <2>2
<1> QED  BY <1>3, <1>4, <1>5 DEF Served

(* What is asked for before a step that takes no request and no call away  *)
(* is asked for after it.                                                  *)
LEMMA StillServed ==
  ASSUME UNCHANGED <<calls, blocks>>, requests \subseteq requests', NEW p, Served(p)
  PROVE  Served(p)'
BY DEF Served, Carries, Asked

(* A product that is saved while the barcode has no photo is asked for.    *)
LEMMA SaveProductServes ==
  ASSUME Inv, ServedInv, NEW p \in Products, NEW ph \in PhotosOf[p], SaveProduct(p, ph)
  PROVE  ServedInv'
<1>1. /\ UNCHANGED <<calls, blocks, row, operator, overlap>>
      /\ listed' = listed \cup {p} /\ source' = [source EXCEPT ![p] = ph]
      /\ source \in [Products -> Photos \cup {NoPhoto}] /\ listed \subseteq Products
  BY DEF SaveProduct, shared, Inv, TablesOK
<1> SUFFICES ASSUME Open', NEW q \in listed' \ unserved', Wanted(q)'
             PROVE  Served(q)'
  BY DEF ServedInv
<1>2. /\ Open /\ row = NoRow /\ requests' = requests \cup {ByRecord(p)}
      /\ unserved' = unserved \ {p}
  BY <1>1 DEF Open, SaveProduct
<1>3. CASE q = p
  <2>1. ByRecord(p) \in requests' /\ p \in Asked(ByRecord(p))
    BY <1>2 DEF Asked, ByGtin, ByRecord
  <2> QED  BY <1>3, <2>1 DEF Served, Asked
<1>4. CASE q # p
  <2>1. q \in listed \ unserved /\ Wanted(q)
    BY <1>1, <1>2, <1>4 DEF Wanted
  <2>2. Served(q)
    BY <1>2, <2>1 DEF ServedInv
  <2> QED  BY <1>1, <1>2, <2>2, StillServed
<1> QED  BY <1>3, <1>4

LEMMA DropProductServes ==
  ASSUME Inv, ServedInv, NEW p \in Products, NEW onlyObject \in BOOLEAN,
         DropProduct(p, onlyObject)
  PROVE  ServedInv'
<1>1. /\ UNCHANGED <<calls, blocks, row, operator, overlap, requests, unserved>>
      /\ source \in [Products -> Photos \cup {NoPhoto}] /\ listed \subseteq Products
      /\ listed' \subseteq listed
      /\ \A q \in Products : source'[q] \in {source[q], NoPhoto}
  BY DEF DropProduct, shared, Inv, TablesOK
<1> SUFFICES ASSUME Open', NEW q \in listed' \ unserved', Wanted(q)'
             PROVE  Served(q)'
  BY DEF ServedInv
<1>2. q \in listed \ unserved /\ Wanted(q) /\ Open
  BY <1>1 DEF Wanted, Acceptable, Open
<1>3. Served(q)
  BY <1>2 DEF ServedInv
<1> QED  BY <1>1, <1>3, StillServed

(* What a lost request or a dead call asked for is not spoken of.          *)
LEMMA LoseRequestServes ==
  ASSUME Inv, ServedInv, NEW req \in requests, LoseRequest(req)
  PROVE  ServedInv'
<1>1. /\ UNCHANGED <<listed, source, calls, blocks, row, operator, overlap>>
      /\ requests' = requests \ {req} /\ unserved' = unserved \cup Asked(req)
  BY DEF LoseRequest, shared, shops
<1> SUFFICES ASSUME Open', NEW q \in listed \ unserved', Wanted(q)
             PROVE  Served(q)'
  BY <1>1 DEF ServedInv, Wanted
<1>2. q \notin unserved /\ q \notin Asked(req) /\ Open
  BY <1>1 DEF Open
<1>3. Served(q)
  BY <1>2 DEF ServedInv
<1>4. (\E r \in requests' : q \in Asked(r)) \/ \E c \in Calls : Carries(calls[c], q)
  BY <1>1, <1>2, <1>3 DEF Served
<1> QED  BY <1>1, <1>4 DEF Served, Carries, Asked

LEMMA CallFailsServes ==
  ASSUME Inv, ServedInv, NEW c \in Calls, CallFails(c)
  PROVE  ServedInv'
<1>1. /\ UNCHANGED <<listed, source, requests, blocks, row, operator, overlap>>
      /\ unserved' = unserved \cup calls[c].asked
      /\ \A d \in Calls \ {c} : calls'[d] = calls[d]
  BY DEF CallFails, Finish, shared, shops, Inv, TablesOK
<1> SUFFICES ASSUME Open', NEW q \in listed \ unserved', Wanted(q)
             PROVE  Served(q)'
  BY <1>1 DEF ServedInv, Wanted
<1>2. q \notin unserved /\ ~Carries(calls[c], q) /\ Open
  BY <1>1 DEF Open, Carries
<1>3. Served(q)
  BY <1>2 DEF ServedInv
<1>4. (\E r \in requests : q \in Asked(r)) \/ \E d \in Calls \ {c} : Carries(calls'[d], q)
  BY <1>1, <1>2, <1>3 DEF Served
<1> QED  BY <1>1, <1>4 DEF Served, Carries, Asked

(* The operator asks for all of the barcode when a removal is through.     *)
LEMMA RunbookServes == ASSUME Inv, ServedInv, Runbook PROVE ServedInv'
<1>1. CASE BlockPhoto \/ DeleteRow \/ DeleteObject
  <2>1. operator'.step # "none"
    BY <1>1 DEF BlockPhoto, DeleteRow, DeleteObject, OperatorSteps
  <2> QED  BY <2>1, ShutServes DEF Open
<1>2. CASE Promote
  <2>1. /\ ByGtin \in requests' /\ listed' \subseteq Products
    BY <1>2 DEF Promote, OperatorSteps, shops, Inv, TablesOK
  <2>2. \A p \in Products : Served(p)'
    BY <2>1 DEF Served, Asked
  <2> QED  BY <2>1, <2>2 DEF ServedInv
<1> QED  BY <1>1, <1>2 DEF Runbook

LEMMA NextServes == ASSUME Inv, ServedInv, [Next]_vars PROVE ServedInv'
<1>1. CASE UNCHANGED vars
  <2>1. UNCHANGED <<listed, source, requests, row, blocks, calls, operator, overlap, unserved>>
    BY <1>1 DEF vars
  <2> QED  BY <2>1 DEF ServedInv, Open, Wanted, Served, Carries, Asked
<1> QED  BY <1>1, SaveProductServes, DropProductServes, RunbookServes, LoseRequestServes,
            StartCallServes, StepServes, CallFailsServes DEF Next

(* When all is quiet, a barcode with a photo that may be shared has one    *)
(* shared, unless the request for it was lost, or its call died or gave    *)
(* way to the object of another: no interleaving of the calls, and no      *)
(* order of their candidates, loses it otherwise.                          *)
THEOREM OneIsShared == Spec => []SharedInTheEnd
<1>1. Init => ServedInv
  BY DEF Init, ServedInv
<1>2. Inv /\ ServedInv /\ [Next]_vars => ServedInv'
  BY NextServes
<1>3. ServedInv => SharedInTheEnd
  BY DEF ServedInv, SharedInTheEnd, Quiet, Open, Resting, Wanted, Served, Carries
<1> QED  BY <1>1, <1>2, <1>3, InvHolds, PTL DEF Spec
=============================================================================
