----------------------------- MODULE SharePhoto -----------------------------
(***************************************************************************)
(* The shared photo of one factory barcode: the edge function              *)
(* share-barcode-photo, the trigger of `products' that asks for it, and    *)
(* the photo-removal runbook (ADR 0029), an operator who blocks a photo,   *)
(* deletes its row and its object, and asks for the next-oldest one.       *)
(*                                                                         *)
(* Every await of shareFirstUnblocked is a step, so that calls for         *)
(* products of two shops, and the operator's steps, interleave at each of  *)
(* them.                                                                   *)
(*                                                                         *)
(* Simplifications.  A photo stands for its bytes and for their SHA-256.   *)
(* One barcode is enough: calls of two barcodes share only the block list. *)
(* An object name is <gtin14>.<ext>; the extensions tell the content types *)
(* apart one to one, so an object is named by its content type.  Requests  *)
(* refused before they read anything (secret, method, payload) are left    *)
(* out, and so is the report of the skipped candidates.                    *)
(***************************************************************************)
EXTENDS Naturals, FiniteSets

CONSTANTS
    Photos, NoPhoto,
    Sniffed,        \* the type the leading bytes of a photo tell, or "unknown"
    Declared,       \* the type its object was stored with
    TooLarge,       \* photos above MAX_PHOTO_BYTES
    Products,       \* products of all shops that carry the barcode
    CreatedAt,      \* when a product was created
    PhotosOf,       \* photos its shop may save with each product
    ForeignUrls,    \* products whose image_url is not in their own folder
    Calls,          \* invocations of the function that can be in flight
    MaxEvents, MaxFaults, MaxRemovals

ALLOWED_CONTENT_TYPES ==
    {"image/png", "image/jpeg", "image/jpg", "image/webp", "image/heic", "image/heif"}
\* The types photoContentType answers, one for each extension.
Types == ALLOWED_CONTENT_TYPES \ {"image/jpg"}

ASSUME ConstantsAssumption ==
    /\ NoPhoto \notin Photos
    /\ Sniffed \in [Photos -> {"image/jpeg", "image/png", "image/webp", "unknown"}]
    /\ Declared \in [Photos -> STRING]
    /\ TooLarge \subseteq Photos /\ ForeignUrls \subseteq Products
    /\ CreatedAt \in [Products -> Nat]
    /\ PhotosOf \in [Products -> SUBSET Photos]
    /\ {MaxEvents, MaxFaults, MaxRemovals} \subseteq Nat

VARIABLES
    listed,     \* products that qualify: not deleted, with an image_url
    source,     \* the product-images object of each product
    requests,   \* posted to the function, not begun
    objects,    \* the bucket barcode-catalogue-photos, by content type
    row,        \* the barcode's row of barcode_catalogue_photos
    blocks,     \* barcode_catalogue_photo_blocks
    calls,      \* the invocations in flight
    operator,   \* how far the removal runbook is
    used,       \* how much of each bound is used up
    overlap,    \* history: the removal ran while the function was at work, or a
                \* call removed an object that was not its to remove
    unserved    \* history: products whose request was lost, or whose call died or
                \* gave way to another's object

vars == <<listed, source, requests, objects, row, blocks, calls, operator, used, overlap,
          unserved>>
shops == <<listed, source>>
shared == <<objects, row, blocks>>

NoRow == [path |-> "none"]
Idle == [phase |-> "idle"]
Resting == [step |-> "none"]
ByGtin == [kind |-> "gtin14"]
ByRecord(p) == [kind |-> "record", product |-> p]

-----------------------------------------------------------------------------
(* share.ts, pure *)

\* Variant: the stored type is believed.
ContentTypeDeclared(ph) == Declared[ph]

\* "none" when it is not a photo the shared bucket takes.
photoContentType(ph) ==
    CASE Sniffed[ph] # "unknown" -> Sniffed[ph]
      [] Sniffed[ph] = "unknown" /\ Declared[ph] = "image/jpg" -> "image/jpeg"
      [] Sniffed[ph] = "unknown" /\ Declared[ph] \in Types -> Declared[ph]
      [] OTHER -> "none"

HasSourcePath(p) == p \notin ForeignUrls

\* The skips that need no await: missing source, size, type.
Acceptable(ph) == ph # NoPhoto /\ ph \notin TooLarge /\ photoContentType(ph) # "none"

\* barcode_catalogue_photo_candidates: the product, or all of the barcode.
Candidates(req) ==
    {p \in listed : req = ByGtin \/ req = ByRecord(p)}

\* Two waiting requests of one product count as one.
Asked(req) == IF req = ByGtin THEN Products ELSE {req.product}

-----------------------------------------------------------------------------
Init ==
    /\ listed = {}
    /\ source = [p \in Products |-> NoPhoto]
    /\ requests = {}
    /\ objects = [t \in Types |-> NoPhoto]
    /\ row = NoRow
    /\ blocks = {}
    /\ calls = [c \in Calls |-> Idle]
    /\ operator = Resting
    /\ used = [events |-> 0, faults |-> 0, removals |-> 0]
    /\ overlap = FALSE
    /\ unserved = {}

Uses(what, max) == used[what] < max /\ used' = [used EXCEPT ![what] = @ + 1]

-----------------------------------------------------------------------------
(* The shops, and the trigger of products *)

\* The write commits with the request it makes, if the barcode has no photo.
SaveProduct(p, ph) ==
    /\ Uses("events", MaxEvents)
    /\ listed' = listed \cup {p}
    /\ source' = [source EXCEPT ![p] = ph]
    /\ requests' = IF row = NoRow THEN requests \cup {ByRecord(p)} ELSE requests
    /\ unserved' = IF row = NoRow THEN unserved \ {p} ELSE unserved
    /\ UNCHANGED <<shared, calls, operator, overlap>>

\* A shop deletes its product, or only the photo's object.
DropProduct(p, onlyObject) ==
    /\ p \in listed
    /\ Uses("events", MaxEvents)
    /\ IF onlyObject
       THEN source' = [source EXCEPT ![p] = NoPhoto] /\ UNCHANGED listed
       ELSE listed' = listed \ {p} /\ UNCHANGED source
    /\ UNCHANGED <<requests, shared, calls, operator, overlap, unserved>>

\* pg_net sends a request once.
LoseRequest(req) ==
    /\ Uses("faults", MaxFaults)
    /\ requests' = requests \ {req}
    /\ unserved' = unserved \cup Asked(req)
    /\ UNCHANGED <<shops, shared, calls, operator, overlap>>

-----------------------------------------------------------------------------
(* The removal runbook *)

OperatorSteps(next) == operator' = next /\ UNCHANGED <<shops, calls>>

BlockPhoto ==
    /\ operator = Resting /\ row # NoRow
    /\ Uses("removals", MaxRemovals)
    /\ blocks' = blocks \cup {row.sha}
    /\ OperatorSteps([step |-> "blocked"])
    /\ UNCHANGED <<requests, objects, row, overlap, unserved>>

DeleteRow ==
    /\ operator.step = "blocked"
    /\ row' = NoRow
    /\ OperatorSteps([step |-> "deleted", path |-> row.path])
    /\ UNCHANGED <<requests, objects, blocks, used, overlap, unserved>>

\* By now a request may have promoted a photo of the same name, or be on its way.
RemovalOverlaps == overlap' = (overlap \/ row # NoRow \/ \E c \in Calls : calls[c] # Idle)

DeleteObject ==
    LET path == operator.path
    IN  /\ operator.step = "deleted"
        /\ RemovalOverlaps
        /\ objects' = [objects EXCEPT ![path] = NoPhoto]
        /\ OperatorSteps([step |-> "cleared"])
        /\ UNCHANGED <<requests, row, blocks, used, unserved>>

\* The object may have been forgotten: its URL stays public.
Promote ==
    /\ \/ operator.step = "cleared" /\ UNCHANGED <<used, overlap>>
       \/ operator.step = "deleted" /\ Uses("faults", MaxFaults) /\ RemovalOverlaps
    /\ requests' = requests \cup {ByGtin}
    /\ unserved' = {}
    /\ OperatorSteps(Resting)
    /\ UNCHANGED shared

-----------------------------------------------------------------------------
(* The invocations of share-barcode-photo *)

Goes(c, phase) == calls' = [calls EXCEPT ![c].phase = phase]
Finish(c) == calls' = [calls EXCEPT ![c] = Idle]
InCall == UNCHANGED <<shops, requests, blocks, operator, used>>
CallSteps == InCall /\ UNCHANGED unserved
ReadOnly == CallSteps /\ UNCHANGED <<objects, row, overlap>>
Path(c) == photoContentType(calls[c].own)

\* The handler and the candidates; `known' and `asked' are history.
StartCall(c, req) ==
    /\ calls[c] = Idle
    /\ requests' = requests \ {req}
    /\ calls' = IF req # ByGtin /\ Candidates(req) = {} THEN calls
                ELSE [calls EXCEPT ![c] =
                        [phase |-> "row", todo |-> Candidates(req), own |-> NoPhoto,
                         orphan |-> NoPhoto, known |-> blocks, asked |-> Asked(req)]]
    /\ UNCHANGED <<shops, shared, operator, used, overlap, unserved>>

CheckRow(c) ==
    /\ calls[c].phase = "row"
    /\ IF row = NoRow THEN Goes(c, "next") ELSE Finish(c)
    /\ ReadOnly

\* The photo of the oldest candidate left is downloaded, and skipped when it
\* cannot be used.
NextCandidate(c) ==
    /\ calls[c].phase = "next"
    /\ \/ calls[c].todo = {} /\ Finish(c)
       \/ \E p \in calls[c].todo :
            LET usable == HasSourcePath(p) /\ Acceptable(source[p])
            IN  /\ \A q \in calls[c].todo : CreatedAt[p] <= CreatedAt[q]
                /\ calls' = [calls EXCEPT ![c].todo = @ \ {p},
                      ![c].phase = IF usable THEN "judge" ELSE "next",
                      ![c].own = IF usable THEN source[p] ELSE NoPhoto]
    /\ ReadOnly

\* Variant: a blocked candidate ends the walk.
JudgeOwnGivesUp(c) ==
    /\ calls[c].phase = "judge"
    /\ IF calls[c].own \in blocks THEN Finish(c) ELSE Goes(c, "upload")
    /\ ReadOnly

JudgeOwn(c) ==
    /\ calls[c].phase = "judge"
    /\ Goes(c, IF calls[c].own \in blocks THEN "next" ELSE "upload")
    /\ ReadOnly

\* Variant: upsert: true.
UploadOverwrites(c) ==
    /\ calls[c].phase \in {"upload", "again"}
    /\ objects' = [objects EXCEPT ![Path(c)] = calls[c].own]
    /\ Goes(c, "insert")
    /\ CallSteps /\ UNCHANGED <<row, overlap>>

GivesWay(c) == Finish(c) /\ unserved' = unserved \cup calls[c].asked

\* upsert: false.  The second try, after an orphan was removed or had vanished,
\* ends in already_shared when there is an object again, with a row or without.
Upload(c) ==
    /\ calls[c].phase \in {"upload", "again"}
    /\ \/ /\ objects[Path(c)] = NoPhoto
          /\ objects' = [objects EXCEPT ![Path(c)] = calls[c].own]
          /\ Goes(c, "insert") /\ UNCHANGED unserved
       \/ /\ objects[Path(c)] # NoPhoto /\ UNCHANGED objects
          /\ IF calls[c].phase = "again" THEN GivesWay(c)
             ELSE Goes(c, "exists") /\ UNCHANGED unserved
    /\ InCall /\ UNCHANGED <<row, overlap>>

CheckRowAgain(c) ==
    /\ calls[c].phase = "exists"
    /\ IF row = NoRow THEN Goes(c, "peek") ELSE Finish(c)
    /\ ReadOnly

DownloadOrphan(c) ==
    LET found == objects[Path(c)]
    IN  /\ calls[c].phase = "peek"
        /\ calls' = [calls EXCEPT ![c].orphan = found,
                       ![c].phase = IF found = NoPhoto THEN "again" ELSE "judgeOrphan"]
        /\ ReadOnly

\* Variant: an orphan is adopted unseen.
JudgeNoOrphan(c) ==
    /\ calls[c].phase = "judgeOrphan"
    /\ Goes(c, "adopt")
    /\ ReadOnly

JudgeOrphan(c) ==
    /\ calls[c].phase = "judgeOrphan"
    /\ Goes(c, IF calls[c].orphan \in blocks THEN "clear" ELSE "adopt")
    /\ ReadOnly

\* ON CONFLICT (gtin14) DO NOTHING.  `known' is history.
InsertSharedRow(c, ph) ==
    row' = IF row = NoRow THEN [path |-> Path(c), sha |-> ph, known |-> calls[c].known]
           ELSE row

\* `meant' is the photo the call means to remove; `overlap' is history.
RemoveShared(c, meant) ==
    /\ objects' = [objects EXCEPT ![Path(c)] = NoPhoto]
    /\ overlap' = (overlap \/ objects[Path(c)] \notin {meant, NoPhoto})

AdoptOrphan(c) ==
    /\ calls[c].phase = "adopt"
    /\ InsertSharedRow(c, calls[c].orphan)
    /\ Finish(c)
    /\ CallSteps /\ UNCHANGED <<objects, overlap>>

\* By name: another call may have removed the orphan and uploaded its own photo.
RemoveBlockedOrphan(c) ==
    /\ calls[c].phase = "clear"
    /\ RemoveShared(c, calls[c].orphan)
    /\ Goes(c, "again")
    /\ CallSteps /\ UNCHANGED row

InsertOwn(c) ==
    /\ calls[c].phase = "insert"
    /\ InsertSharedRow(c, calls[c].own)
    /\ Goes(c, "verify")
    /\ CallSteps /\ UNCHANGED <<objects, overlap>>

\* Variant: the stray copy is left where it is.
VerifyKeepsStray(c) ==
    /\ calls[c].phase = "verify"
    /\ Finish(c)
    /\ ReadOnly

VerifyRow(c) ==
    /\ calls[c].phase = "verify"
    /\ IF row.path = Path(c) THEN Finish(c) ELSE Goes(c, "stray")
    /\ ReadOnly

\* Another type's row was first: the own upload is a stray copy.
RemoveStray(c) ==
    /\ calls[c].phase = "stray"
    /\ RemoveShared(c, calls[c].own)
    /\ Finish(c)
    /\ CallSteps /\ UNCHANGED row

\* Any await may throw, or the instance may die: nothing is undone.
CallFails(c) ==
    /\ calls[c] # Idle
    /\ Uses("faults", MaxFaults)
    /\ unserved' = unserved \cup calls[c].asked
    /\ Finish(c)
    /\ UNCHANGED <<shops, requests, shared, operator, overlap>>

-----------------------------------------------------------------------------
Step(c) ==
    \/ CheckRow(c) \/ NextCandidate(c) \/ JudgeOwn(c) \/ Upload(c)
    \/ CheckRowAgain(c) \/ DownloadOrphan(c) \/ JudgeOrphan(c)
    \/ AdoptOrphan(c) \/ RemoveBlockedOrphan(c)
    \/ InsertOwn(c) \/ VerifyRow(c) \/ RemoveStray(c)

Runbook == BlockPhoto \/ DeleteRow \/ DeleteObject \/ Promote

Next ==
    \/ \E p \in Products :
        \/ \E ph \in PhotosOf[p] : SaveProduct(p, ph)
        \/ \E onlyObject \in BOOLEAN : DropProduct(p, onlyObject)
    \/ Runbook
    \/ \E req \in requests : LoseRequest(req) \/ \E c \in Calls : StartCall(c, req)
    \/ \E c \in Calls : Step(c) \/ CallFails(c)

Spec == Init /\ [][Next]_vars

-----------------------------------------------------------------------------
Phases == {"row", "next", "judge", "upload", "exists", "peek", "judgeOrphan",
           "adopt", "clear", "again", "insert", "verify", "stray"}
Uploading == Phases \ {"row", "next"}

TypeOK ==
    /\ listed \subseteq Products /\ source \in [Products -> Photos \cup {NoPhoto}]
    /\ requests \subseteq {ByGtin} \cup {ByRecord(p) : p \in Products}
    /\ objects \in [Types -> Photos \cup {NoPhoto}]
    /\ row = NoRow \/ row \in [path : Types, sha : Photos, known : SUBSET Photos]
    /\ blocks \subseteq Photos /\ unserved \subseteq Products
    /\ \A c \in Calls : calls[c] = Idle \/
          /\ calls[c] \in [phase : Phases, todo : SUBSET Products, own : Photos \cup {NoPhoto},
                           orphan : Photos \cup {NoPhoto}, known : SUBSET Photos,
                           asked : SUBSET Products]
          /\ calls[c].phase \in Uploading => calls[c].own \in Photos /\ Path(c) \in Types

\* The photo a suggestion shows is there and is the one whose hash the row has,
\* whatever calls raced for it or died on the way (the hash is what the removal
\* blocks), unless a removal is not through or the object was removed by name
\* under a call at work (`overlap').
RowHasItsPhoto ==
    row # NoRow /\ operator.step \in {"none", "cleared"} /\ ~overlap
        => objects[row.path] = row.sha

\* A hash that was blocked before a request began is not on the row that the
\* request inserts, by upload or by adoption.
BlockedNeverShared == row # NoRow => row.sha \notin row.known

Quiet == requests = {} /\ operator = Resting /\ \A c \in Calls : calls[c] = Idle

\* When all is quiet, a barcode one of whose products has a photo that may be
\* shared, and whose own request neither failed nor gave way to the object of
\* another call (which may then die), has a shared photo: whatever calls collided
\* or died half-way, one won.
SharedInTheEnd ==
    Quiet /\ ~overlap /\ row = NoRow =>
        \A p \in listed \ unserved :
            HasSourcePath(p) /\ Acceptable(source[p]) => source[p] \in blocks

\* When all is quiet and nothing failed, the bucket holds no other photo of the
\* barcode: the losers' copies and the removed photo are gone, even after a
\* removal that met calls at work.
NoStrayCopy ==
    Quiet /\ used.faults = 0 =>
        \A t \in Types : objects[t] # NoPhoto => row # NoRow /\ row.path = t
=============================================================================
