--------------------------- MODULE SharedGallery ---------------------------
(***************************************************************************)
(* ReIDManager (app/inference/reid.py): the gallery of identities that all *)
(* camera workers share. A worker hands in one frame's people and gets an  *)
(* identity for each, under one lock; CameraPipeline._attach_identities    *)
(* then uses the identity in place of the tracker's number.                *)
(*                                                                         *)
(* An embedding is a look, a point of the set Looks; Similarity says how   *)
(* alike two looks are. The list of entries is a function of the identity: *)
(* ids are allocated upwards and appended, so its order is that of the     *)
(* ids, and within a call it only grows, so an index names one entry. The  *)
(* frame's own time marks an entry as seen, and a frame may have waited in *)
(* a queue, so marks can be older than the clock and can go back. The      *)
(* clock is read once per call, so that it stands still inside one loses   *)
(* nothing.                                                                *)
(***************************************************************************)
EXTENDS Naturals

CONSTANTS
  People,       \* the people in front of the cameras
  Looks,        \* embeddings
  LooksOf,      \* the looks a person may be seen with
  Similarity,   \* cosine similarity of two looks
  Threshold,    \* reid_similarity_threshold
  Ttl,          \* reid_gallery_ttl_seconds
  WorkerLag,    \* how old a frame may be when it gets here
  MaxTime       \* bound of the model: the clock

ASSUME GalleryAssumption ==
  /\ LooksOf \in [People -> SUBSET Looks]
  /\ Similarity \in [Looks -> [Looks -> Nat]]
  /\ Threshold \in Nat /\ Ttl \in Nat /\ WorkerLag \in Nat /\ MaxTime \in Nat

VARIABLES
  galleryTime,  \* the clock
  gallery,      \* the entry of each identity: [look, seen]
  nextId,       \* _next_global_id
  frameTs,      \* the time of the frame in hand
  present,      \* the people in it that have no identity yet
  used,         \* the entries this frame has claimed
  assigned,     \* who got which identity in this frame: <<person, id>>
  locked,       \* whether a call is under way
  met           \* history: when each identity was last given to someone

galleryVars == <<galleryTime, gallery, nextId, frameTs, present, used, assigned, locked, met>>

GalleryInit ==
  /\ galleryTime = WorkerLag /\ gallery = [i \in {} |-> 0] /\ nextId = 1 /\ frameTs = 0
  /\ present = {} /\ used = {} /\ assigned = {} /\ locked = FALSE
  /\ met = [i \in {} |-> 0]

Fresh(e) == e.seen + Ttl >= galleryTime

\* Mutant: entries expire a second early.
EvictExpired_Early ==
  [id \in {i \in DOMAIN gallery : gallery[i].seen + Ttl > galleryTime} |-> gallery[id]]

EvictExpired == [id \in {i \in DOMAIN gallery : Fresh(gallery[i])} |-> gallery[id]]

(* assign_global_ids() takes the lock and drops what has expired.          *)
BeginFrame ==
  /\ ~locked /\ locked' = TRUE
  /\ \E ts \in (galleryTime - WorkerLag)..galleryTime, ps \in SUBSET People :
       frameTs' = ts /\ present' = ps
  /\ gallery' = EvictExpired
  /\ UNCHANGED <<galleryTime, nextId, used, assigned, met>>

\* Mutant: an entry may be claimed twice in one frame.
Eligible_All == DOMAIN gallery

Eligible == DOMAIN gallery \ used

Alike(id, look) == Similarity[gallery[id].look][look]

(* argmax: of the most similar entries the first one, if it is alike enough. *)
BestMatch(look) ==
  {i \in Eligible :
    /\ Alike(i, look) >= Threshold
    /\ \A j \in Eligible :
         \/ Alike(i, look) > Alike(j, look)
         \/ Alike(i, look) = Alike(j, look) /\ i <= j}

Meet(p, id) ==
  /\ assigned' = assigned \union {<<p, id>>}
  /\ met' = [i \in DOMAIN met \union {id} |-> IF i = id THEN galleryTime ELSE met[i]]

Claim(p, look, id) ==
  /\ gallery' = [i \in DOMAIN gallery \union {id} |->
                   IF i = id THEN [look |-> look, seen |-> frameTs] ELSE gallery[i]]
  /\ used' = used \union {id}
  /\ Meet(p, id)

Reuse(p, look) ==
  /\ \E id \in BestMatch(look) : Claim(p, look, id)
  /\ UNCHANGED nextId

Allocate(p, look) ==
  /\ BestMatch(look) = {}
  /\ Claim(p, look, nextId)
  /\ nextId' = nextId + 1

(* _match_or_allocate() for the next box, in whatever order they come.     *)
AssignOne ==
  /\ locked
  /\ \E p \in present : \E look \in LooksOf[p] :
       /\ Reuse(p, look) \/ Allocate(p, look)
       /\ present' = present \ {p}
  /\ UNCHANGED <<galleryTime, frameTs, locked>>

(* A box without an embedding keeps global_id=None.                        *)
KeepUnembedded ==
  /\ locked
  /\ \E p \in present : present' = present \ {p}
  /\ UNCHANGED <<galleryTime, gallery, nextId, frameTs, used, assigned, locked, met>>

EndFrame ==
  /\ locked /\ present = {} /\ locked' = FALSE
  /\ frameTs' = 0 /\ used' = {} /\ assigned' = {}
  /\ UNCHANGED <<galleryTime, gallery, nextId, present, met>>

(* The history keeps whom RecentKept still speaks of.                      *)
RecentlyMet(t) ==
  [id \in {i \in DOMAIN met : met[i] + Ttl >= t + WorkerLag} |-> met[id]]

Pass ==
  /\ ~locked /\ galleryTime < MaxTime /\ galleryTime' = galleryTime + 1
  /\ met' = RecentlyMet(galleryTime')
  /\ UNCHANGED <<gallery, nextId, frameTs, present, used, assigned, locked>>

GalleryNext == BeginFrame \/ AssignOne \/ KeepUnembedded \/ EndFrame \/ Pass

GallerySpec == GalleryInit /\ [][GalleryNext]_galleryVars

-----------------------------------------------------------------------------
(* Two people in one frame never share an identity ("Two distinct people   *)
(* in the same frame can never collapse onto one global_id", reid.py:233), *)
(* and an identity that is known to the gallery is never allocated anew.   *)
OneIdentityEach ==
  /\ \A a, b \in assigned : (a[1] = b[1]) <=> (a[2] = b[2])
  /\ \A id \in DOMAIN gallery \union DOMAIN met : id < nextId

(* Someone met less than the time to live ago, less the age of a frame, is *)
(* still in the gallery, whatever frames came in out of order since.       *)
RecentKept == DOMAIN RecentlyMet(galleryTime) \subseteq DOMAIN gallery

=============================================================================
