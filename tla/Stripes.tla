-------------------------------- MODULE Stripes --------------------------------
(***************************************************************************)
(* From a picture to blobs (image_process.c): the picture is scanned for   *)
(* stripes of bright pixels, the stripes of a line are matched with those  *)
(* of the line before, and stripes that touch make a blob.  A step is a    *)
(* turn of one of its loops.                                               *)
(*                                                                         *)
(* A pixel is the pair of its column and its line, a picture the set of    *)
(* its bright pixels. Weights are left out: a blob is the pixels that were *)
(* added to it, in place of their sums, and their count.                   *)
(***************************************************************************)
EXTENDS Integers, Sequences, FiniteSets

CONSTANTS
  Width, Height, \* of the picture
  Pictures,      \* the pictures to look at
  Sizes,         \* min_pts and max_pts, a set of pairs
  MaxBlobs       \* MAX_BLOBS, the room for blobs

Pixels == (0 .. Width - 1) \X (0 .. Height - 1)

PictureAssumption ==
  /\ Width \in Nat \ {0} /\ Height \in Nat \ {0}
  /\ Pictures \subseteq SUBSET Pixels
  /\ Sizes \subseteq [min : Int, max : Int]
  /\ MaxBlobs \in Nat

VARIABLES
  bright,   \* the bitmap, which is drawn into while it is scanned
  snapshot, \* history: the bitmap as it came from the camera
  col, row, \* x and y of ltr_int_to_stripes
  stage,    \* the loop that is gone through
  stripe,   \* the stripe that is scanned, or added
  turn,     \* the index in the other loops
  rng,      \* the first range the stripe touches, by its index; 0 is NULL
  stripes,  \* current: the stripes of the line before, each with its preblob
  newStripes, \* next: the stripes of this line
  vline,    \* current_vline
  heap,     \* the preblobs there are
  preblobs, \* the list of those that are complete
  size,     \* the sizes ltr_int_stripes_to_blobs was called with
  blobs     \* what it returned

stripeVars == <<bright, snapshot, col, row, stage, stripe, turn, rng, stripes, newStripes,
                vline, heap, preblobs, size, blobs>>
scanned == <<bright, snapshot, col, row, stripe>>
lines == <<stripes, newStripes, vline, heap>>

\* The stages: ltr_int_to_stripes out of and in a stripe, the two loops of store_preblobs, the
\* loop of ltr_int_add_stripe, that of ltr_int_stripes_to_blobs.
Stages == {"dark", "lit", "old", "new", "match", "report", "done"}
Stripe == [vline : 0 .. Height - 1, hstart : 0 .. Width - 1, hstop : 0 .. Width - 1,
           points : 0 .. Width]
NoStripe == [vline |-> 0, hstart |-> 0, hstop |-> 0, points |-> 0]
NoSize == [min |-> 0, max |-> 0]

Listed == {preblobs[i] : i \in DOMAIN preblobs}
RangesOf(pbs) == [x1 : 0 .. Width - 1, x2 : 0 .. Width - 1, pb : pbs]

TypeOK ==
  /\ bright \subseteq Pixels /\ snapshot \subseteq Pixels
  /\ col \in 0 .. Width /\ row \in 0 .. Height
  /\ stage \in Stages
  /\ stripe \in Stripe
  /\ stripes \in Seq(RangesOf(DOMAIN heap)) /\ newStripes \in Seq(RangesOf(DOMAIN heap))
  /\ Len(stripes) <= Width \div 2 + 1 /\ Len(newStripes) <= Width \div 2 + 1
  /\ turn \in Nat /\ rng \in Nat
  /\ vline \in -2 .. Height - 1
  /\ heap \in [DOMAIN heap -> [pixels : SUBSET Pixels, points : Nat, matched : BOOLEAN]]
  /\ DOMAIN heap \subseteq Pixels
  /\ preblobs \in Seq(DOMAIN heap)
  /\ size \in Sizes \cup {NoSize}
  /\ blobs \in Seq([pixels : SUBSET Pixels, points : Nat]) /\ Len(blobs) <= MaxBlobs

Init ==
  /\ snapshot \in Pictures /\ bright = snapshot
  /\ col = 0 /\ row = 0 /\ stage = "dark" /\ stripe = NoStripe /\ turn = 0 /\ rng = 0
  /\ stripes = <<>> /\ newStripes = <<>> /\ vline = -2
  /\ heap = <<>> /\ preblobs = <<>> /\ size = NoSize /\ blobs = <<>>

------------------------------------------------------------------------------
(***************************************************************************)
(* ltr_int_to_stripes.                                                     *)
(***************************************************************************)

\* A bright pixel begins a stripe, or is one more of it.
Lit ==
  /\ stage \in {"dark", "lit"} /\ <<col, row>> \in bright
  /\ stripe' = IF stage = "lit"
               THEN [stripe EXCEPT !.hstop = col, !.points = @ + 1]
               ELSE [vline |-> row, hstart |-> col, hstop |-> col, points |-> 0]
  /\ stage' = "lit" /\ col' = col + 1
  /\ UNCHANGED <<bright, snapshot, row, turn, rng, lines, preblobs, size, blobs>>

Dark ==
  /\ stage = "dark" /\ row < Height /\ <<col, row>> \notin bright
  /\ IF col < Width THEN col' = col + 1 /\ UNCHANGED row ELSE col' = 0 /\ row' = row + 1
  /\ UNCHANGED <<bright, snapshot, stage, stripe, turn, rng, lines, preblobs, size, blobs>>

\* draw_stripe colours the pixels one to the right of the stripe; past the last pixel of a
\* line that is the first of the next line.
Drawn(s) ==
  {IF c < Width THEN <<c, s.vline>> ELSE <<0, s.vline + 1>> : c \in s.hstart + 1 .. s.hstop + 1}
  \cap Pixels

\* A stripe ends before a dark pixel and with its line, and is added; on another line than
\* the one before, preblobs are stored first.
Ends ==
  /\ stage = "lit" /\ <<col, row>> \notin bright
  /\ stripe' = [stripe EXCEPT !.points = @ + 1]
  /\ col' = IF col < Width THEN col + 1 ELSE col
  /\ bright' = bright \cup Drawn(stripe)
  /\ stage' = IF stripe.vline = vline THEN "match" ELSE "old"
  /\ turn' = 1 /\ rng' = 0
  /\ UNCHANGED <<snapshot, row, lines, preblobs, size, blobs>>

------------------------------------------------------------------------------
(***************************************************************************)
(* store_preblobs: a preblob that no stripe of this line has met is        *)
(* complete; at a gap between the lines, or at the end, all of them are.   *)
(***************************************************************************)
Over == row = Height
All == Over \/ stripe.vline # vline + 1

\* ltr_int_add_element, for a preblob that is not added yet.
AddElement(pb) == IF pb \in Listed THEN preblobs ELSE Append(preblobs, pb)

StoreOld ==
  /\ stage = "old"
  /\ \/ /\ turn \in DOMAIN stripes
        /\ LET pb == stripes[turn].pb
           IN  preblobs' = IF heap[pb].matched THEN preblobs ELSE AddElement(pb)
        /\ turn' = turn + 1 /\ UNCHANGED stage
     \/ turn \notin DOMAIN stripes /\ turn' = 1 /\ stage' = "new" /\ UNCHANGED preblobs
  /\ UNCHANGED <<scanned, rng, lines, size, blobs>>

StoreNew ==
  /\ stage = "new" /\ turn \in DOMAIN newStripes
  /\ LET pb == newStripes[turn].pb
     IN  /\ heap' = [heap EXCEPT ![pb].matched = FALSE]
         /\ preblobs' = IF All THEN AddElement(pb) ELSE preblobs
  /\ turn' = turn + 1
  /\ UNCHANGED <<scanned, stage, rng, stripes, newStripes, vline, size, blobs>>

\* What comes after: in ltr_int_add_stripe the next line, whose stripes may touch those of the
\* last one if there is no gap, in ltr_int_stripes_to_blobs nothing.
NextLine ==
  /\ stage = "new" /\ turn \notin DOMAIN newStripes
  /\ stripes' = (IF All THEN <<>> ELSE newStripes) /\ newStripes' = <<>>
  /\ vline' = (IF Over THEN -2 ELSE stripe.vline)
  /\ stage' = (IF Over THEN "report" ELSE "match")
  /\ turn' = 1
  /\ UNCHANGED <<scanned, rng, heap, preblobs, size, blobs>>

------------------------------------------------------------------------------
(***************************************************************************)
(* ltr_int_add_stripe: the stripe goes to the preblob it touches first,    *)
(* the others it touches are merged with that; or it begins one.           *)
(***************************************************************************)

\* Seeded fault: stripes that touch at a corner do not meet.
InRangeAtEdges(s, r) == s.hstart <= r.x2 /\ s.hstop >= r.x1

\* stripe_in_range: stripes touch at a corner, too.
InRange(s, r) == s.hstart - 1 <= r.x2 /\ s.hstop + 1 >= r.x1

\* merge_preblobs.
Merged(into, merged) ==
  [pb \in DOMAIN heap \ {merged} |->
     IF pb = into
     THEN [heap[into] EXCEPT !.pixels = @ \cup heap[merged].pixels,
                             !.points = @ + heap[merged].points]
     ELSE heap[pb]]

\* Seeded fault: the ranges of a merged preblob go on naming it.
TurnedNone(ranges, into, merged) == ranges

\* The ranges of the merged preblob are turned to the other.
Turned(ranges, into, merged) ==
  [i \in DOMAIN ranges |->
     IF ranges[i].pb = merged THEN [ranges[i] EXCEPT !.pb = into] ELSE ranges[i]]

Match ==
  /\ stage = "match" /\ turn \in DOMAIN stripes /\ turn' = turn + 1
  /\ LET met  == stripes[turn].pb
         into == IF rng = 0 THEN met ELSE stripes[rng].pb
     IN  \/ /\ ~InRange(stripe, stripes[turn])
            /\ UNCHANGED <<rng, heap, stripes, newStripes>>
         \/ /\ InRange(stripe, stripes[turn]) /\ into = met
            /\ rng' = IF rng = 0 THEN turn ELSE rng
            /\ heap' = [heap EXCEPT ![met].matched = TRUE]
            /\ UNCHANGED <<stripes, newStripes>>
         \/ /\ InRange(stripe, stripes[turn]) /\ into # met
            /\ heap' = Merged(into, met)
            /\ stripes' = Turned(stripes, into, met)
            /\ newStripes' = Turned(newStripes, into, met)
            /\ UNCHANGED rng
  /\ UNCHANGED <<scanned, stage, vline, preblobs, size, blobs>>

Own(s) == (s.hstart .. s.hstop) \X {s.vline}

\* The rest of it: preblob_from_stripe or add_stripe_to_preblob, and the new range.
Place ==
  /\ stage = "match" /\ turn \notin DOMAIN stripes
  /\ LET new == <<stripe.hstart, stripe.vline>>
         pb  == IF rng = 0 THEN new ELSE stripes[rng].pb
     IN  /\ heap' =
              IF rng = 0
              THEN [p \in DOMAIN heap \cup {new} |->
                      IF p = new THEN [pixels |-> Own(stripe), points |-> stripe.points,
                                       matched |-> TRUE]
                      ELSE heap[p]]
              ELSE [heap EXCEPT ![pb].pixels = @ \cup Own(stripe),
                                ![pb].points = @ + stripe.points]
         /\ newStripes' = Append(newStripes, [x1 |-> stripe.hstart, x2 |-> stripe.hstop, pb |-> pb])
  /\ stage' = "dark"
  /\ UNCHANGED <<scanned, turn, rng, stripes, vline, preblobs, size, blobs>>

------------------------------------------------------------------------------
(***************************************************************************)
(* ltr_int_stripes_to_blobs; the marks it draws are left out, the picture  *)
(* is not looked at again.                                                 *)
(***************************************************************************)
StripesToBlobs ==
  /\ stage = "dark" /\ Over
  /\ size' \in Sizes /\ stage' = "old" /\ turn' = 1
  /\ UNCHANGED <<scanned, rng, lines, preblobs, blobs>>

Fits(points) == size.min <= points /\ points <= size.max

Report ==
  /\ stage = "report" /\ turn \in DOMAIN preblobs
  /\ LET pb == heap[preblobs[turn]]
     IN  blobs' = IF Fits(pb.points) /\ Len(blobs) < MaxBlobs
                  THEN Append(blobs, [pixels |-> pb.pixels, points |-> pb.points])
                  ELSE blobs
  /\ turn' = turn + 1
  /\ UNCHANGED <<scanned, stage, rng, lines, preblobs, size>>

\* ltr_int_free_list frees the preblobs, too.
Free ==
  /\ stage = "report" /\ turn \notin DOMAIN preblobs
  /\ preblobs' = <<>> /\ heap' = <<>> /\ stage' = "done"
  /\ UNCHANGED <<scanned, turn, rng, stripes, newStripes, vline, size, blobs>>

StripeNext ==
  \/ Lit \/ Dark \/ Ends
  \/ StoreOld \/ StoreNew \/ NextLine
  \/ Match \/ Place
  \/ StripesToBlobs \/ Report \/ Free

StripeSpec == Init /\ [][StripeNext]_stripeVars

------------------------------------------------------------------------------
(***************************************************************************)
(* The fields of bright pixels of the picture: pixels that are connected   *)
(* through neighbours, eight to a pixel, and have no other neighbours.     *)
(***************************************************************************)
Near(p, q) == p[1] - q[1] \in -1 .. 1 /\ p[2] - q[2] \in -1 .. 1
Closed(f) == \A p \in f, q \in snapshot : Near(p, q) => q \in f
Connected(f) ==
  \A g \in SUBSET f : g \notin {{}, f} => \E p \in g, q \in f \ g : Near(p, q)
IsField(f) == f # {} /\ f \subseteq snapshot /\ Closed(f) /\ Connected(f)

Reported == {blobs[i].pixels : i \in DOMAIN blobs}

\* The blobs are fields of bright pixels of the size that is asked for, each reported once
\* with the number of its pixels, and no such field is left out while there is room:
\* dev_setup.htm:135, interface.htm:155.
BlobsAreFields ==
  stage = "done" =>
    /\ \A i \in DOMAIN blobs :
         /\ IsField(blobs[i].pixels)
         /\ blobs[i].points = Cardinality(blobs[i].pixels)
         /\ Fits(blobs[i].points)
    /\ \A i, j \in DOMAIN blobs : i # j => blobs[i].pixels # blobs[j].pixels
    /\ \/ Len(blobs) = MaxBlobs
       \/ \A f \in SUBSET (snapshot \ UNION Reported) : IsField(f) => ~Fits(Cardinality(f))

\* The same for pictures with a dark last column.
Inside == \A p \in snapshot : p[1] # Width - 1
BlobsAreFieldsInside == Inside => BlobsAreFields

================================================================================
