---------------------------- MODULE SnapshotStore ----------------------------
(***************************************************************************)
(* What the save-state path promises a running cart, without headers,      *)
(* hashes or region callbacks: a cart either runs on one coherent state or *)
(* does not run at all.  `cur` is the state the cart runs on (None when no *)
(* cart runs), `img` the last image put on the medium (None when there is  *)
(* no image a loader would accept).  A restore replaces the whole state by *)
(* the whole image, and only for an image of the same layout.              *)
(***************************************************************************)
CONSTANTS Layouts,        \* the tracked-region layouts of the cart builds
          None,           \* no running cart / no usable image
          Fresh(_),       \* the zero-initialised contents of a layout
          Contents(_),    \* every contents of a layout, for the medium
          OwnValues,      \* OwnValues[r]: what the cart itself writes to region r
          CanonOf(_)      \* contents with every f32 NaN canonicalised

VARIABLES cur, img

State(l, c) == [layout |-> l, vals |-> c]

Init == cur = None /\ img = None

Start == /\ \E l \in Layouts : cur' = State(l, Fresh(l))
         /\ UNCHANGED img

Stop == cur' = None /\ UNCHANGED img

\* The cart updates one of its regions.
Work == /\ cur # None
        /\ \E i \in DOMAIN cur.vals : \E v \in OwnValues[cur.layout[i]] :
             cur' = State(cur.layout, [cur.vals EXCEPT ![i] = v])
        /\ UNCHANGED img

Checkpoint == /\ cur # None
              /\ cur' = State(cur.layout, CanonOf(cur.vals))
              /\ img' = cur'

Restore == /\ cur # None
           /\ img # None
           /\ img.layout = cur.layout
           /\ cur' = img
           /\ UNCHANGED img

\* The medium damages the image: beyond recognition, or in its contents.
Decay == /\ img # None
         /\ \/ img' = None
            \/ \E c \in Contents(img.layout) : img' = State(img.layout, c)
         /\ UNCHANGED cur

Next == Start \/ Stop \/ Work \/ Checkpoint \/ Restore \/ Decay

Spec == Init /\ [][Next]_<<cur, img>>
==============================================================================
