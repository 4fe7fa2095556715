----------------------------- MODULE SafeUpdate -----------------------------
(***************************************************************************)
(* What an over-the-air update owes its device: the installed sketch is    *)
(* replaced only by a whole, verified image, which is forgotten rather     *)
(* than installed when power is lost first, and nothing but an             *)
(* interruption of the copy itself can leave the device without a sketch.  *)
(***************************************************************************)
CONSTANTS Images, NoImage

VARIABLES installed,  \* the image in the sketch's place, NoImage if broken
          verified,   \* a whole image, waiting to be copied there
          copying     \* the copy has begun

vars == <<installed, verified, copying>>

Init == installed \in Images /\ verified = NoImage /\ copying = FALSE

\* A download has ended and what arrived is what the server sent.
Accept(m) == /\ installed # NoImage /\ verified = NoImage
             /\ verified' = m
             /\ UNCHANGED <<installed, copying>>

Forget == ~copying /\ verified' = NoImage /\ UNCHANGED <<installed, copying>>

StartCopy == /\ ~copying /\ verified # NoImage
             /\ copying' = TRUE
             /\ UNCHANGED <<installed, verified>>

EndCopy(result) == /\ copying
                   /\ installed' = result
                   /\ verified' = NoImage
                   /\ copying' = FALSE

Finish == EndCopy(verified)

\* The copy may have changed nothing, something, or everything.
Interrupt == \E result \in {installed, verified, NoImage} : EndCopy(result)

Next == (\E m \in Images : Accept(m)) \/ Forget \/ StartCopy \/ Finish \/ Interrupt

Spec == Init /\ [][Next]_vars
-----------------------------------------------------------------------------
\* A copy has a whole image to copy, from its beginning to its end.
CopiesVerified == copying => verified # NoImage

\* The installed sketch changes only when a copy ends, finished or not, and
\* then to the verified image or, if the copy was interrupted, to none.
Replacement ==
  installed' # installed => /\ copying /\ ~copying'
                            /\ installed' \in {verified, NoImage}

ReplacedByVerified == [][Replacement]_vars
=============================================================================
