-------------------------- MODULE BuildPublication --------------------------
(***************************************************************************)
(* What a build directory promises to whoever opens it: the manifest is    *)
(* the publication mark.  A manifest appears only beside the complete and  *)
(* newest payload, is never replaced in place, and is withdrawn before any *)
(* payload file of a newer attempt is written.                             *)
(***************************************************************************)
EXTENDS Naturals

CONSTANT
    Payload          \* the files a manifest vouches for

VARIABLES
    attempt,         \* number of the newest build attempt
    published,       \* attempt named by the readable manifest, 0 for none
    payload          \* <<file, attempt>> for every complete payload file

pubVars == <<attempt, published, payload>>

PubInit ==
    /\ attempt = 0
    /\ published = 0
    /\ payload = {}

\* A new attempt starts; the previous publication still stands.
Begin ==
    /\ attempt' = attempt + 1
    /\ UNCHANGED <<published, payload>>

\* Payload files go away, published or not.
Discard ==
    /\ payload' \subseteq payload
    /\ UNCHANGED <<attempt, published>>

\* The manifest goes away.
Withdraw ==
    /\ published' = 0
    /\ UNCHANGED <<attempt, payload>>

\* A file of the newest attempt is completed in a directory that holds no
\* manifest and no file of an older attempt.
Produce ==
    /\ published = 0
    /\ payload \subseteq (Payload \X {attempt})
    /\ \E f \in Payload : payload' = payload \cup {<<f, attempt>>}
    /\ UNCHANGED <<attempt, published>>

\* The manifest appears last, beside the whole payload of its own attempt.
Publish ==
    /\ published = 0
    /\ payload = Payload \X {attempt}
    /\ published' = attempt
    /\ UNCHANGED <<attempt, payload>>

PubNext == Begin \/ Discard \/ Withdraw \/ Produce \/ Publish

PubSpec == PubInit /\ [][PubNext]_pubVars
=============================================================================
