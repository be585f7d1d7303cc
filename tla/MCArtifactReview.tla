-------------------------- MODULE MCArtifactReview --------------------------
(***************************************************************************)
(* A small instance of ArtifactReview: a packet, its two revisions of      *)
(* which one keeps the old version's label, one with another task, and a   *)
(* malformed one; two reviews of the first packet with the same finding,   *)
(* one without findings, and one that is not sound.                        *)
(***************************************************************************)
EXTENDS ArtifactReview, TLC

CONSTANTS c1, c2, f1

Packet(text, version, context, valid) ==
  [text |-> text, version |-> version, context |-> context, valid |-> valid]

First == Packet("a", "v1", c1, TRUE)

MCPackets ==
  {First, Packet("b", "v2", c1, TRUE), Packet("b", "v1", c1, TRUE),
   Packet("b", "v2", c2, TRUE), Packet("b", "v2", c1, FALSE)}

Response(name, findings, sound) ==
  [name |-> name, about |-> First, sound |-> sound, findings |-> findings]

MCResponses ==
  {Response("one", {f1}, TRUE), Response("two", {f1}, TRUE),
   Response("none", {}, TRUE), Response("unsound", {}, FALSE)}

MCSymmetry == Permutations(Jobs) \cup Permutations(Dirs)
=============================================================================
