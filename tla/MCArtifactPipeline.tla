------------------------- MODULE MCArtifactPipeline -------------------------
(* ArtifactPipeline with two keyboards.                                    *)
EXTENDS ArtifactPipeline

CONSTANTS ka, kb

TwoKeyboards == {ka, kb}
ThreeSlots == 1..3
OneSlot == {1}
=============================================================================
