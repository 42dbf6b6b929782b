---------------------------- MODULE MCRenderMaster ----------------------------
(* TLC instance of RenderMaster: two workers, two renders that share a file, *)
(* and two uploads, one of them of a file that is there already.             *)
EXTENDS RenderMaster, TLC

CONSTANTS w1, w2, scene, mesh, image, r1, r2, u1, u2

TwoWorkers == {w1, w2}
TheFiles == {scene, mesh, image}
TheResults == {image}
TheHandlers == {r1, r2, u1, u2}
Kinds == [h \in TheHandlers |-> IF h \in {r1, r2} THEN "Render" ELSE "UploadDirect"]
Requests == (r1 :> <<scene, mesh>>) @@ (r2 :> <<mesh>>) @@ (u1 :> <<scene>>) @@ (u2 :> <<mesh>>)
=============================================================================
