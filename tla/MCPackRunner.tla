---------------------------- MODULE MCPackRunner ----------------------------
EXTENDS PackRunner, TLC

CONSTANTS text, image, check, post

\* A fan-out, the gated join behind it and the effect behind that, as the packs end.
MCNodes     == {text, image, check, post}
MCDependsOn == (text :> {} @@ image :> {} @@ check :> {text, image} @@ post :> {check})
MCGates     == {check}
MCEffects   == {post}
=============================================================================
