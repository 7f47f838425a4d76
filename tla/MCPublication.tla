---------------------------- MODULE MCPublication ----------------------------
EXTENDS Publication

CONSTANTS a, ab, c1, c2, keep, body, npz

TwoIds == {a, ab}
\* run ids "a" and "a.b": the glob .a.* also matches .a.b.<suffix>
Dotted == {<<a, a>>, <<ab, ab>>, <<a, ab>>}
=============================================================================
