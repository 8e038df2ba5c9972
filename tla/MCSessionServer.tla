--------------------------- MODULE MCSessionServer ---------------------------
(***************************************************************************)
(* Instances of SessionServer.  A batch of the game module has 512 packets *)
(* and is modelled as two runs of 256, so a request can see half of it.    *)
(***************************************************************************)
EXTENDS SessionServer

NoHits == [f \in Flags |-> 0]
Half(hits) == [packets |-> 256, hits |-> hits]
Clean == Half(NoHits)

Zm   == <<Half([NoHits EXCEPT !["AC_ZERO_MOUSE"] = 1]), Clean>>  \* 1/512 scores 1, 1/256 bans
Duck == <<Clean, Half([NoHits EXCEPT !["AC_FAKEDUCK"] = 20])>>
\* A score of 2, in the half and in the whole.
Twitch == LET h == Half([NoHits EXCEPT !["AC_MICROMOVE_PATTERN"] = 10, !["AC_RAGE_AIM"] = 10])
          IN  <<h, Clean>>
\* A score of 5: suspicious.
Mixed == <<Half([NoHits EXCEPT !["AC_MICROMOVE_PATTERN"] = 10, !["AC_RAGE_AIM"] = 10]),
           Half([NoHits EXCEPT !["AC_ZERO_MOUSE"] = 1])>>

AllShapes   == {<<Clean, Clean>>, Zm, Duck, Twitch, Mixed}
FaultShapes == {Duck, Mixed, Twitch}
=============================================================================
