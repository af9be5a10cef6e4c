-------------------------- MODULE MCSidecarRefresh --------------------------
(***************************************************************************)
(* Small instances of SidecarRefresh: a movie, or a series with a season.  *)
(***************************************************************************)
EXTENDS SidecarRefresh, TLC

CONSTANTS movie, series, season, folder, c1, c2

MCMovieKeys == {movie} \X Facet
MCNfoKey == {<<movie, "metadata">>}
MCMovieDir == movie :> folder
MCMovieChildren == movie :> {}

MCSeriesKeys == {series} \X {"metadata", "images", "subtree"}
MCSubtree == {<<series, "subtree">>}
MCSeriesDir == series :> folder
MCSeriesChildren == series :> {season}

Slots == Permutations({c1, c2})
=============================================================================
