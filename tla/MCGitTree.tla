----------------------------- MODULE MCGitTree -----------------------------
(* A repository of up to seven paths for GitTree. *)
EXTENDS GitTree

\* A file and a directory of the same name are the first two: a merge brings both, or one
\* has taken the other's place.  The last one is an untracked repository inside this one,
\* which libgit2 lists with a slash at its end.
MCUniverse ==
  << <<"a">>, <<"a", "b">>,
     <<"b", "a">>,
     <<"b", "b", "a">>, <<"b", "b", "c">>,
     <<"c", "b", "a">>,
     <<"c", "e", "">> >>

MCBase == <<"", "home", "b">>

MCScanDirs == {<<>>, <<"b">>, <<"b", "b">>, <<"c", "z">>}
=============================================================================
