----------------------------- MODULE MCRelease -----------------------------
(***************************************************************************)
(* Release for TLC: a final version and a prerelease, whose jobs run at    *)
(* the same time and fail wherever they like, and two platforms.           *)
(***************************************************************************)
EXTENDS Release

CONSTANTS v1, rc, linux, darwin

MCTags == {v1, rc}
MCPrereleases == {rc}
MCPlatforms == {linux, darwin}

=============================================================================
