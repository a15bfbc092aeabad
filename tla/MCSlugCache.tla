---------------------------- MODULE MCSlugCache ----------------------------
(***************************************************************************)
(* Two slugs, a page request and a socket request at a time, and caches    *)
(* that can be full.                                                       *)
(***************************************************************************)
EXTENDS SlugCache

CONSTANTS s1, s2, page, socket
=============================================================================
