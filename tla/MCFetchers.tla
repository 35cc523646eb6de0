----------------------------- MODULE MCFetchers -----------------------------
(***************************************************************************)
(* Small sites for Fetchers: pages that link back, share items or are      *)
(* empty, on two hosts.                                                    *)
(***************************************************************************)
EXTENDS Fetchers, TLC

CONSTANTS p, q, r, x, a, b, h1, h2

MCHostOf == (p :> h1 @@ q :> h1 @@ r :> h1 @@ x :> h1 @@ a :> h1 @@ b :> h2)

Site(kind, start, links, next) ==
    LET Of(f) == [u \in Urls |-> IF u \in DOMAIN f THEN f[u] ELSE <<>>] IN
    [kind |-> kind, start |-> start, links |-> Of(links), next |-> Of(next)]

MCWebs ==
    {\* two list pages that share an item and link to each other
     Site("web_list", <<p>>, (p :> <<a, b>> @@ q :> <<b, x>>),
          (p :> <<q>> @@ q :> <<p>>)),
     \* two first pages, of which one follows the other
     Site("web_list", <<p, q>>, (p :> <<a, a>> @@ q :> <<b>>), p :> <<q>>),
     \* an index that names itself, another and the sitemap both share
     Site("sitemap", <<p>>, r :> <<a, b>>, (p :> <<p, q, r>> @@ q :> <<p, r>>)),
     \* an index beside a sitemap, and one that names nothing but itself
     Site("sitemap", <<p>>, r :> <<a, b>>, (p :> <<q, r>> @@ q :> <<p>>)),
     Site("sitemap", <<p>>, x :> <<a>>, p :> <<p>>),
     \* two sitemaps that share a page
     Site("sitemap", <<p>>, (q :> <<a, b>> @@ r :> <<b, a>>), p :> <<q, r>>),
     \* an API whose second page names the first
     Site("api_next", <<p>>, (p :> <<a>> @@ q :> <<b>>),
          (p :> <<q>> @@ q :> <<p>>)),
     Site("api_next", <<p>>, (p :> <<a>> @@ q :> <<b>>), p :> <<q>>),
     \* numbered pages, of which the second is empty
     Site("api_numbered", <<p>>, (p :> <<a, b>> @@ r :> <<a>>),
          (p :> <<q>> @@ q :> <<r>>)),
     Site("api_single", <<p>>, p :> <<a, b>>, p :> <<q>>),
     Site("rss", <<p>>, p :> <<a, b, b, q>>, p :> <<q>>),
     Site("web_page", <<a>>, a :> <<b>>, p :> <<q>>)}
=============================================================================
