----------------------------- MODULE MenuSearch -----------------------------
(***************************************************************************)
(* The agent's search_menu: relevance, price window and popularity         *)
(* composed in one call.  Dishes are retrieved by vector and by word,      *)
(* hydrated, scored, and only then ordered and cut.  Everything is read    *)
(* from Postgres at the time of the call, one query at a time, and each    *)
(* query may fail.  Similarities are per cent; what an embedder or the     *)
(* edit distance says of a phrase and a name is part of the dish.          *)
(***************************************************************************)
EXTENDS Integers, FiniteSetsExt, SequencesExt

CONSTANTS
  Item,           \* products, by their id
  Menus,          \* the menus to search; a product is described by DishType
  Phrase, Price,
  Searches,       \* the arguments the agent may call with; see SearchType
  Absent,         \* an optional argument that is not there
  K, Overfetch,   \* KNN_K, KNN_ROW_OVERFETCH
  Missed,         \* what a scan of the vector index, which is approximate, may not come to
  LexicalLimit,   \* LEXICAL_LIMIT
  MaxCandidates   \* maxCandidatesToLlm

VARIABLES
  menu,     \* menu[i]: the dish product i is, as the database has it now
  search,   \* the arguments of the call
  step,     \* the query the call waits for
  ranking,  \* the bestsellers, best first
  vectors,  \* the phrases the index answered for
  pages,    \* pages[p]: the rows the vector index returned for phrase p
  words,    \* the products found by a word
  sims,     \* the similarity of the products nearest by the index
  wanted,   \* the products to hydrate
  rows,     \* the products as they were read
  answer

searchVars == <<menu, search, step, ranking, vectors, pages, words, sims, wanted, rows, answer>>

Percent == 0..100
DishType == [names : Seq([Phrase -> Percent]),   \* one row of item_vector per language
             near : [Phrase -> Percent],         \* edit-distance similarity of the nearest name
             worded : SUBSET Phrase,             \* phrases with a word one of the names contains
             extras : [Phrase -> Percent],       \* ... of the nearest of its options
             price : Price, available : BOOLEAN, qty : Int]
SearchType == [query : BOOLEAN, phrases : SUBSET Phrase, sort : {"relevance", "popularity", Absent},
               limit : Nat \union {Absent}, min : Price \union {Absent}, max : Price \union {Absent}]

ASSUME SearchAssumption ==
  /\ Item \subseteq Nat /\ IsFiniteSet(Item) /\ Price \subseteq Nat /\ Absent \notin Nat
  /\ Searches \subseteq SearchType
  /\ \A s \in Searches : s.limit # 0 /\ (~s.query => s.phrases = {})
  /\ {K, Overfetch, LexicalLimit, MaxCandidates} \subseteq Nat \ {0}
  /\ Menus \subseteq [Item -> DishType]

NoDish == [i \in {} |-> 0]
Best(S) == Max(S \union {0})

(* ORDER BY d DESC LIMIT n: the order of ties is the database's.           *)
Top(d, n) ==
  { R \in kSubset(Min({n, Cardinality(DOMAIN d)}), DOMAIN d) : \A r \in R, s \in (DOMAIN d) \ R : d[r] >= d[s] }
Restricted(d, S) == [x \in S |-> d[x]]

(* sort, by a total order, and slice.                                      *)
Ordered(S, before) == CHOOSE s \in SetToSeqs(S) : \A k, l \in DOMAIN s : k < l => <<s[k], s[l]>> \in before
First(s, n) == SubSeq(s, 1, Min({Len(s), n}))

-----------------------------------------------------------------------------
(* What is asked.                                                          *)

Limit(s) == IF s.limit = Absent THEN MaxCandidates ELSE Min({s.limit, MaxCandidates})
byPopularity(s) == s.sort = "popularity" \/ ~s.query
withinPrice(price, s) ==
  /\ s.min = Absent \/ s.min <= price
  /\ s.max = Absent \/ price <= s.max

(* Retrieval.  Rows of the restaurant, one per product and language; a      *)
(* phrase without an answer has no hits.  The index is approximate (HNSW,   *)
(* its hits of all restaurants filtered afterwards): the page is of the     *)
(* nearest among the rows the scan came to.                                *)
Rows == UNION { {i} \X DOMAIN menu[i].names : i \in Item }
SeededOf(m) == { i \in Item : m[i].names # <<>> }
Seeded == SeededOf(menu)

knnOne(p) ==
  UNION { Top([r \in Rows \ missed |-> menu[r[1]].names[r[2]][p]], K * Overfetch) : missed \in Missed }

(* hits[p]: the rows returned for phrase p.                                *)
bestOf(hits) ==
  [i \in { r[1] : r \in UNION { hits[p] : p \in DOMAIN hits } } |->
     Best(UNION { { menu[i].names[r[2]][p] : r \in { s \in hits[p] : s[1] = i } } : p \in DOMAIN hits })]

knnSearch(hits) == { Restricted(bestOf(hits), S) : S \in Top(bestOf(hits), K) }

lexicalSearch(phrases) ==
  LET named == { i \in Seeded : menu[i].worded \cap phrases # {} }
  IN kSubset(Min({LexicalLimit, Cardinality(named)}), named)

(* Scoring, in hundredths of a per cent.                                   *)
modifierMatchScore(d, phrases) ==
  LET best == Best({ d.extras[p] : p \in phrases }) IN IF best >= 60 THEN best ELSE 0

Score(d, sim, phrases) ==
  55 * sim + 35 * Best({ d.near[p] : p \in phrases }) + 10 * modifierMatchScore(d, phrases)

scoreOf(found, i) == Score(found[i], IF i \in DOMAIN sims THEN sims[i] ELSE 0, search.phrases)
Threshold == 1500

\* Mutant: what is to be ordered by sales is cut by relevance first.
matchLimitCut(s) == Limit(s)

matchLimit(s) == IF byPopularity(s) THEN Cardinality(Item) ELSE Limit(s)

OnOffer(d) == d.available /\ withinPrice(d.price, search)
byId == { r \in Item \X Item : r[1] < r[2] }
byScore(found) ==
  { r \in Item \X Item :
      \/ scoreOf(found, r[1]) > scoreOf(found, r[2])
      \/ scoreOf(found, r[1]) = scoreOf(found, r[2]) /\ r[1] < r[2] }

rank(found) ==
  LET kept == { i \in DOMAIN found : OnOffer(found[i]) /\ scoreOf(found, i) >= Threshold }
  IN First(Ordered(kept, byScore(found)), matchLimit(search))

browse(found) == Ordered({ i \in DOMAIN found : OnOffer(found[i]) }, byId)

Position(seq, i) == IF i \in Range(seq) THEN CHOOSE k \in DOMAIN seq : seq[k] = i ELSE Len(seq) + 1

(* Re-ranking by sales keeps the given order among what did not sell.      *)
bySales(items) ==
  { r \in Item \X Item :
      \/ Position(ranking, r[1]) < Position(ranking, r[2])
      \/ Position(ranking, r[1]) = Position(ranking, r[2]) /\ Position(items, r[1]) < Position(items, r[2]) }
rerank(items) == First(Ordered(Range(items), bySales(items)), Limit(search))

searchMenu(found) ==
  IF byPopularity(search) THEN rerank(IF search.query THEN rank(found) ELSE browse(found)) ELSE rank(found)

-----------------------------------------------------------------------------
SearchInit ==
  /\ menu \in Menus /\ search \in Searches
  /\ step = "called"
  /\ ranking = <<>> /\ answer = <<>>
  /\ vectors = {} /\ words = {} /\ wanted = {}
  /\ pages = NoDish /\ sims = NoDish /\ rows = NoDish

(* Where the call goes once the popularity is known or is not needed: to   *)
(* the embedder, or, without a query, to the whole menu.  A query with no   *)
(* phrase in it finds nothing.                                             *)
AfterPopularity ==
  CASE ~search.query -> "scan"
    [] search.query /\ search.phrases = {} -> "over"
    [] OTHER -> "embed"

call ==
  /\ step = "called"
  /\ step' = IF byPopularity(search) THEN "popularity" ELSE AfterPopularity
  /\ UNCHANGED <<menu, search, ranking, vectors, pages, words, sims, wanted, rows, answer>>

(* Units sold, of what is seeded for this restaurant; a failed query is no  *)
(* ranking.                                                                *)
units(i) == menu[i].qty
Bestsellers ==
  { s \in SetToSeqs({ i \in Seeded : units(i) > 0 }) :
      \A k \in DOMAIN s : \A l \in DOMAIN s : k < l => units(s[k]) >= units(s[l]) }

popularity ==
  /\ step = "popularity"
  /\ ranking' \in Bestsellers \union {<<>>}
  /\ step' = AfterPopularity
  /\ UNCHANGED <<menu, search, vectors, pages, words, sims, wanted, rows, answer>>

(* A gap in the embedder's answer leaves its phrase out; with no vector at  *)
(* all, as from the stub, the whole menu is scanned.  A throw ends the call *)
(* as a tool error.                                                        *)
embed ==
  /\ step = "embed"
  /\ \E answered \in SUBSET search.phrases :
       /\ vectors' = answered
       /\ step' \in {IF answered = {} THEN "scan" ELSE "retrieve", "failed"}
  /\ UNCHANGED <<menu, search, ranking, pages, words, sims, wanted, rows, answer>>

(* Both retrievals, a failure of either being no hits.                     *)
retrieve ==
  /\ step = "retrieve"
  /\ \E answered \in SUBSET vectors :
     \E hits \in { f \in [answered -> UNION { knnOne(p) : p \in answered }] : \A p \in answered : f[p] \in knnOne(p) } :
     \E found \in knnSearch(hits), worded \in lexicalSearch(search.phrases) \union {{}} :
       /\ vectors' = answered /\ pages' = hits /\ words' = worded /\ sims' = found
       /\ wanted' = (DOMAIN found) \union worded
       /\ step' = IF wanted' = {} THEN "scan" ELSE "getItems"
  /\ UNCHANGED <<menu, search, ranking, rows, answer>>

(* hydrate: the products, then their options.                              *)
itemRows ==
  /\ step \in {"scan", "getItems"}
  /\ \/ step' = "failed" /\ UNCHANGED rows
     \/ /\ rows' = [i \in IF step = "scan" THEN Seeded ELSE wanted \cap Seeded |-> menu[i]]
        /\ step' = IF DOMAIN rows' = {} THEN "over" ELSE "modRows"
  /\ UNCHANGED <<menu, search, ranking, vectors, pages, words, sims, wanted, answer>>

modRows ==
  /\ step = "modRows"
  /\ UNCHANGED <<menu, search, ranking, vectors, pages, words, sims, wanted>>
  /\ \/ step' = "failed" /\ UNCHANGED <<rows, answer>>
     \/ /\ rows' = [i \in DOMAIN rows |-> [rows[i] EXCEPT !.extras = menu[i].extras]]
        /\ step' = "over"
        /\ answer' = searchMenu(rows')

(* The back office takes a product off sale while the call is under way.     *)
backOffice(i) ==
  /\ step \in {"retrieve", "getItems", "modRows"} /\ menu[i].available
  /\ menu' = [menu EXCEPT ![i].available = FALSE]
  /\ UNCHANGED <<search, step, ranking, vectors, pages, words, sims, wanted, rows, answer>>

SearchNext ==
  \/ call \/ popularity \/ embed \/ retrieve \/ itemRows \/ modRows
  \/ \E i \in Item : backOffice(i)

SearchSpec == SearchInit /\ [][SearchNext]_searchVars

-----------------------------------------------------------------------------
(* What the search could reach: of the products with a row on a page, the K *)
(* nearest by their best row, and those found by a word; or the whole menu.  *)
(* Which rows are on a page is for the index to say: nothing is claimed of   *)
(* those its scan did not come to, or that were off the page.               *)
Matches(m, ps, i) ==
  { s \in Percent : \E p \in DOMAIN ps : \E r \in ps[p] : r[1] = i /\ s = m[i].names[r[2]][p] }
Paged(m, ps) == { i \in Item : Matches(m, ps, i) # {} }
Sim(m, ps, i) == Max(Matches(m, ps, i))

\* nearest: K of the products on the pages, none of the others being nearer.
NearestOf(m, ps, nearest) ==
  /\ nearest \subseteq Paged(m, ps)
  /\ Cardinality(nearest) = Min({K, Cardinality(Paged(m, ps))})
  /\ \A i \in nearest, j \in Paged(m, ps) \ nearest : Sim(m, ps, i) >= Sim(m, ps, j)

Nearest == DOMAIN sims
Reachable ==
  IF search.query /\ search.phrases = {} THEN {}
  ELSE IF Nearest \union words = {} THEN Seeded ELSE Nearest \union words

Relevance(i) == Score(rows[i], IF i \in Nearest THEN Sim(menu, pages, i) ELSE 0, search.phrases)
Eligible ==
  { i \in Reachable :
      /\ rows[i].available
      /\ withinPrice(rows[i].price, search)
      /\ search.query => Relevance(i) >= Threshold }

(* Sales come first when they are asked for and known; relevance decides    *)
(* between products that did not sell.                                     *)
Sold(i) == IF ranking # <<>> /\ menu[i].qty > 0 THEN menu[i].qty ELSE 0
Better(i, j) ==
  IF byPopularity(search)
  THEN Sold(i) > Sold(j) \/ (search.query /\ Sold(i) = 0 /\ Sold(j) = 0 /\ Relevance(i) > Relevance(j))
  ELSE Relevance(i) > Relevance(j)

(* The answer is the best `limit` of all that could be reached, best first,  *)
(* on sale and within the price window when it was read: of what the queries *)
(* returned nothing is left unread, crowded out by a farther product with    *)
(* more rows, cut away before the filter or before the order that was asked  *)
(* for, or shown twice.                                                      *)
BestOfReachable ==
  step = "over" =>
    /\ NearestOf(menu, pages, Nearest)
    /\ Reachable = DOMAIN rows
    /\ Len(answer) = Min({MaxCandidates, Cardinality(Eligible)} \union ({search.limit} \ {Absent}))
    /\ \A k \in DOMAIN answer :
         LET rest == Eligible \ { answer[l] : l \in 1..k - 1 }
         IN answer[k] \in rest /\ \A i \in rest : ~Better(i, answer[k])

(* When the vector index fails, the search falls back to the whole menu:     *)
(* "an error/missing extension degrades to an empty result -> the matcher    *)
(* falls back to a fuzzy scan" (src/menu/postgres-menu-store.ts:111-112).    *)
(* Not so when the search by word has hits: only those are looked at.        *)
ScansWithoutIndex ==
  step = "over" /\ search.phrases # {} /\ vectors = {} => wanted = {}

SearchTypeOK ==
  /\ search \in SearchType
  /\ step \in {"called", "popularity", "embed", "retrieve", "scan", "getItems", "modRows", "over", "failed"}
  /\ vectors \subseteq search.phrases
  /\ DOMAIN pages \subseteq vectors /\ words \subseteq wanted
  /\ wanted \subseteq Seeded /\ DOMAIN sims \subseteq wanted /\ DOMAIN rows \subseteq Seeded
  /\ answer \in Seq(DOMAIN rows)
=============================================================================
