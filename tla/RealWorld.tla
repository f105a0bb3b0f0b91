----------------------------- MODULE RealWorld -----------------------------
(***************************************************************************)
(* The application of examples/realworld: concurrent requests on one       *)
(* connection pool (db.rs, deadpool with max_size and a wait timeout) and  *)
(* one PostgreSQL schema.  Every statement commits by itself: no handler   *)
(* opens a transaction.  A handler (handlers.rs) is a script of statements.*)
(* Some run on a connection the handler took first and keeps to its end    *)
(* ("own"); each function of db.rs takes another one for its statement     *)
(* ("lent").                                                               *)
(*                                                                         *)
(* A row keeps its keys and its owners; texts, times and hashes are left   *)
(* out.  A username stands for the username and the email of a user.       *)
(***************************************************************************)
EXTENDS Naturals, Sequences, FiniteSets, Functions

CONSTANTS
  Workers,     (* requests in flight at a time                             *)
  PoolSize,    (* max_size                                                 *)
  Usernames, Slugs, TagNames,
  Rounds       (* requests a worker serves, a bound of the model           *)

ASSUME PoolAssumption ==
  /\ PoolSize \in Nat \ {0} /\ Rounds \in Nat
  /\ IsFiniteSet(Workers) /\ IsFiniteSet(TagNames)
  /\ (\E m, n \in Usernames : m # n) /\ Slugs # {}   \* seed_data: two users, an article

VARIABLES
  db,          (* the tables                                               *)
  idle,        (* connections in the pool                                  *)
  req,         (* worker -> the request it serves                          *)
  served,      (* worker -> requests begun                                 *)
  made         (* article id -> the worker and round that inserted it      *)

rwVars == <<db, idle, req, served, made>>

Own(sql) == [sql |-> sql, conn |-> "own"]
Lent(sql) == [sql |-> sql, conn |-> "lent"]

(* build_profile and build_article for a viewer who is signed in.          *)
build_profile == <<Lent("is_following")>>
build_article ==
  <<Lent("find_author")>> \o build_profile \o
  <<Lent("get_tags_for_article"), Lent("favorites_count"), Lent("is_favorited")>>

InsertTags == [i \in 1..Cardinality(TagNames) |-> Own("insert_tag")]

(* The statements of each handler, in order.                               *)
UserScript ==
  [register |-> <<Lent("insert_user")>>,
   update_user |-> <<Lent("update_user")>>]
AccountScript ==
  [delete_account |-> <<Own("delete_user")>>,
   get_current_user_v3 |-> <<Own("select_self")>>]
ProfileScript ==
  [get_profile |-> <<Lent("find_user")>> \o build_profile,
   follow_profile |-> <<Lent("find_user"), Lent("insert_follow")>> \o build_profile,
   unfollow_profile |-> <<Lent("find_user"), Lent("delete_follow")>> \o build_profile]
ArticleScript ==
  [get_article |-> <<Own("select_article")>> \o build_article,
   create_article |-> <<Own("insert_article")>> \o InsertTags \o build_article,
   update_article |-> <<Own("update_article")>> \o build_article,
   delete_article |-> <<Own("delete_article")>>]
FavoriteScript ==
  [favorite_article |-> <<Own("select_article"), Own("insert_favorite")>> \o build_article,
   unfavorite_article |-> <<Own("select_article"), Own("delete_favorite")>> \o build_article]
CommentScript ==
  [get_comments |-> <<Own("select_article"), Own("select_comments"), Lent("comment_author"),
                      Lent("is_following")>>,
   add_comment |-> <<Own("select_article"), Own("insert_comment"), Lent("find_self")>>
                   \o build_profile,
   delete_comment |-> <<Own("delete_comment")>>]

(* list_articles stands for get_feed, search_articles and get_tags_v2, too,*)
(* which differ from it in the text of their one query.                    *)
ListScript == [list_articles |-> <<Own("select_articles")>>]
StatsScript == [get_stats |-> <<Own("count"), Own("count"), Own("count")>>]

ScriptNames ==
  DOMAIN UserScript \cup DOMAIN AccountScript \cup DOMAIN ProfileScript \cup DOMAIN ArticleScript
  \cup DOMAIN FavoriteScript \cup DOMAIN CommentScript \cup DOMAIN ListScript \cup DOMAIN StatsScript

Script ==
  [op \in ScriptNames |->
     CASE op \in DOMAIN UserScript -> UserScript[op]
       [] op \in DOMAIN AccountScript -> AccountScript[op]
       [] op \in DOMAIN ProfileScript -> ProfileScript[op]
       [] op \in DOMAIN ArticleScript -> ArticleScript[op]
       [] op \in DOMAIN FavoriteScript -> FavoriteScript[op]
       [] op \in DOMAIN CommentScript -> CommentScript[op]
       [] op \in DOMAIN ListScript -> ListScript[op]
       [] op \in DOMAIN StatsScript -> StatsScript[op]]

ByName == {"register", "update_user", "get_profile", "follow_profile", "unfollow_profile"}
BySlug == {"get_article", "create_article", "update_article", "delete_article",
           "favorite_article", "unfavorite_article", "get_comments", "add_comment"}
ById == {"delete_comment"}

None == 0
Idle == [op |-> "none", who |-> None, arg |-> None, pc |-> 1, own |-> FALSE, lent |-> FALSE,
         found |-> None, owner |-> None, answer |-> "none"]
InService(w) == req[w].op # "none" /\ req[w].answer = "none"
Held(w) == (IF req[w].own THEN 1 ELSE 0) + (IF req[w].lent THEN 1 ELSE 0)
Step(w) == Script[req[w].op][req[w].pc]

-----------------------------------------------------------------------------
(* seed_data, reduced: two users, an article of the first, a comment and a *)
(* favorite of the second, who follows the first.                          *)
Seed ==
  LET first == CHOOSE n \in Usernames : TRUE
      second == CHOOSE n \in Usernames \ {first} : TRUE
  IN
  [users |-> <<first, second>>,
   articles |-> <<[slug |-> CHOOSE s \in Slugs : TRUE, author |-> 1]>>,
   tags |-> {<<1, t>> : t \in TagNames},
   favorites |-> {<<2, 1>>},
   follows |-> {<<2, 1>>},
   comments |-> <<[author |-> 2, article |-> 1]>>,
   next |-> [user |-> 3, article |-> 2, comment |-> 2]]

RwInit ==
  /\ db = Seed
  /\ idle = PoolSize
  /\ req = [w \in Workers |-> Idle]
  /\ served = [w \in Workers |-> 0]
  /\ made = [a \in {1} |-> <<CHOOSE w \in Workers : TRUE, 0>>]

-----------------------------------------------------------------------------
(* Statements: what they leave in the tables and in the handler's locals,  *)
(* or the status the handler answers with instead.                         *)
Ok(d, q) == [db |-> d, q |-> q, status |-> "ok"]
Refused(d, q, s) == [db |-> d, q |-> q, status |-> s]

(* A table with one more row, under a key that has none yet.               *)
With(table, key, row) ==
  [k \in DOMAIN table \cup {key} |-> IF k \in DOMAIN table THEN table[k] ELSE row]

(* INSERT or UPDATE of a name some other row has: 409 from create_user,    *)
(* 500 elsewhere.                                                          *)
NameTaken(d, n, self) == \E u \in DOMAIN d.users \ {self} : d.users[u] = n
SlugTaken(d, s, self) == \E a \in DOMAIN d.articles \ {self} : d.articles[a].slug = s
BySlugId(d, s) == {a \in DOMAIN d.articles : d.articles[a].slug = s}

insert_user(d, q) ==
  IF NameTaken(d, q.arg, None) THEN Refused(d, q, "409")
  ELSE Ok([d EXCEPT !.users = With(@, d.next.user, q.arg), !.next.user = @ + 1],
          [q EXCEPT !.owner = d.next.user])

update_user(d, q) ==
  IF q.who \notin DOMAIN d.users \/ NameTaken(d, q.arg, q.who) THEN Refused(d, q, "500")
  ELSE Ok([d EXCEPT !.users[q.who] = q.arg], q)

(* Mutant: the schema without ON DELETE CASCADE on articles' comments.     *)
delete_user_NoCascade(d, q) ==
  LET gone == {a \in DOMAIN d.articles : d.articles[a].author = q.who}
  IN IF q.who \notin DOMAIN d.users THEN Refused(d, q, "404")
     ELSE Ok([d EXCEPT
                !.users = Restrict(@, DOMAIN @ \ {q.who}),
                !.articles = Restrict(@, DOMAIN @ \ gone),
                !.tags = {t \in @ : t[1] \notin gone},
                !.favorites = {f \in @ : f[1] # q.who /\ f[2] \notin gone},
                !.follows = {f \in @ : q.who \notin {f[1], f[2]}},
                !.comments = Restrict(@, {c \in DOMAIN @ : @[c].author # q.who})], q)

(* DELETE FROM users, with what ON DELETE CASCADE takes along.             *)
delete_user(d, q) ==
  LET gone == {a \in DOMAIN d.articles : d.articles[a].author = q.who}
  IN IF q.who \notin DOMAIN d.users THEN Refused(d, q, "404")
     ELSE Ok([d EXCEPT
                !.users = Restrict(@, DOMAIN @ \ {q.who}),
                !.articles = Restrict(@, DOMAIN @ \ gone),
                !.tags = {t \in @ : t[1] \notin gone},
                !.favorites = {f \in @ : f[1] # q.who /\ f[2] \notin gone},
                !.follows = {f \in @ : q.who \notin {f[1], f[2]}},
                !.comments = Restrict(@, {c \in DOMAIN @ : @[c].author # q.who
                                                           /\ @[c].article \notin gone})], q)

find_user(d, q) ==
  LET u == {x \in DOMAIN d.users : d.users[x] = q.arg}
  IN IF u = {} THEN Refused(d, q, "404")
     ELSE Ok(d, [q EXCEPT !.owner = CHOOSE x \in u : TRUE])

(* find_user_by_id for an id the handler has.                              *)
find_user_by_id(d, q, id) == IF id \in DOMAIN d.users THEN Ok(d, q) ELSE Refused(d, q, "404")

(* A row that references a user or an article needs it to exist.           *)
Exists(d, u, a) == u \in DOMAIN d.users /\ (a = None \/ a \in DOMAIN d.articles)

follow_user(d, q) ==
  IF Exists(d, q.who, None) /\ Exists(d, q.owner, None)
  THEN Ok([d EXCEPT !.follows = @ \cup {<<q.who, q.owner>>}], q)
  ELSE Refused(d, q, "500")

select_article(d, q) ==
  IF BySlugId(d, q.arg) = {} THEN Refused(d, q, "404")
  ELSE LET a == CHOOSE x \in BySlugId(d, q.arg) : TRUE
       IN Ok(d, [q EXCEPT !.found = a, !.owner = d.articles[a].author])

insert_article(d, q) ==
  IF SlugTaken(d, q.arg, None) \/ ~Exists(d, q.who, None) THEN Refused(d, q, "500")
  ELSE Ok([d EXCEPT !.articles = With(@, d.next.article, [slug |-> q.arg, author |-> q.who]),
                    !.next.article = @ + 1],
          [q EXCEPT !.found = d.next.article, !.owner = q.who])

(* Mutant: a failing INSERT of a tag is ignored.                           *)
insert_tag_Ignored(d, q) == Ok(d, q)

(* The next tag of the request; ON CONFLICT DO NOTHING.                    *)
insert_tag(d, q) ==
  IF q.found \notin DOMAIN d.articles THEN Refused(d, q, "500")
  ELSE LET left == {t \in TagNames : <<q.found, t>> \notin d.tags}
       IN IF left = {} THEN Ok(d, q)
          ELSE Ok([d EXCEPT !.tags = @ \cup {<<q.found, CHOOSE t \in left : TRUE>>}], q)

(* Mutant: the UPDATE does not ask for the author.                         *)
Mine_Any(d, q) == BySlugId(d, q.arg)

(* WHERE slug = $1 AND author_id = $2.                                     *)
Mine(d, q) == {a \in BySlugId(d, q.arg) : d.articles[a].author = q.who}

(* The body's new title gives any slug, the old one if it has none.        *)
update_article(d, q, s) ==
  IF Mine(d, q) = {} THEN Refused(d, q, "500")
  ELSE LET a == CHOOSE x \in Mine(d, q) : TRUE
       IN IF SlugTaken(d, s, a) THEN Refused(d, q, "500")
          ELSE Ok([d EXCEPT !.articles[a].slug = s],
                  [q EXCEPT !.found = a, !.owner = d.articles[a].author])

delete_article(d, q) ==
  LET gone == Mine(d, q)
  IN IF gone = {} THEN Refused(d, q, "404")
     ELSE Ok([d EXCEPT
                !.articles = Restrict(@, DOMAIN @ \ gone),
                !.tags = {t \in @ : t[1] \notin gone},
                !.favorites = {f \in @ : f[2] \notin gone},
                !.comments = Restrict(@, {c \in DOMAIN @ : @[c].article \notin gone})], q)

insert_favorite(d, q) ==
  IF Exists(d, q.who, q.found) THEN Ok([d EXCEPT !.favorites = @ \cup {<<q.who, q.found>>}], q)
  ELSE Refused(d, q, "500")

insert_comment(d, q) ==
  IF Exists(d, q.who, q.found)
  THEN Ok([d EXCEPT !.comments = With(@, d.next.comment, [author |-> q.who, article |-> q.found]),
                    !.next.comment = @ + 1], q)
  ELSE Refused(d, q, "500")

delete_comment(d, q) ==
  IF q.arg \in DOMAIN d.comments /\ d.comments[q.arg].author = q.who
  THEN Ok([d EXCEPT !.comments = Restrict(@, DOMAIN @ \ {q.arg})], q)
  ELSE Refused(d, q, "404")

(* The comments' authors are read one by one after the list; `owner` is    *)
(* one of them, and a list with no comment skips the rest of the script.   *)
select_comments(d, q) ==
  LET authors == {d.comments[c].author : c \in {x \in DOMAIN d.comments :
                                                  d.comments[x].article = q.found}}
  IN IF authors = {} THEN Ok(d, [q EXCEPT !.pc = Len(Script[q.op])])
     ELSE Ok(d, [q EXCEPT !.owner = CHOOSE u \in authors : TRUE])

Execute(sql, d, q, s) ==
  CASE sql = "insert_user" -> insert_user(d, q)
    [] sql = "update_user" -> update_user(d, q)
    [] sql = "select_self" -> find_user_by_id(d, q, q.who)
    [] sql = "find_self" -> find_user_by_id(d, q, q.who)
    [] sql = "find_author" -> find_user_by_id(d, q, q.owner)
    [] sql = "comment_author" -> find_user_by_id(d, q, q.owner)
    [] sql = "delete_user" -> delete_user(d, q)
    [] sql = "find_user" -> find_user(d, q)
    [] sql = "insert_follow" -> follow_user(d, q)
    [] sql = "delete_follow" -> Ok([d EXCEPT !.follows = @ \ {<<q.who, q.owner>>}], q)
    [] sql = "select_article" -> select_article(d, q)
    [] sql = "insert_article" -> insert_article(d, q)
    [] sql = "insert_tag" -> insert_tag(d, q)
    [] sql = "update_article" -> update_article(d, q, s)
    [] sql = "delete_article" -> delete_article(d, q)
    [] sql = "insert_favorite" -> insert_favorite(d, q)
    [] sql = "delete_favorite" -> Ok([d EXCEPT !.favorites = @ \ {<<q.who, q.found>>}], q)
    [] sql = "insert_comment" -> insert_comment(d, q)
    [] sql = "delete_comment" -> delete_comment(d, q)
    [] sql = "select_comments" -> select_comments(d, q)
    [] OTHER -> Ok(d, q)   \* the reads whose result is only shown

-----------------------------------------------------------------------------
Args(op) ==
  CASE op \in ByName -> Usernames
    [] op \in BySlug -> Slugs
    [] op \in ById -> {1, 2}
    [] OTHER -> {None}

(* A request reaches its handler: AuthUser was extracted from a token that *)
(* verified, whoever it names, and the validator of register passed.       *)
Begin(w, op, u, arg) ==
  /\ ~InService(w) /\ served[w] < Rounds
  /\ req' = [req EXCEPT ![w] = [Idle EXCEPT !.op = op, !.who = u, !.arg = arg]]
  /\ served' = [served EXCEPT ![w] = @ + 1]
  /\ UNCHANGED <<db, idle, made>>

Waits(w) ==
  /\ InService(w)
  /\ IF Step(w).conn = "own" THEN ~req[w].own ELSE ~req[w].lent

(* pool.get() finds a connection.                                          *)
Get(w) ==
  /\ Waits(w) /\ idle > 0
  /\ idle' = idle - 1
  /\ req' = [req EXCEPT ![w] = IF Step(w).conn = "own" THEN [@ EXCEPT !.own = TRUE]
                               ELSE [@ EXCEPT !.lent = TRUE]]
  /\ UNCHANGED <<db, served, made>>

(* Mutant: a connection kept for the handler is not given back.            *)
Answer_Leak(w, status) ==
  /\ req' = [req EXCEPT ![w] = [Idle EXCEPT !.answer = status]]
  /\ idle' = idle + (IF req[w].lent THEN 1 ELSE 0)

(* Mutant: two connections are given back whatever is held.                *)
Answer_Both(w, status) ==
  /\ req' = [req EXCEPT ![w] = [Idle EXCEPT !.answer = status]]
  /\ idle' = idle + 2

(* The handler returns: the connections it still holds go back.            *)
Answer(w, status) ==
  /\ req' = [req EXCEPT ![w] = [Idle EXCEPT !.answer = status]]
  /\ idle' = idle + Held(w)

(* Mutant: a pool without a wait timeout.                                  *)
WaitTimeout_Never(w) == Waits(w) /\ FALSE /\ UNCHANGED rwVars

(* pool.get() gives up after the wait timeout: 500.                        *)
WaitTimeout(w) ==
  /\ Waits(w) /\ idle = 0
  /\ Answer(w, "500")
  /\ UNCHANGED <<db, served, made>>

Ready(w) == InService(w) /\ ~Waits(w)

(* The next statement.  A db.rs function gives its connection back, the    *)
(* last statement or a refusal ends the handler.                           *)
Query(w) ==
  /\ Ready(w)
  /\ \E s \in IF Step(w).sql = "update_article" THEN Slugs ELSE {None} :
       LET r == Execute(Step(w).sql, db, req[w], s)
           last == r.q.pc >= Len(Script[req[w].op])
       IN /\ db' = r.db
          /\ made' = IF Step(w).sql = "insert_article" /\ r.status = "ok"
                     THEN With(made, r.q.found, <<w, served[w]>>) ELSE made
          /\ IF r.status # "ok" \/ last THEN Answer(w, r.status)
             ELSE /\ req' = [req EXCEPT ![w] = [r.q EXCEPT !.pc = @ + 1, !.lent = FALSE]]
                  /\ idle' = idle + (IF req[w].lent THEN 1 ELSE 0)
  /\ UNCHANGED served

(* The database refuses or the connection breaks: 500.                     *)
QueryFails(w) ==
  /\ Ready(w)
  /\ Answer(w, "500")
  /\ UNCHANGED <<db, served, made>>

(* The client goes away and the handler's future is dropped.               *)
Abandon(w) ==
  /\ InService(w)
  /\ Answer(w, "gone")
  /\ UNCHANGED <<db, served, made>>

RwProgress(w) == Get(w) \/ WaitTimeout(w) \/ Query(w)

RwNext ==
  \E w \in Workers :
    \/ \E op \in DOMAIN Script : \E u \in {1, 2}, arg \in Args(op) : Begin(w, op, u, arg)
    \/ RwProgress(w)
    \/ QueryFails(w)
    \/ Abandon(w)

RwSpec == RwInit /\ [][RwNext]_rwVars

(* A task that can run is polled; the timer of a waiting one fires.        *)
RwFairness == \A w \in Workers : WF_rwVars(RwProgress(w))

-----------------------------------------------------------------------------
RwTypeOK ==
  /\ idle \in 0..PoolSize
  /\ \A w \in Workers :
       /\ req[w].op \in DOMAIN Script \cup {"none"}
       /\ req[w].answer \in {"none", "ok", "404", "409", "500", "gone"}
       /\ InService(w) => req[w].pc \in DOMAIN Script[req[w].op]
  /\ served \in [Workers -> 0..Rounds]
  /\ DOMAIN db.articles \subseteq DOMAIN made

(* Whatever requests interleave, and whoever's token outlives the account, *)
(* no row points at a user or an article that is gone, and names and slugs *)
(* stay unique (run_migrations; deletes cascade).                          *)
ConstraintsHold ==
  /\ \A a \in DOMAIN db.articles : db.articles[a].author \in DOMAIN db.users
  /\ \A c \in DOMAIN db.comments : Exists(db, db.comments[c].author, db.comments[c].article)
  /\ \A f \in db.favorites : Exists(db, f[1], f[2])
  /\ \A f \in db.follows : Exists(db, f[1], None) /\ Exists(db, f[2], None)
  /\ \A t \in db.tags : t[1] \in DOMAIN db.articles
  /\ IsInjective(db.users)
  /\ \A a, b \in DOMAIN db.articles : db.articles[a].slug = db.articles[b].slug => a = b

Owners == {w \in Workers : req[w].own}
Lenders == {w \in Workers : req[w].lent}

(* Every connection is in the pool, or with a request still running as its *)
(* own or lent, also after timeouts, refusals and dropped handlers.        *)
PoolWhole == idle + Cardinality(Owners) + Cardinality(Lenders) = PoolSize

(* An article changes or goes only by a request made with its author's     *)
(* token, a comment by one of its author's or of the article's author.     *)
OwnerStep ==
  /\ \A a \in DOMAIN db.articles :
       \/ a \in DOMAIN db'.articles /\ db'.articles[a] = db.articles[a]
       \/ \E w \in Workers : req[w] # req'[w] /\ req[w].who = db.articles[a].author
  /\ \A c \in DOMAIN db.comments :
       \/ c \in DOMAIN db'.comments
       \/ \E w \in Workers :
            /\ req[w] # req'[w]
            /\ req[w].who \in {db.comments[c].author,
                               db.articles[db.comments[c].article].author}
OwnerOnly == [][OwnerStep]_rwVars

(* create_article commits statement by statement: an article that lacks a  *)
(* tag belongs to a request that is still at it or did not end well, never *)
(* to one answered with 201.                                               *)
WholeArticles ==
  \A a \in DOMAIN db.articles, t \in TagNames :
    <<a, t>> \notin db.tags =>
      LET w == made[a][1]
      IN made[a][2] = served[w] => req[w].answer # "ok"

(* Handlers hold one connection while they wait for a second.  With the    *)
(* pool spent on such holders nobody can go on, and still every request is *)
(* answered: the wait timeout breaks the circle (create_pool, db.rs).      *)
RequestsAnswered == \A w \in Workers : []<>~InService(w)
=============================================================================
