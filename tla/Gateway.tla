------------------------------ MODULE Gateway ------------------------------
(***************************************************************************)
(* The API gateway's response cache.  A GET of a public path is answered   *)
(* from Redis or forwarded, and its 2xx answer cached; a write that        *)
(* answered 2xx clears the namespaces that _INVALIDATION_NAMESPACE_MAP     *)
(* gives for its path.  A service sends its answer before the transaction  *)
(* of the request commits, so the gateway may clear the cache too early.   *)
(* The product service's consumer writes the catalog too and clears the    *)
(* "products" namespace itself.                                            *)
(*                                                                         *)
(* A path is the sequence of its segments after /api/v1.  One page is      *)
(* observed; a write matters by the kinds of rows it changes and the page  *)
(* shows.                                                                  *)
(***************************************************************************)
EXTENDS Naturals, Sequences, SequencesExt, FiniteSets

CONSTANT MaxVersion   \* bound: writes that change the page

VARIABLES
  page,      \* the observed page
  version,   \* committed writes that changed what the page shows
  entry,     \* the version the cache holds, or Absent
  reader,    \* the version a forwarded GET has read, or Absent
  write,     \* [route, db, gw]: a write, its transaction and its request
  consumer,  \* "idle", or the consumer has committed rows and has yet to clear
  why        \* history: what left the cached entry behind, "none" otherwise

vars == <<page, version, entry, reader, write, consumer, why>>

Absent == MaxVersion + 1

-----------------------------------------------------------------------------
(* Configuration.                                                           *)

\* GatewayConfig.services: a route of any other service answers 404.
Services ==
  {"user", "product", "supplier", "notification", "order", "payment", "shipping", "wishlist"}

\* PUBLIC_ENDPOINTS with GET, as prefixes.
PublicGets ==
  {<<"products">>, <<"categories">>, <<"customization", "pricing">>,
   <<"images", "generations">>, <<"shipping", "methods">>}

\* Mutant of InvalidationMap: an image write clears the images only.
InvalidationMapImagesAlone ==
  <<<<"products", {"products"}>>, <<"categories", {"categories", "products"}>>,
    <<"images", {"images"}>>, <<"reviews", {"reviews", "products"}>>,
    <<"orders", {"orders"}>>, <<"carts", {"carts"}>>, <<"wishlists", {"wishlists"}>>,
    <<"shipping", {"shipping"}>>, <<"users", {"users"}>>,
    <<"notifications", {"notifications"}>>>>

\* In order: the first segment that occurs in the path decides.
InvalidationMap ==
  <<<<"products", {"products"}>>, <<"categories", {"categories", "products"}>>,
    <<"images", {"images", "products"}>>, <<"reviews", {"reviews", "products"}>>,
    <<"orders", {"orders"}>>, <<"carts", {"carts"}>>, <<"wishlists", {"wishlists"}>>,
    <<"shipping", {"shipping"}>>, <<"users", {"users"}>>,
    <<"notifications", {"notifications"}>>>>

Namespaces(path) ==
  LET hits == {i \in DOMAIN InvalidationMap : InvalidationMap[i][1] \in ToSet(path)}
  IN  IF hits = {} THEN {}
      ELSE InvalidationMap[CHOOSE i \in hits : \A j \in hits : i <= j][2]

IsPublic(path) == \E p \in PublicGets : IsPrefix(p, path)

\* cache_response skips the polled job status.
Cacheable(path) == IsPublic(path) /\ ~IsPrefix(<<"images", "generations">>, path)

\* The keys of a namespace start with its name.
Clears(namespaces, path) == Head(path) \in namespaces

Page(path, shows) == [path |-> path, shows |-> shows]
Route(service, path, changes) ==
  [service |-> service, path |-> path, changes |-> changes, empty |-> FALSE]
\* A DELETE that the service answers with 204 and no body.
Deletion(service, path, changes) ==
  [service |-> service, path |-> path, changes |-> changes, empty |-> TRUE]

\* GETs of the product service and the rows their answers are made of.
ProductPages ==
  {Page(<<"products">>, {"product"}), Page(<<"products", "p">>, {"product"}),
   Page(<<"products", "detailed">>, {"product", "image", "review", "category"}),
   Page(<<"products", "p", "detailed">>, {"product", "image", "review", "category"}),
   Page(<<"categories">>, {"category"}), Page(<<"categories", "c">>, {"category"}),
   Page(<<"images">>, {"image"}), Page(<<"p", "images">>, {"image"}),
   Page(<<"reviews">>, {"review"}), Page(<<"users", "u", "reviews">>, {"review"}),
   Page(<<"products", "p", "reviews">>, {"review"}),
   Page(<<"products", "p", "users", "u", "reviews">>, {"review"})}

ShippingPages ==
  {Page(<<"shipping", "methods">>, {"method"}), Page(<<"shipping", "methods", "m">>, {"method"})}

\* What an administrator writes in the catalog.
CatalogRoutes ==
  {Route("product", <<"products">>, {"product"}),
   Route("product", <<"products", "upload">>, {"product", "image"}),
   Route("product", <<"products", "p">>, {"product", "image", "review"}),
   Route("product", <<"products", "p", "upload">>, {"product", "image"}),
   Route("product", <<"categories">>, {"category"}),
   Route("product", <<"categories", "c">>, {"category"}),
   Route("product", <<"p", "images">>, {"image"}),
   Route("product", <<"images", "i">>, {"image"}),
   Deletion("product", <<"products", "p">>, {"product", "image", "review"}),
   Deletion("product", <<"categories", "c">>, {"category"}),
   Deletion("product", <<"images", "i">>, {"image"})}

\* What a customer writes in the product service.
CustomerRoutes ==
  {Route("product", <<"products", "p", "users", "u", "reviews">>, {"review"}),
   Deletion("product", <<"products", "p", "users", "u", "reviews">>, {"review"}),
   Route("product", <<"images", "generations">>, {}),
   Route("product", <<"products", "p", "favorite">>, {})}

UserRoutes ==
  {Route("user", <<op>>, {}) : op \in {"register", "login", "google-login", "refresh",
                                       "logout", "forgot-password"}} \cup
  {Route("user", <<"activate", "t">>, {}), Route("user", <<"password-reset", "t">>, {}),
   Route("user", <<"users", "u">>, {})}

OrderRoutes ==
  {Route("order", <<"orders">>, {}), Route("order", <<"orders", "quote">>, {}),
   Route("order", <<"orders", "o">>, {}), Deletion("order", <<"orders", "o">>, {}),
   Route("order", <<"orders", "o", "cancel">>, {})}

PaymentRoutes ==
  {Route("payment", <<"payments", "create-intent">>, {}),
   Route("payment", <<"payments", "webhook">>, {})}

ShippingRoutes ==
  {Route("shipping", <<"shipping", "methods">>, {"method"}),
   Route("shipping", <<"shipping", "methods", "m">>, {"method"}),
   Route("shipping", <<"shipping", "rates">>, {}),
   Route("shipping", <<"shipments">>, {}), Route("shipping", <<"shipments", "s">>, {})}

CartRoutes ==
  {Deletion("cart", <<"users", "u", "cart">>, {}),
   Route("cart", <<"users", "u", "cart", "items">>, {}),
   Route("cart", <<"users", "u", "cart", "items", "i">>, {})}

WishlistRoutes ==
  {Route("wishlist", <<"wishlists", "me", "items">>, {}),
   Route("wishlist", <<"wishlists", "me", "items", "i">>, {})}

NotificationRoutes ==
  {Route("notification", <<"notifications", "n", "read">>, {}),
   Route("notification", <<"notifications", "users", "u", "read-all">>, {}),
   Deletion("notification", <<"notifications", "n">>, {})}

SupplierRoutes ==
  {Route("supplier", <<"cjdropshipping", "sync">>, {}),
   Route("supplier", <<"suppliers", "s", "sync">>, {})}

Pages == ProductPages \cup ShippingPages

Writes ==
  UNION {CatalogRoutes, CustomerRoutes, UserRoutes, OrderRoutes, PaymentRoutes, ShippingRoutes,
         CartRoutes, WishlistRoutes, NotificationRoutes, SupplierRoutes}

NoWrite == [route |-> Route("none", <<>>, {}), db |-> "idle", gw |-> "idle"]

TypeOK ==
  /\ page \in Pages
  /\ version \in 0..MaxVersion
  /\ entry \in 0..Absent /\ reader \in 0..Absent
  /\ write \in {NoWrite} \cup
       [route : Writes, db : {"open", "settled", "written"},
        gw : {"waiting", "answered", "cleared", "lost"}]
  /\ consumer \in {"idle", "committed"}
  /\ why \in {"none", "overtaken", "early", "lost", "imported"}

Init ==
  /\ page \in Pages
  /\ version = 0 /\ entry = Absent /\ reader = Absent
  /\ write = NoWrite /\ consumer = "idle"
  /\ why = "none"

Changes(rows) == rows \cap page.shows # {}

\* DEL of every key of the namespaces.
Clear(namespaces) ==
  IF Clears(namespaces, page.path)
  THEN entry' = Absent /\ why' = "none"
  ELSE UNCHANGED <<entry, why>>

-----------------------------------------------------------------------------
(* Reads.                                                                   *)

\* A miss is forwarded; the service reads its database.
Miss ==
  /\ entry = Absent /\ reader = Absent
  /\ reader' = version
  /\ UNCHANGED <<page, version, entry, write, consumer, why>>

\* The 2xx answer is cached if the page is public.
Fill ==
  /\ reader # Absent
  /\ reader' = Absent
  /\ IF Cacheable(page.path)
     THEN entry' = reader /\ why' = IF reader < version THEN "overtaken" ELSE "none"
     ELSE UNCHANGED <<entry, why>>
  /\ UNCHANGED <<page, version, write, consumer>>

\* The service failed, or SETEX did: the error is swallowed.
FillLost ==
  /\ reader # Absent
  /\ reader' = Absent
  /\ UNCHANGED <<page, version, entry, write, consumer, why>>

\* get_cache_ttl: 300 or 600 seconds.
Expire ==
  /\ entry # Absent
  /\ entry' = Absent /\ why' = "none"
  /\ UNCHANGED <<page, version, reader, write, consumer>>

-----------------------------------------------------------------------------
(* Writes through the gateway.                                              *)

Send(r) ==
  /\ write = NoWrite
  /\ r.service \in Services
  /\ version < MaxVersion
  /\ write' = [route |-> r, db |-> "open", gw |-> "waiting"]
  /\ UNCHANGED <<page, version, entry, reader, consumer, why>>

\* The service's 2xx reaches the gateway, the transaction still open.
Answer ==
  /\ write.gw = "waiting" /\ ~write.route.empty
  /\ write' = [write EXCEPT !.gw = "answered"]
  /\ UNCHANGED <<page, version, entry, reader, consumer, why>>

\* An error, a timeout, or an answer without a body, which response.json()
\* always fails to parse: forward_request answers 500 and the middleware
\* clears nothing, although the service may go on.
AnswerLost ==
  /\ write.gw = "waiting"
  /\ write' = [write EXCEPT !.gw = "lost"]
  /\ UNCHANGED <<page, version, entry, reader, consumer, why>>

Commit ==
  /\ write.db = "open" /\ write.gw # "waiting"
  /\ IF Changes(write.route.changes)
     THEN /\ version' = version + 1
          /\ write' = [write EXCEPT !.db = "written"]
          /\ why' = IF entry = Absent THEN why
                    ELSE IF write.gw = "cleared" THEN "early"
                    ELSE IF write.gw = "lost" THEN "lost" ELSE why
     ELSE /\ write' = [write EXCEPT !.db = "settled"]
          /\ UNCHANGED <<version, why>>
  /\ UNCHANGED <<page, entry, reader, consumer>>

Rollback ==
  /\ write.db = "open" /\ write.gw # "waiting"
  /\ write' = [write EXCEPT !.db = "settled"]
  /\ UNCHANGED <<page, version, entry, reader, consumer, why>>

Invalidate ==
  /\ write.gw = "answered"
  /\ write' = [write EXCEPT !.gw = "cleared"]
  /\ Clear(Namespaces(write.route.path))
  /\ UNCHANGED <<page, version, reader, consumer>>

\* invalidate_namespace logs an error of Redis and goes on.
InvalidateFails ==
  /\ write.gw = "answered"
  /\ write' = [write EXCEPT !.gw = "lost"]
  /\ why' = IF write.db = "written" /\ entry # Absent THEN "lost" ELSE why
  /\ UNCHANGED <<page, version, entry, reader, consumer>>

Finish ==
  /\ write.db \in {"settled", "written"} /\ write.gw \in {"cleared", "lost"}
  /\ write' = NoWrite
  /\ UNCHANGED <<page, version, entry, reader, consumer, why>>

-----------------------------------------------------------------------------
(* Writes of the product service's consumer.                                *)

\* A reservation, a release or an import has committed.  An import may create
\* categories, whose pages it does not clear.
ConsumerCommit(rows) ==
  /\ consumer = "idle"
  /\ version < MaxVersion - 1
  /\ Changes(rows)
  /\ version' = version + 1
  /\ consumer' = "committed"
  /\ why' = IF entry # Absent /\ ~Clears({"products"}, page.path) THEN "imported" ELSE why
  /\ UNCHANGED <<page, entry, reader, write>>

ConsumerClear ==
  /\ consumer = "committed"
  /\ consumer' = "idle"
  /\ Clear({"products"})
  /\ UNCHANGED <<page, version, reader, write>>

ConsumerClearFails ==
  /\ consumer = "committed"
  /\ consumer' = "idle"
  /\ why' = IF entry # Absent THEN "lost" ELSE why
  /\ UNCHANGED <<page, version, entry, reader, write>>

Reservation == {"product"}
Import == {"product", "image", "category"}

-----------------------------------------------------------------------------

Read == Miss \/ Fill \/ FillLost \/ Expire
Forward == Answer \/ AnswerLost \/ Commit \/ Rollback \/ Invalidate \/ InvalidateFails \/ Finish
Consume == ConsumerCommit(Reservation) \/ ConsumerCommit(Import) \/ ConsumerClear \/ ConsumerClearFails

Next == Read \/ (\E r \in Writes : Send(r)) \/ Forward \/ Consume

Spec == Init /\ [][Next]_vars

-----------------------------------------------------------------------------
(* Properties.                                                              *)

Stale == entry # Absent /\ entry < version

ClearPending ==
  \/ /\ write.db = "written" /\ write.gw = "answered"
     /\ Clears(Namespaces(write.route.path), page.path)
  \/ consumer = "committed" /\ Clears({"products"}, page.path)

\* Whatever page and whatever write: a cached answer that a committed write
\* has made stale is about to be cleared, unless a read was overtaken, the
\* clearing came before the commit or was lost, or an import made categories.
StaleIsExplained == Stale /\ why = "none" => ClearPending

=============================================================================
