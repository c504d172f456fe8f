------------------------------ MODULE HttpRoutes ------------------------------
(***************************************************************************)
(* The routes of the HTTP interface, controller by controller, in the      *)
(* order in which Nest registers them: a request goes to the first route   *)
(* it matches.                                                             *)
(* A controller's table has the paths of its handlers; Routes puts them    *)
(* under the path that the controller's decorator names.                   *)
(*                                                                         *)
(* roles: what RolesGuard asks for; {} admits everyone who is signed in.   *)
(* open: the route is @Public.  limit: requests a minute (50 unless the    *)
(* handler says otherwise).  guard: a guard of the handler's own.          *)
(***************************************************************************)
EXTENDS Naturals, Sequences

R(method, path, roles) ==
  [method |-> method, path |-> path, roles |-> roles, open |-> FALSE, limit |-> 50,
   strategy |-> "combined", guard |-> "none"]
Public(method, path) == [R(method, path, {}) EXCEPT !.open = TRUE]
Limited(method, path, roles, limit) == [R(method, path, roles) EXCEPT !.limit = limit]
Guarded(r, guard) == [r EXCEPT !.guard = guard]

Admin == {"ADMIN"}
Staff == {"ADMIN", "MEMBER"}
All == {"ADMIN", "MEMBER", "GUEST"}
Under(prefix, routes) == [i \in DOMAIN routes |-> [routes[i] EXCEPT !.path = prefix \o @]]
\* The five operations of a resource, for those who may read and those who may write.
Get == <<>>
Id == <<"*">>

HealthRoutes == << Public("GET", <<"health">>) >>

CacheRoutes ==
  << R("GET", <<"stats">>, Admin), R("DELETE", <<"clear">>, Admin), R("DELETE", <<"flush">>, Admin) >>

\* Registered only when AUTH_EXAMPLE_ROUTES_ENABLED says so.
ExampleRoutes ==
  << Public("GET", <<"public">>),
     R("GET", <<"combined-default">>, {}),
     [R("GET", <<"jwt-only">>, {}) EXCEPT !.strategy = "jwt"],
     [R("GET", <<"supabase-only">>, {}) EXCEPT !.strategy = "supabase"],
     R("GET", <<"roles">>, {"admin", "user"}),
     Guarded(R("GET", <<"explicit-jwt-guard">>, {}), "jwt"),
     Limited("GET", <<"throttled">>, {}, 5),
     Guarded(R("GET", <<"explicit-combined-guard">>, {}), "combined") >>

AuthRoutes ==
  << Public("POST", <<"signup">>), Public("POST", <<"signin">>), Public("POST", <<"oauth">>),
     Public("POST", <<"oauth", "sync">>), R("GET", <<"verify">>, {}) >>
AuthSessionRoutes ==
  << Public("POST", <<"refresh">>), R("POST", <<"change-password">>, {}), R("POST", <<"signout">>, {}),
     Public("POST", <<"reset-password">>), Public("POST", <<"verify-otp">>),
     Public("POST", <<"resend-confirmation">>) >>

ApiKeyRoutes ==
  << R("GET", Get, Staff), R("POST", Get, Staff), R("DELETE", Id, Staff) >>

ConfigRoutes ==
  << R("GET", <<"system", "*">>, Admin), R("PUT", <<"system", "*">>, Admin),
     R("DELETE", <<"system", "*">>, Admin),
     R("GET", <<"user", "*">>, {}), R("PUT", <<"user", "*">>, {}), R("DELETE", <<"user", "*">>, {}) >>

CloudinaryRoutes == << R("GET", <<"cloudinary", "upload-signature">>, Staff) >>

ChatRoutes ==
  << R("GET", <<"messages">>, All), R("GET", <<"unread-count">>, All), R("PATCH", <<"read">>, All),
     R("DELETE", <<"history">>, All) >>

UserRoutes ==
  << R("GET", Get, Staff), R("GET", Id, Staff),
     Guarded(R("POST", Get, Admin), "restricted"), Guarded(R("PUT", Get, Admin), "restricted"),
     R("DELETE", <<"me">>, {}), R("DELETE", Id, Admin) >>

LanguageRoutes ==
  << Public("GET", Get), Public("GET", Id), R("POST", Get, Staff), R("PUT", Id, Staff),
     R("DELETE", Id, Staff) >>

\* Mutant: the folders of the caller come after the folder of any name.
LanguageFolderRoutesMyLast ==
  << R("GET", Get, Staff), R("GET", Id, All), R("GET", <<"my">>, {}), R("POST", Get, All),
     R("PUT", Id, All), R("DELETE", Id, All) >>
LanguageFolderRoutes ==
  << R("GET", Get, Staff), R("GET", <<"my">>, {}), R("GET", Id, All), R("POST", Get, All),
     R("PUT", Id, All), R("DELETE", Id, All) >>

PlanRoutes ==
  << Public("GET", Get), R("POST", Get, Admin), R("PUT", Id, Admin), R("DELETE", Id, Admin) >>

SubjectRoutes ==
  << R("GET", Get, All), R("GET", Id, All), Limited("POST", <<"generate">>, Staff, 10),
     R("POST", Get, All), R("PUT", Id, All), R("PATCH", <<"reorder">>, All), R("DELETE", Id, All) >>

WordTypeRoutes ==
  << Public("GET", Get), Public("GET", Id), R("POST", Get, All), R("PUT", Id, All),
     R("DELETE", Id, All) >>

VocabReadRoutes ==
  << R("GET", Get, All), R("GET", <<"random">>, All), R("GET", <<"*", "related-words">>, All),
     Limited("GET", <<"*", "related-words", "autocomplete">>, All, 60),
     R("DELETE", <<"*", "related-words", "*">>, All), R("GET", Id, All) >>
VocabBulkRoutes ==
  << R("POST", Get, All), Guarded(Public("POST", <<"quick-add">>), "apiKey"),
     R("POST", <<"bulk", "get">>, All), R("POST", <<"bulk", "create">>, Staff),
     R("POST", <<"bulk", "update">>, Staff), R("POST", <<"bulk", "delete">>, All),
     R("GET", <<"conflict", "by-subject">>, All),
     Limited("POST", <<"generate", "text-target">>, Staff, 10) >>
VocabWriteRoutes ==
  << R("PUT", Id, All), Limited("PUT", <<"*", "related-words">>, All, 30), R("DELETE", Id, All),
     R("POST", <<"import", "csv">>, Staff), R("GET", <<"export", "csv">>, All) >>
VocabStatisticsRoutes ==
  << R("GET", <<"dashboard">>, All), R("GET", <<"summary">>, All), R("GET", <<"by-subject">>, All),
     R("GET", <<"progress">>, All), R("GET", <<"problematic">>, All),
     R("GET", <<"problematic", "languages">>, All), R("GET", <<"distribution">>, All) >>

TextTargetRoutes ==
  << R("GET", Get, All), R("GET", Id, All), R("POST", Get, All), R("PUT", Id, All),
     R("DELETE", Id, All) >>

VocabTrainerRoutes ==
  << R("GET", Get, All), R("GET", Id, All), Limited("GET", <<"*", "exam">>, All, 20),
     R("PATCH", <<"*", "exam">>, All), R("POST", Get, All), R("PUT", Id, All), R("DELETE", Id, All),
     R("POST", <<"bulk", "delete">>, All) >>

NotificationRoutes ==
  << R("GET", Get, Staff), R("GET", <<"my">>, All), R("GET", <<"my", "unread">>, All),
     R("GET", <<"my", "unread-count">>, All), R("PATCH", <<"*", "my", "mark-as-read">>, All),
     R("PATCH", <<"my", "mark-all-as-read">>, All), R("GET", Id, All), R("POST", Get, Staff),
     R("PUT", Id, Staff), R("PATCH", <<"*", "status">>, All), R("DELETE", <<"*", "my">>, All),
     R("DELETE", Id, Staff), R("DELETE", <<"cleanup", "expired">>, Admin) >>

FcmRoutes ==
  << R("POST", <<"register">>, {}), R("POST", <<"unregister">>, {}), R("GET", <<"tokens">>, {}),
     R("POST", <<"test-notification">>, {}) >>

ReminderRoutes ==
  << R("POST", <<"immediate">>, Staff), R("POST", <<"schedule">>, Staff),
     R("POST", <<"recurring">>, Staff), R("POST", <<"immediate", "create-notification">>, Staff),
     R("POST", <<"schedule", "create-notification">>, Staff), R("POST", <<"cancel">>, Staff) >>

SseRoutes == << R("GET", <<"sse", "events">>, {}) >>
WebhookRoutes == << Public("GET", <<"webhook">>) >>

\* The order in which the application module imports the controllers' modules, each
\* controller's handlers under its own path.
Routes ==
  HealthRoutes \o Under(<<"cache">>, CacheRoutes)
  \o Under(<<"auth">>, Under(<<"examples">>, ExampleRoutes) \o AuthRoutes \o AuthSessionRoutes)
  \o Under(<<"api-keys">>, ApiKeyRoutes) \o Under(<<"config">>, ConfigRoutes) \o CloudinaryRoutes
  \o Under(<<"chat">>, ChatRoutes) \o Under(<<"users">>, UserRoutes)
  \o Under(<<"languages">>, LanguageRoutes) \o Under(<<"language-folders">>, LanguageFolderRoutes)
  \o Under(<<"plans">>, PlanRoutes) \o Under(<<"subjects">>, SubjectRoutes)
  \o Under(<<"word-types">>, WordTypeRoutes)
  \o Under(<<"vocabs">>, VocabReadRoutes \o VocabBulkRoutes \o VocabWriteRoutes
                         \o Under(<<"statistics">>, VocabStatisticsRoutes)
                         \o Under(<<"*", "text-targets">>, TextTargetRoutes))
  \o Under(<<"vocab-trainers">>, VocabTrainerRoutes) \o Under(<<"notifications">>, NotificationRoutes)
  \o Under(<<"fcm">>, FcmRoutes) \o Under(<<"reminders">>, ReminderRoutes) \o SseRoutes \o WebhookRoutes
=============================================================================
