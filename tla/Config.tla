------------------------------- MODULE Config -------------------------------
(***************************************************************************)
(* From korall_init to the first answers: the configuration of             *)
(* src/src/config/config.c is filled with defaults and then field by field *)
(* from korall_config.json, the route arrays of                            *)
(* src/src/http/routes/http_routes.c are sized by it, routes are added,    *)
(* and the CORS headers of src/src/http/http.c are made from it.           *)
(*                                                                         *)
(* A field of the file is <<>> when it is missing or has another type, and *)
(* <<v>> otherwise.  Of a text only the length matters.                    *)
(***************************************************************************)
EXTENDS Integers, SequencesExt, FiniteSetsExt

CONSTANTS
    Files,        \* contents of korall_config.json
    Origins,      \* Origin headers of requests
    MaxOrigins,   \* MAX_ALLOW_ORIGINS, 100 in config.h
    MaxHeaders,   \* MAX_ALLOW_HEADERS, 100 in config.h
    MaxAdds       \* bound: calls of korall_http_routes_add

Star == "*"
TooLong == "too long"       \* a string over the limit of its list
NotAString == "not a string"
NoOrigin == "no Origin"

MethodNames == {"CONNECT", "DELETE", "GET", "HEAD", "OPTIONS", "PATCH", "POST", "PUT", "TRACE"}
NameLength == [CONNECT |-> 7, DELETE |-> 6, GET |-> 3, HEAD |-> 4, OPTIONS |-> 7,
               PATCH |-> 5, POST |-> 4, PUT |-> 3, TRACE |-> 5]

MaxMethods == 9             \* MAX_ALLOW_METHODS
MethodsLen == 52            \* ALL_METHODS_LIST_STR_LEN
MaxDomainLen == 255
MaxNameLen == 100
MinPort == 1024
MaxPort == 65535
RouteSize == 24             \* sizeof(HTTPRoute) where a pointer has 8 bytes

IsOptional(field, S) == field = <<>> \/ (Len(field) = 1 /\ field[1] \in S)

ASSUME ConfigAssumption ==
    /\ MaxOrigins \in Nat \ {0} /\ MaxHeaders \in Nat \ {0} /\ MaxAdds \in Nat
    /\ \A f \in Files :
        /\ IsOptional(f.name, Nat) /\ IsOptional(f.domain, Nat)
        /\ IsOptional(f.port, Int) /\ IsOptional(f.routes, Nat)
        /\ IsOptional(f.credentials, BOOLEAN) /\ IsOptional(f.secure, BOOLEAN)
        /\ {f.origins, f.headers, f.methods} \subseteq Seq(STRING)

VARIABLES
    pc,           \* how far korall_init and the application have come
    file,         \* the contents of the file, when it could be read
    config,       \* g_config
    routes,       \* the number of HTTP routes
    capacity,     \* the capacity of their array
    added,        \* calls of korall_http_routes_add
    cors          \* the CORS headers of the last answer

vars == <<pc, file, config, routes, capacity, added, cors>>

-----------------------------------------------------------------------------
(* Reading the file                                                        *)

Default == [name |-> 12, domain |-> 9, port |-> 3500, path |-> TRUE,
            origins |-> <<Star>>, headers |-> <<Star>>, methods |-> <<Star>>,
            credentials |-> FALSE, secure |-> TRUE, routes |-> 100]

\* cjson_read_string: a text that is too long keeps the default.
ReadText(old, field, max) == IF field # <<>> /\ field[1] <= max THEN field[1] ELSE old

\* cjson_read_bool and cjson_read_num
ReadValue(old, field) == IF field = <<>> THEN old ELSE field[1]

\* Fault: any number is a port.
ReadAnyPort(old, field) == ReadValue(old, field)

ReadPort(old, field) ==
    LET port == ReadValue(old, field)
    IN  IF port \in MinPort .. MaxPort THEN port ELSE old

\* comp_int compares the two addresses, and they are never the same.
CompInt(list, s) == FALSE

\* The strings of a JSON array; what is in it besides them is passed over.
Strings(items) == Range(items) \ {NotAString}

\* allow_origins_add and its like: a string that is acceptable is pushed while
\* there is room.
Push(list, s, accepted, max) ==
    IF s \in accepted /\ ~CompInt(list, s) /\ Len(list) < max THEN Append(list, s) ELSE list

\* Fault: the list is cleared for no string.
ReadListOntoDefault(old, items, accepted, max) ==
    FoldLeft(LAMBDA list, s : Push(list, s, accepted, max), old, items)

\* cjson_read_arr_string: the first string clears the list, acceptable or not, and
\* each one is pushed if it can be.
ReadList(old, items, accepted, max) ==
    IF Strings(items) = {} THEN old
    ELSE FoldLeft(LAMBDA list, s : Push(list, s, accepted, max), <<>>, items)

\* What allow_origins_add, allow_headers_add and allow_methods_add accept
Short(items) == Strings(items) \ {TooLong}
Methods(items) == Strings(items) \cap MethodNames

-----------------------------------------------------------------------------
(* The CORS headers of an answer                                           *)

\* Fault: the wildcard is sent whatever the credentials are.
AllowOriginAny(origins, credentials, origin) ==
    IF origins = <<>> \/ origin = NoOrigin THEN <<>>
    ELSE IF origins = <<Star>> THEN <<Star>>
    ELSE SelectSeq(origins, LAMBDA o : o = origin)

\* http_verify_origin: the value of Access-Control-Allow-Origin, or none
AllowOrigin(origins, credentials, origin) ==
    IF origins = <<>> \/ origin = NoOrigin THEN <<>>
    ELSE IF origins = <<Star>> THEN IF credentials THEN <<origin>> ELSE <<Star>>
    ELSE IF origin \in Range(origins) THEN <<origin>>
    ELSE <<>>

\* Fault: the separator is counted when the length is compared, and again later.
MethodsTextCountsTwice(methods) ==
    IF methods = <<>> THEN -1
    ELSE IF methods = <<Star>> THEN 1
    ELSE LET length == [k \in DOMAIN methods |->
                            IF methods[k] \in MethodNames THEN NameLength[methods[k]] ELSE 1000]
             upTo(k) == FoldLeft(+, 0, SubSeq(length, 1, k)) + (IF k > 1 THEN k - 1 ELSE 0)
         IN  IF \E k \in DOMAIN methods : length[k] + 2 + upTo(k - 1) > MethodsLen
             THEN -1 ELSE upTo(Len(methods))

\* http_allowed_methods: the length of the text it writes, or -1.  The length
\* that is compared with the limit has the separators of the items before only.
MethodsText(methods) ==
    IF methods = <<>> THEN -1
    ELSE IF methods = <<Star>> THEN 1
    ELSE LET length == [k \in DOMAIN methods |->
                            IF methods[k] \in MethodNames THEN NameLength[methods[k]] ELSE 1000]
             upTo(k) == FoldLeft(+, 0, SubSeq(length, 1, k)) + (IF k > 1 THEN k - 1 ELSE 0)
         IN  IF \E k \in DOMAIN methods : length[k] + upTo(k - 1) > MethodsLen
             THEN -1 ELSE upTo(Len(methods))

\* The CORS part of http_process_request_construct_response and of
\* http_process_request_options
CorsHeaders(c, origin) ==
    [origin |-> origin, allowOrigin |-> AllowOrigin(c.origins, c.credentials, origin),
     credentials |-> c.credentials, methods |-> MethodsText(c.methods)]

NoCors == [origin |-> NoOrigin, allowOrigin |-> <<>>, credentials |-> FALSE, methods |-> 0]

-----------------------------------------------------------------------------
Init ==
    /\ pc = "start" /\ file \in Files /\ config = Default
    /\ routes = 0 /\ capacity = 0 /\ added = 0 /\ cors = NoCors

Step(from, to, new) ==
    /\ pc = from /\ pc' = to /\ config' = new
    /\ UNCHANGED <<file, routes, capacity, added, cors>>

\* No path, a path that is too long, or a file that cannot be read
NoFile == Step("start", "routes", [config EXCEPT !.path = FALSE])
\* cJSON_Parse fails: the defaults stay, and so does an empty resource path.
BadJson == Step("start", "routes", config)

ReadTexts ==
    Step("start", "numbers",
         [config EXCEPT !.name = ReadText(@, file.name, MaxNameLen),
                        !.domain = ReadText(@, file.domain, MaxDomainLen)])
ReadNumbers ==
    Step("numbers", "lists",
         [config EXCEPT !.port = ReadPort(@, file.port),
                        !.routes = ReadValue(@, file.routes),
                        !.credentials = ReadValue(@, file.credentials)])
ReadLists ==
    Step("lists", "secure",
         [config EXCEPT !.origins = ReadList(@, file.origins, Short(file.origins), MaxOrigins),
                        !.headers = ReadList(@, file.headers, Short(file.headers), MaxHeaders),
                        !.methods = ReadList(@, file.methods, Methods(file.methods), MaxMethods)])
ReadSecure == Step("secure", "routes", [config EXCEPT !.secure = ReadValue(@, file.secure)])

\* routes_init
RoutesInit ==
    /\ pc = "routes" /\ pc' = "add"
    /\ capacity' = RouteSize * config.routes
    /\ UNCHANGED <<file, config, routes, added, cors>>

\* korall_http_routes_add with a path, a callback and a method that are valid
AddRoute ==
    /\ pc = "add" /\ added < MaxAdds
    /\ added' = added + 1
    /\ routes' = IF routes < capacity THEN routes + 1 ELSE routes
    /\ UNCHANGED <<pc, file, config, capacity, cors>>

\* A preflight request, with or without an Origin header
Preflight(origin) ==
    /\ pc = "add"
    /\ cors' = CorsHeaders(config, origin)
    /\ UNCHANGED <<pc, file, config, routes, capacity, added>>

Next == \/ NoFile \/ BadJson \/ ReadTexts \/ ReadNumbers \/ ReadLists \/ ReadSecure
        \/ RoutesInit \/ AddRoute
        \/ \E origin \in Origins \cup {NoOrigin} : Preflight(origin)

Spec == Init /\ [][Next]_vars

-----------------------------------------------------------------------------
(* Properties                                                              *)

\* The configuration keeps its type, and the port is one that can be bound
\* whatever the file says.
TypeOK ==
    /\ pc \in {"start", "numbers", "lists", "secure", "routes", "add"}
    /\ config.port \in MinPort .. MaxPort
    /\ config.name \in 0 .. MaxNameLen /\ config.domain \in 0 .. MaxDomainLen
    /\ {config.credentials, config.secure, config.path} \subseteq BOOLEAN
    /\ Len(config.origins) <= MaxOrigins /\ Len(config.headers) <= MaxHeaders
    /\ Len(config.methods) <= MaxMethods
    /\ capacity \in Nat /\ routes <= added /\ routes <= capacity

\* The wildcard of the default never stands beside a method of the file: the list
\* is the default, or what the file adds to an empty list, which http_allowed_methods
\* relies on (it looks for the wildcard in lists of one element only).
WildcardIsAlone == Star \in Range(config.methods) => config.methods = <<Star>>

\* With credentials an answer allows the origin of its request and never any other
\* ("cannot be "*" when Access-Control-Allow-Credentials: true, use request origin",
\* http.c:569), and an origin is allowed only if the configuration has it or allows any.
OriginsAreAllowedOnes ==
    cors.allowOrigin # <<>> =>
        /\ cors.credentials => cors.allowOrigin = <<cors.origin>>
        /\ cors.origin \in Range(config.origins) \/ config.origins = <<Star>>
        /\ cors.allowOrigin \in {<<Star>>, <<cors.origin>>}

\* Different methods can be written in any order and fill ALL_METHODS_LIST_STR_LEN
\* characters at most ("len "CONNECT,DELETE,...", config.h:20), although the length
\* that http_allowed_methods compares lacks a separator; none is refused as too long.
MethodsFit ==
    cors # NoCors /\ config.methods # <<>> /\ IsInjective(config.methods) =>
        cors.methods \in 1 .. MethodsLen
=============================================================================
