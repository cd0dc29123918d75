------------------------------ MODULE Proxies ------------------------------
(* How the SOCKS5 proxy, the HTTP proxy and the debug server answer one    *)
(* request, by the kind of request and by whether the node is up. "dial"    *)
(* is a request that goes on to the engine; every other answer closes the   *)
(* connection after it was written.                                         *)

SocksRequests ==
  {"other version", "no method", "unanswerable method", "bind", "unknown address type", "connect"}

(* negotiate_method, read_connect_request and the lookup of the engine.     *)
socks_reply(request, up) ==
  CASE request \in {"other version", "no method"} -> "closed"
    [] request = "unanswerable method" -> "no acceptable method"
    [] request = "bind" -> "command not supported"
    [] request = "unknown address type" -> "address type not supported"
    [] request = "connect" /\ ~up -> "general failure"
    [] OTHER -> "dial"

HttpRequests == {"nothing", "too long", "plain", "bad target", "endless headers", "connect"}

(* handle_request_head and handle_connect.                                  *)
http_reply(request, up) ==
  CASE request \in {"nothing", "too long", "endless headers"} -> "closed"
    [] request = "plain" -> "501"
    [] request = "bad target" -> "400"
    [] request = "connect" /\ ~up -> "500"
    [] OTHER -> "dial"

DebugRequests == {"nothing", "metrics", "pprof", "elsewhere", "post"}

(* serve_one_request: it reads the engine's metrics and dials nothing.      *)
debug_reply(request, up) ==
  CASE request = "nothing" -> "closed"
    [] request = "metrics" -> IF up THEN "200" ELSE "503"
    [] request = "post" -> "405"
    [] OTHER -> "404"

Replies(proxy, up) ==
  CASE proxy = "socks5" -> {socks_reply(r, up) : r \in SocksRequests}
    [] proxy = "http" -> {http_reply(r, up) : r \in HttpRequests}
    [] OTHER -> {debug_reply(r, up) : r \in DebugRequests}
============================================================================
