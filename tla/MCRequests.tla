----------------------------- MODULE MCRequests -----------------------------
(* A small instance of Requests for TLC. *)
EXTENDS Requests

CONSTANTS k1, k2, own

Rotation == <<{k1}, {k2}>>

\* An endpoint of each kind of authentication; one that takes tokens that do
\* not verify, one with a file, one with an empty list of files, one with the
\* middleware of the host.
Plain == [authType |-> "none", acceptInvalid |-> FALSE, whitelist |-> Unset, isGithub |-> FALSE,
          file |-> Unset, files |-> Unset, multiPartFile |-> FALSE, middleware |-> <<>>]
Jwt      == [Plain EXCEPT !.authType = "jwt"]
Lenient  == [Jwt EXCEPT !.acceptInvalid = TRUE]
Resolved == [Jwt EXCEPT !.middleware = <<"userResolver", "checkPermission">>]
Static   == [Plain EXCEPT !.authType = "static", !.middleware = <<"verificationToken">>]
Hmac     == [Plain EXCEPT !.authType = "hmac", !.isGithub = TRUE]
Tls      == [Plain EXCEPT !.authType = "tls"]
Photo    == [key |-> "photo", required |-> TRUE, mimeTypes |-> {"png"}, maxSize |-> 1]
WithFile == [Plain EXCEPT !.file = Photo]
NoFiles  == [Plain EXCEPT !.files = {}]

Valid == [routed |-> TRUE, config |-> Plain, bearer |-> TRUE, kid |-> k1, genuine |-> TRUE,
          user |-> [id |-> 1, permitted |-> FALSE], header |-> "none", payload |-> "none",
          authorized |-> FALSE, subjects |-> {}, valid |-> TRUE, files |-> {},
          verification |-> [genuine |-> TRUE, action |-> "this", otp |-> "matches", sub |-> 2]]
Png(size) == [key |-> "photo", mime |-> "png", size |-> size]

AllCalls ==
    { [Valid EXCEPT !.routed = FALSE],
      [Valid EXCEPT !.config = Jwt],
      [Valid EXCEPT !.config = Lenient, !.genuine = FALSE],
      [Valid EXCEPT !.config = Resolved, !.kid = k2],
      [Valid EXCEPT !.config = Static],
      [Valid EXCEPT !.config = Static, !.verification.action = "other"],
      [Valid EXCEPT !.config = Hmac, !.header = "matches", !.valid = FALSE],
      [Valid EXCEPT !.config = Tls, !.authorized = TRUE, !.subjects = {own}],
      [Valid EXCEPT !.config = WithFile, !.files = {Png(1)}],
      [Valid EXCEPT !.config = WithFile, !.files = {Png(1)}, !.valid = FALSE],
      [Valid EXCEPT !.config = NoFiles] }
=============================================================================
