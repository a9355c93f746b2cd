---------------------------- MODULE BackendSetup ----------------------------
(***************************************************************************)
(* SetupS3Buckend (backend.go): from an s3_backend block to the backend that  *)
(* the executions upload their full texts to.                               *)
(*                                                                         *)
(* The attributes are decoded in the order of a Go map, that is, in any       *)
(* order.  Errors are collected in diags, and the decoding of some attributes *)
(* looks at what was collected before.  Defaults and the checks that concern  *)
(* several attributes follow, then the viewer is built, and only then does    *)
(* app.backend change.                                                      *)
(*                                                                         *)
(* Abstractions.  A value is right or wrong: of the wrong type, or of the     *)
(* right type and refused ("malformed": no http URL, a key of another length). *)
(* Of the fields of S3Backend, which of the pointers are set.                *)
(***************************************************************************)
CONSTANTS
  Blocks,    \* the s3_backend blocks that are looked at
  NoBlock,   \* there is no s3_backend block
  Discard    \* the DiscardBackend

Required == {"bucket_name", "viewer_base_url"}
Google == {"viewer_google_client_id", "viewer_google_client_secret",
           "viewer_session_encrypt_key"}
Attributes == Required \cup Google
  \cup {"object_key_prefix", "object_key_template", "allowed", "denied"}

ASSUME BlocksAssumption ==
  /\ Blocks \subseteq [Attributes -> {"absent", "right", "wrong", "malformed"}]
  /\ \A b \in Blocks, a \in Attributes : b[a] = "malformed" =>
       a \in {"viewer_base_url", "viewer_session_encrypt_key"}

VARIABLES
  block,    \* how each attribute is written
  step,     \* where SetupS3Buckend is
  todo,     \* attributes that the loop has not come to
  set,      \* the fields of b that are not nil
  diags,    \* diags.HasErrors()
  backend   \* app.backend: Discard, or the fields that are set in an S3Backend

setupVars == <<block, step, todo, set, diags, backend>>

Pointers == Google \cup {"object_key_prefix", "object_key_template", "viewer_base_url"}

ASSUME DiscardAssumption == \A b \in SUBSET Pointers : b # Discard

SetupTypeOK ==
  /\ block \in Blocks \cup {NoBlock}
  /\ step \in {"client", "content", "attributes", "checks", "viewer",
             "done", "unavailable"}
  /\ todo \subseteq Attributes
  /\ set \subseteq Pointers
  /\ diags \in BOOLEAN
  /\ backend = Discard \/ backend \subseteq Pointers

\* The s3_backend block is decoded, if there is one.
SetupInit ==
  /\ \/ block \in Blocks /\ step = "client"
     \/ block = NoBlock /\ step = "done"
  /\ todo = {}
  /\ set = {}
  /\ diags = FALSE
  /\ backend = Discard

\* It returns with an error, of the block or of something it depends on.
ReturnError(end) ==
  /\ diags' = TRUE
  /\ step' = end
  /\ UNCHANGED <<block, todo, set, backend>>

\* The AWS client can be made, or there is no configuration for it.
NewClient ==
  /\ step = "client"
  /\ \/ step' = "content" /\ UNCHANGED <<block, todo, set, diags, backend>>
     \/ ReturnError("unavailable")

\* body.Content: a required attribute that is not there ends the set up.
Content ==
  /\ step = "content"
  /\ IF \E a \in Required : block[a] = "absent"
       THEN ReturnError("done")
       ELSE /\ step' = "attributes"
            /\ todo' = {a \in Attributes : block[a] # "absent"}
            /\ UNCHANGED <<block, set, diags, backend>>

\* An expression is not evaluated when it is a template: it cannot be wrong yet.
Decodes(a) == block[a] # "wrong" \/ a = "object_key_template"

\* Mutant: the diagnostics of an attribute replace those of the ones before.
DecodeAttributeForgets(a) ==
  /\ step = "attributes"
  /\ a \in todo
  /\ todo' = todo \ {a}
  /\ diags' = ~Decodes(a)
  /\ set' = IF a \notin Pointers \/ (a = "viewer_base_url" /\ (diags \/ block[a] # "right"))
              THEN set ELSE set \cup {a}
  /\ UNCHANGED <<block, step, backend>>

\* One round of the loop.  The URL is parsed, and kept, only if there has been no
\* error so far; other pointers are set whatever was decoded.
DecodeAttribute(a) ==
  /\ step = "attributes"
  /\ a \in todo
  /\ todo' = todo \ {a}
  /\ LET failed == diags \/ ~Decodes(a) IN
       IF a = "viewer_base_url"
         THEN /\ diags' = (failed \/ block[a] = "malformed")
              /\ set' = IF diags' THEN set ELSE set \cup {a}
         ELSE /\ diags' = (failed \/ block[a] = "malformed")
              /\ set' = set \cup ({a} \cap Pointers)
  /\ UNCHANGED <<block, step, backend>>

EndOfLoop ==
  /\ step = "attributes"
  /\ todo = {}
  /\ step' = "checks"
  /\ UNCHANGED <<block, todo, set, diags, backend>>

\* Mutant: one of the three values for Google is enough.
CheckAnyGoogle ==
  /\ step = "checks"
  /\ set' = set \cup {"object_key_prefix", "object_key_template"}
  /\ diags' = (diags \/ "viewer_base_url" \notin set)
  /\ step' = IF diags' THEN "done" ELSE "viewer"
  /\ UNCHANGED <<block, todo, backend>>

\* Defaults, and the three values for Google's authentication: all or none.
Check ==
  /\ step = "checks"
  /\ set' = set \cup {"object_key_prefix", "object_key_template"}
  /\ diags' = \/ diags
              \/ "viewer_base_url" \notin set
              \/ Google \cap set # {} /\ ~ (Google \subseteq set)
  /\ step' = IF diags' THEN "done" ELSE "viewer"
  /\ UNCHANGED <<block, todo, backend>>

EnableGoogleAuth(b) == Google \subseteq b

\* ls3viewer.New succeeds, and the backend is installed; or it fails.
NewViewer ==
  /\ step = "viewer"
  /\ \/ /\ backend' = set
        /\ step' = "done"
        /\ UNCHANGED <<block, todo, set, diags>>
     \/ ReturnError("unavailable")

SetupStep ==
  \/ NewClient \/ Content
  \/ \E a \in Attributes : DecodeAttribute(a)
  \/ EndOfLoop \/ Check \/ NewViewer

-----------------------------------------------------------------------------
(* Properties.                                                              *)

\* Upload dereferences the prefix, the template and the URL of the backend without
\* looking, and the viewer asks for Google's login with all three values: an
\* installed backend has them, in whatever order the attributes were decoded.
InstalledIsWhole ==
  backend # Discard =>
    /\ {"object_key_prefix", "object_key_template", "viewer_base_url"} \subseteq backend
    /\ EnableGoogleAuth(backend) \/ Google \cap backend = {}

\* What a reader of the block expects to be accepted.
Sound(b) ==
  /\ \A a \in Required : b[a] = "right"
  /\ \A a \in Attributes \ {"object_key_template"} : b[a] \in {"right", "absent"}
  /\ \A a, c \in Google : b[a] = "absent" <=> b[c] = "absent"

\* A block is refused exactly when something is wrong with it, whatever the order
\* in which the attributes were decoded; and who has to do without the backend of
\* his block is told.
SetupIsExact ==
  block # NoBlock =>
    /\ step = "done" => (backend # Discard <=> Sound(block))
    /\ step \in {"done", "unavailable"} => (backend = Discard <=> diags)

=============================================================================
