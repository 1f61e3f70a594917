---------------------------- MODULE MCRehearsal ----------------------------
(* Model-checking instances of Rehearsal. *)
EXTENDS Rehearsal, TLC

CONSTANTS text, note, blank, cheap, dear

Closed(required, anyOf) == [props |-> [f \in InputField |-> IF f = blank THEN "absent" ELSE "accepts"], required |-> required,
                            anyOf |-> anyOf]
Props(p, q) == [props |-> (text :> p) @@ (note :> q) @@ (blank :> "absent"), required |-> {text}, anyOf |-> {}]
Tools == {None, Closed({text}, {}), Closed({}, {{text}, {note}}), Closed({}, {{text}}), Closed({}, {{}}),
          Closed({text}, {{}}), Closed({text}, {{text, note}}), Closed({text, note}, {}),
          Props("huge", "accepts"), Props("accepts", "rejects"), Props("accepts", "absent")}

Paying == [origin |-> "same", payment |-> cheap, declaration |-> "verified",
           claim |-> FALSE, trusted |-> FALSE, renewal |-> None, live |-> TRUE,
           sample |-> {text, note}, tool |-> Closed({text}, {})]

\* Contracts that differ from a plain paying one in up to two respects, and plain
\* free ones with every tool and sample.
Varied == [origin : {"same", "port", "resource", "host"}, payment : {None, cheap, dear},
           declaration : {"verified", "not_provided", "invalid"}, claim : BOOLEAN,
           trusted : BOOLEAN, renewal : {None, "kept", "broken"}, live : BOOLEAN,
           sample : {{text, note}}, tool : {Paying.tool}]
MCContracts ==
    {c \in Varied : Cardinality({f \in DOMAIN c : c[f] # Paying[f]}) <= 2}
        \cup {[Paying EXCEPT !.payment = None, !.sample = s, !.tool = t] :
                  s \in SUBSET {text, note} \cup {{text, blank}}, t \in Tools}

Says(out, error, says, late) == [out |-> out, error |-> error, says |-> says, late |-> late]
Replies(out) == Says(out, None, "plain", FALSE)
Late == Says({"match"}, None, "plain", TRUE)
MCFixedAnswers == {Replies({"match"}), Replies({"match", "wrong"}), Replies({"match", "nested"}), Late}
MCProbeAnswers == {Says({}, "TOOL_ERROR", "plain", FALSE), Says({}, "TOOL_ERROR", "leak", FALSE),
                   Says({}, "MCP_ERROR", "timeout", FALSE), Replies({"match"})}
MCFreshAnswers == {Replies({"match"}), Replies({"match", "nested"}), Late,
                   Says({}, "INVALID_OUTPUT", "plain", FALSE)}
=============================================================================
