-------------------------------- MODULE Runtime --------------------------------
(***************************************************************************)
(* LibCdBare (lib/runtime/libcd_LibChangeDescent.0.mjs): a runtime with    *)
(* the profile it was built with, the changes modify_args makes to it, the *)
(* gate that guards them (libcd_gate.mjs), and the context that carries    *)
(* the change graph through time maintenance (libcd_ctx.mjs,               *)
(* libcd_change_graph.mjs).                                                *)
(*                                                                         *)
(* A profile is the set of its modifiers.  An option that a caller gives   *)
(* or leaves out is "on", "off" or "unset"; `nested` stands for options of *)
(* its own that a request brings, in which the gate is active or not, and  *)
(* `secret` for the secret_path it names.  A pin is the secret file and the*)
(* number of the 30 second step whose HMAC it is: the file outlives a      *)
(* process, and so do pins.  A bucket of the graph is hot when its entropy *)
(* is above zero.  The profile that ctx_profile copies into the context is *)
(* always that of the options.  The modifiers resident, start and session, *)
(* modifiers given as option keys, and the formatting of flags are left    *)
(* out.                                                                    *)
(***************************************************************************)
EXTENDS Integers

CONSTANTS
    Requests,    \* what callers ask for: a profile and options, see Request
    NoProfile,   \* the profile of a request that names none
    NoSecret,    \* the secret of a request that names none
    DefaultSecret,  \* the secret file of LIBCD_GATE_CONFIG
    Secrets,     \* secret files
    Masks,       \* time masks a context is created with, see MaskKinds
    Span,        \* how many steps a mask of a fixed duration lasts
    Buckets,     \* buckets of the change graph
    MaxStep      \* bound on the clock

Tri == {"unset", "on", "off"}

Modifiers == {"+bg", "-bg", "+fg", "-fg", "+gate", "-gate",
              "+nolimits", "-nolimits"}

(* session_only never expires, a span runs from the creation of the        *)
(* context, a date is the same whenever the context was created.           *)
MaskKinds == {"session_only", "span", "date"}

ASSUME RuntimeAssumption ==
    /\ \A r \in Requests :
         /\ r.profile = NoProfile \/ r.profile \subseteq Modifiers
         /\ {r.bg, r.fg, r.gate, r.nolimits, r.nested} \subseteq Tri
         /\ r.secret \in Secrets \cup {NoSecret}
    /\ DefaultSecret \in Secrets
    /\ NoSecret \notin Secrets
    /\ Masks \subseteq [kind : MaskKinds, date : Int]
    /\ Span \in Nat
    /\ MaxStep \in Nat

VARIABLES
    running,  \* whether there is a runtime
    options,  \* its options
    ctx,      \* its context
    step,     \* the clock, in steps of the gate
    pin,      \* a pin somebody has read
    recent    \* history: buckets recorded into since the last maintenance

runtime_vars == <<running, options, ctx, step, pin, recent>>

-----------------------------------------------------------------------------
(* arg_parse_profile.                                                      *)
Opposite(setting) == IF setting = "on" THEN "off" ELSE "on"

(* One modifier: "-" wins over "+", the profile over a given option.       *)
Setting(profile, plus, minus, given) ==
    IF minus \in profile THEN "off" ELSE IF plus \in profile THEN "on" ELSE given

Background(profile, given) == Setting(profile, "+bg", "-bg", given.bg)
Foreground(profile, given) == Setting(profile, "+fg", "-fg", given.fg)

(* A side that nobody names is the opposite of the other one.              *)
Bug_AlwaysOpposite(profile, given) ==
    LET bg == Background(profile, given)
        fg == Foreground(profile, given)
        ground == IF bg # "unset" THEN bg ELSE IF fg # "unset" THEN Opposite(fg) ELSE "on"
    IN [bg |-> ground, fg |-> Opposite(ground)]
Sides(profile, given) ==
    LET bg == Background(profile, given)
        fg == Foreground(profile, given)
        ground == IF bg # "unset" THEN bg ELSE IF fg # "unset" THEN Opposite(fg) ELSE "on"
    IN [bg |-> ground, fg |-> IF fg # "unset" THEN fg ELSE Opposite(ground)]

(* Both modifiers switch the limits off; they are on again when a later    *)
(* call gives the option as false and no profile with either of them.      *)
Nolimits(profile, given) ==
    given.nolimits = "on" \/ profile \cap {"+nolimits", "-nolimits"} # {}

YieldMs(sides, nolimits) ==
    IF nolimits THEN 0 ELSE IF sides.fg = "on" \/ sides.bg = "off" THEN 1 ELSE 10

(* For the gate "+" wins over "-".                                         *)
Gate(profile, given) ==
    \/ "+gate" \in profile
    \/ "-gate" \notin profile /\ given.gate = "on"

Switch(on) == IF on THEN "on" ELSE "off"

(* The options that come out carry the ones that went in, as options of    *)
(* their own: `nested` is whether the gate is active somewhere in there,   *)
(* `secret` the secret_path among them.                                    *)
arg_parse_profile(profile, given) ==
    LET gate == Gate(profile, given)
        sides == Sides(profile, given)
        nolimits == Nolimits(profile, given)
    IN [profile |-> profile, bg |-> sides.bg, fg |-> sides.fg,
        nolimits |-> Switch(nolimits), yield_ms |-> YieldMs(sides, nolimits),
        gate |-> Switch(gate), nested |-> Switch(gate \/ given.nested = "on"),
        secret |-> given.secret]

-----------------------------------------------------------------------------
(* The gate. *)
gate_is_active(o) == o.gate = "on" \/ "+gate" \in o.profile \/ o.nested = "on"

gate_generate_pin(secret, offset) == [secret |-> secret, at |-> step + offset]

(* The current step and the ones next to it. *)
gate_verify_pin(secret, p) == p \in {gate_generate_pin(secret, k) : k \in -1 .. 1}

gate_verify_arg_modification(o, secret) == gate_is_active(o) => gate_verify_pin(secret, pin)

-----------------------------------------------------------------------------
(* Time masks and the context. *)
time_mask_is_expired(created, mask) ==
    \/ mask.kind = "date" /\ step > mask.date
    \/ mask.kind = "span" /\ step > created + Span

ctx_create(mask) ==
    [created |-> step, mask |-> mask, hot |-> {}, maintained |-> "never"]

Expired == time_mask_is_expired(ctx.created, ctx.mask)

-----------------------------------------------------------------------------
DefaultProfile == {"+bg"}

(* What a request says, over what the options said before.                 *)
Over(setting, before) == IF setting = "unset" THEN before ELSE setting

Asked(r) ==
    [profile |-> IF r.profile = NoProfile THEN DefaultProfile ELSE r.profile,
     bg |-> r.bg, fg |-> r.fg, gate |-> r.gate, nolimits |-> Over(r.nolimits, "off"),
     nested |-> Over(r.nested, "off"), secret |-> r.secret]

(* modify_args: Object.assign keeps the nested options unless the request  *)
(* brings its own.  A secret_path is nested with the request that named it,*)
(* and no later one looks any deeper.                                      *)
Bug_ForgetsNested(r) ==
    [profile |-> IF r.profile = NoProfile THEN options.profile ELSE r.profile,
     bg |-> Over(r.bg, options.bg), fg |-> Over(r.fg, options.fg),
     gate |-> Over(r.gate, options.gate), nolimits |-> Over(r.nolimits, options.nolimits),
     nested |-> Over(r.nested, "off"), secret |-> r.secret]
Merged(r) ==
    [profile |-> IF r.profile = NoProfile THEN options.profile ELSE r.profile,
     bg |-> Over(r.bg, options.bg), fg |-> Over(r.fg, options.fg),
     gate |-> Over(r.gate, options.gate), nolimits |-> Over(r.nolimits, options.nolimits),
     nested |-> Over(r.nested, options.nested), secret |-> r.secret]

(* The secret a pin is checked with: the one named by the request, or by   *)
(* the one before, or that of the default file.                            *)
Named(secret, before) == IF secret = NoSecret THEN before ELSE secret
SecretOf(r) == Named(r.secret, Named(options.secret, DefaultSecret))

(* No runtime: what it would have holds no value of interest.              *)
NoOptions == arg_parse_profile(DefaultProfile,
               [bg |-> "unset", fg |-> "unset", gate |-> "off", nolimits |-> "off",
                nested |-> "off", secret |-> NoSecret])
NoContext == [created |-> 0, mask |-> [kind |-> "session_only", date |-> 0],
              hot |-> {}, maintained |-> "never"]

RuntimeInit ==
    /\ running = FALSE
    /\ options = NoOptions
    /\ ctx = NoContext
    /\ step = 0
    /\ pin = [secret |-> NoSecret, at |-> 0]
    /\ recent = {}

(* The constructor: it throws, and there is no runtime, when the options   *)
(* ask for the gate and no valid pin comes with them.                      *)
Boot(r) ==
    LET parsed == arg_parse_profile(Asked(r).profile, Asked(r))
    IN /\ ~running
       /\ gate_verify_arg_modification(parsed, Named(r.secret, DefaultSecret))
       /\ running' = TRUE
       /\ options' = parsed
       /\ \E mask \in Masks : ctx' = ctx_create(mask)
       /\ recent' = {}
       /\ UNCHANGED <<step, pin>>

(* modify_args: refused, it throws before anything changed.                *)
ModifyArgs(r) ==
    LET merged == Merged(r)
    IN /\ running
       /\ gate_is_active(options) \/ gate_is_active(merged)
            => gate_verify_arg_modification(merged, SecretOf(r))
       /\ options' = arg_parse_profile(merged.profile, merged)
       /\ UNCHANGED <<running, ctx, step, pin, recent>>

(* Somebody reads a pin of some secret, of a step next to the current one. *)
ReadPin ==
    /\ \E secret \in Secrets, offset \in -1 .. 1 : pin' = gate_generate_pin(secret, offset)
    /\ UNCHANGED <<running, options, ctx, step, recent>>

StepEnds ==
    /\ step < MaxStep
    /\ step' = step + 1
    /\ UNCHANGED <<running, options, ctx, pin, recent>>

(* change_graph_record: a positive delta heats the bucket, a negative one  *)
(* may bring it back to zero.                                              *)
Record(b) ==
    /\ running
    /\ \E hot \in {ctx.hot \cup {b}, ctx.hot, ctx.hot \ {b}} :
         ctx' = [ctx EXCEPT !.hot = hot]
    /\ recent' = recent \cup {b}
    /\ UNCHANGED <<running, options, step, pin>>

(* change_graph_decay: what falls below 0.001 is flushed to zero.          *)
Decay ==
    /\ running
    /\ \E hot \in SUBSET ctx.hot : ctx' = [ctx EXCEPT !.hot = hot]
    /\ UNCHANGED <<running, options, step, pin, recent>>

(* change_graph_init: a new buffer. *)
GraphInit ==
    /\ running
    /\ ctx' = [ctx EXCEPT !.hot = {}]
    /\ UNCHANGED <<running, options, step, pin, recent>>

(* ctx_run_time_maintenance. *)
Bug_NoWipe == ctx.hot
Kept == IF Expired THEN {} ELSE ctx.hot

Maintenance ==
    /\ running
    /\ ctx' = [ctx EXCEPT !.hot = Kept,
                          !.maintained = IF Expired THEN "compacted" ELSE "kept"]
    /\ recent' = {}
    /\ UNCHANGED <<running, options, step, pin>>

RuntimeCrash ==
    /\ running
    /\ running' = FALSE
    /\ options' = NoOptions
    /\ ctx' = NoContext
    /\ recent' = {}
    /\ UNCHANGED <<step, pin>>

RuntimeNext ==
    \/ \E r \in Requests : Boot(r) \/ ModifyArgs(r)
    \/ \E b \in Buckets : Record(b)
    \/ ReadPin \/ StepEnds \/ Decay \/ GraphInit \/ Maintenance \/ RuntimeCrash

RuntimeSpec == RuntimeInit /\ [][RuntimeNext]_runtime_vars

-----------------------------------------------------------------------------
OptionStates == [profile : SUBSET Modifiers, bg : {"on", "off"}, fg : {"on", "off"},
                 nolimits : {"on", "off"}, yield_ms : {0, 1, 10},
                 gate : {"on", "off"}, nested : {"on", "off"},
                 secret : Secrets \cup {NoSecret}]
Pins == [secret : Secrets \cup {NoSecret}, at : Int]
ContextStates == [created : Nat, mask : [kind : MaskKinds, date : Int],
                  hot : SUBSET Buckets, maintained : {"never", "kept", "compacted"}]

(* Options and contexts are records of their kind. *)
RuntimeTypeOK ==
    /\ running \in BOOLEAN
    /\ options \in OptionStates
    /\ ctx \in ContextStates
    /\ step \in Nat
    /\ pin \in Pins
    /\ recent \subseteq Buckets

(* A call that brings no options of its own, or some in which the gate is  *)
(* active, leaves a gated runtime gated, whatever profile, option or secret*)
(* it names, and one that says "-gate" with a valid pin included; and it is*)
(* refused unless a pin is at hand that was read for the current step or   *)
(* one next to it, however long ago that was, and made with the secret of  *)
(* the default file if neither it nor the call before names another.  A    *)
(* runtime that is not gated becomes it only with such a pin either.  No   *)
(* more can be said of calls with options of their own: they take the place*)
(* of those in which the gate was remembered.                              *)
GateHolds ==
    [][options' # options /\ running /\ (gate_is_active(options) \/ gate_is_active(options')) =>
         \A r \in Requests : ModifyArgs(r) =>
           /\ gate_is_active(options) /\ r.nested # "off" => gate_is_active(options')
           /\ gate_is_active(options') =>
                /\ step - 1 <= pin.at /\ pin.at <= step + 1
                /\ {r.secret, options.secret} = {NoSecret} => pin.secret = DefaultSecret]_runtime_vars

(* What a comment at arg_parse_profile says: "-bg opposite -> bg false, fg *)
(* true; -fg opposite -> fg false, bg true".  It is so of the profile a    *)
(* runtime is built with.  modify_args parses over options in which both   *)
(* sides are set already, so that the side not named keeps what it had.    *)
OppositesResolved ==
    running =>
      /\ options.profile = {"-bg"} => options.bg = "off" /\ options.fg = "on"
      /\ options.profile = {"-fg"} => options.fg = "off" /\ options.bg = "on"

(* The graph of a context that was ever compacted shows what was recorded  *)
(* since the last maintenance and nothing older: created_ts is never       *)
(* renewed, so once a mask has run out every later maintenance finds it    *)
(* expired again and wipes the buffer again.                               *)
ExpiredGraphFresh ==
    running /\ ctx.maintained = "compacted" => Expired /\ ctx.hot \subseteq recent
=============================================================================
