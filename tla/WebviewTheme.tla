---------------------------- MODULE WebviewTheme ----------------------------
(***************************************************************************)
(* The theme of the page in a view of the extension: the Deephaven iframe   *)
(* asks the web view for it, the web view asks the extension               *)
(* (shared/webViewContentUtils), and the extension passes changes on        *)
(* (util/webViewUtils.ts registerWebViewThemeHandlers).                     *)
(***************************************************************************)
EXTENDS Naturals, Sequences

CONSTANTS
    Themes,         \* base theme keys
    MaxRequests,    \* requests of the iframe for the theme
    MaxInFlight,    \* messages under way to the web view
    NoTheme

ASSUME ThemeAssumption == NoTheme \notin Themes

VARIABLES
    theme,      \* the active color theme of VS Code
    applied,    \* the theme the iframe has
    requests,   \* getVscodeProperty messages to the extension
    messages,   \* messages to the web view
    awaiting,   \* getVscodeProperty calls that are not settled
    asked,      \* requestExternalTheme messages of the iframe
    timedOut    \* whether a call timed out after the theme was last applied

themeVars == <<theme, applied, requests, messages, awaiting, asked, timedOut>>

ThemeInit ==
    /\ theme \in Themes /\ applied = NoTheme
    /\ requests = 0 /\ messages = <<>> /\ awaiting = 0
    /\ asked = 0 /\ timedOut = FALSE

\* The iframe has loaded, and applies the theme it is sent from then on.
Loaded == asked > 0

requestExternalTheme ==
    /\ asked < MaxRequests /\ asked' = asked + 1
    /\ requests' = requests + 1 /\ awaiting' = awaiting + 1
    /\ UNCHANGED <<theme, applied, messages, timedOut>>

Answer(value) == [kind |-> "getVscodePropertyResponse", theme |-> value]

GetPropertyAsApplied == Answer(IF applied = NoTheme THEN theme ELSE applied)
createGetPropertyResponseMsg == Answer(theme)

\* The extension answers with the theme that is active then.
GetVscodeProperty ==
    /\ requests > 0 /\ Len(messages) < MaxInFlight
    /\ requests' = requests - 1
    /\ messages' = Append(messages, createGetPropertyResponseMsg)
    /\ UNCHANGED <<theme, applied, awaiting, asked, timedOut>>

onDidChangeActiveColorTheme ==
    /\ Len(messages) < MaxInFlight
    /\ theme' \in Themes \ {theme}
    /\ messages' = Append(messages, [kind |-> "requestSetTheme", theme |-> theme'])
    /\ UNCHANGED <<applied, requests, awaiting, asked, timedOut>>

\* An answer settles every call that listens, those whose own answer is still under way too.
ReceiveAnswer ==
    /\ messages # <<>> /\ Head(messages).kind = "getVscodePropertyResponse"
    /\ IF awaiting > 0 THEN applied' = Head(messages).theme /\ timedOut' = FALSE
                       ELSE UNCHANGED <<applied, timedOut>>
    /\ awaiting' = 0
    /\ messages' = Tail(messages)
    /\ UNCHANGED <<theme, requests, asked>>

\* A theme that is sent before the iframe has loaded is lost.
ReceiveSetTheme ==
    /\ messages # <<>> /\ Head(messages).kind = "requestSetTheme"
    /\ IF Loaded THEN applied' = Head(messages).theme /\ timedOut' = FALSE
                 ELSE UNCHANGED <<applied, timedOut>>
    /\ messages' = Tail(messages)
    /\ UNCHANGED <<theme, requests, awaiting, asked>>

\* The oldest call is given up; its iframe is told nothing.
PropertyTimeout ==
    /\ awaiting > 0 /\ awaiting' = awaiting - 1 /\ timedOut' = TRUE
    /\ UNCHANGED <<theme, applied, requests, messages, asked>>

ThemeNext ==
    \/ requestExternalTheme \/ GetVscodeProperty \/ onDidChangeActiveColorTheme
    \/ ReceiveAnswer \/ ReceiveSetTheme \/ PropertyTimeout

ThemeSpec == ThemeInit /\ [][ThemeNext]_themeVars

\* When nothing is under way the iframe has the active theme, however requests, answers and
\* changes crossed, unless its request was given up (createDhIframe, getVscodeProperty).
ThemeIsApplied ==
    (Loaded /\ requests = 0 /\ messages = <<>> /\ awaiting = 0 /\ ~timedOut) => applied = theme

=============================================================================
