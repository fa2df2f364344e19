--------------------------- MODULE MCDispatcherNet ---------------------------
(* Clients of two dispatchers, as sequences of what they call.             *)
EXTENDS DispatcherNet, TLC

CONSTANTS main, pool,          \* dispatchers
          mainThread, w1, w2, w3, \* threads
          request, response, extra, \* tasks
          widget, private1, private2 \* connections

get(t) == [op |-> "get", task |-> t]
dispatch(t) == [op |-> "dispatch", task |-> t]
interrupt(c) == [op |-> "interrupt", conn |-> c]
point(c) == [op |-> "point", conn |-> c]
release(c) == [op |-> "release", conn |-> c]

OnTwoDispatchers == request :> pool @@ response :> main @@ extra :> pool
TwoServers == mainThread :> main @@ w1 :> pool
FourServers == TwoServers @@ w2 :> main @@ w3 :> pool

(* The main thread asks for a request on the pool and for a callback with  *)
(* its response on its own dispatcher, which another thread processes,     *)
(* too; the callback asks for more work.  The owner of the callback's      *)
(* scoped_connection then gives up, at any stage of that, and waits for    *)
(* the callback.  The request looks at the flag of that connection, without *)
(* keeping a copy of its own.                                              *)
ChainConns == request :> private1 @@ response :> widget @@ extra :> private2
ChainBody == request :> <<point(widget)>>
          @@ response :> <<get(request), dispatch(extra), release(private2)>>
          @@ extra :> <<get(request)>>
ChainScript == mainThread :> <<dispatch(request), release(private1), dispatch(response),
                               interrupt(widget), release(widget)>>
            @@ w1 :> << >> @@ w2 :> << >> @@ w3 :> << >>

(* These clients keep to the discipline under which nobody waits in a      *)
(* circle; those of the widget do not, with any levels.                    *)
ASSUME ChainIsDisciplined == Script = ChainScript => Disciplined(main :> 1 @@ pool :> 0)

(* The widget of the README: http_client::send_dispatched keeps a copy of  *)
(* the widget's connection until it returns.                               *)
WidgetDispatcher == request :> pool @@ response :> main
WidgetConns == request :> private1 @@ response :> widget
WidgetBody == request :> <<point(widget), release(widget)>> @@ response :> <<get(request)>>
WidgetScript == mainThread :> <<dispatch(request), release(private1), dispatch(response)>>
             @@ w1 :> << >>

ASSUME WidgetIsNot ==
  Script = WidgetScript => \A m, n \in 0 .. 1 : ~Downward(main :> m @@ pool :> n)
=============================================================================
