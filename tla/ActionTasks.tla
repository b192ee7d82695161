---------------------------- MODULE ActionTasks -----------------------------
(***************************************************************************)
(* get_action_tasks: which tasks an action runs on a host, in order        *)
(* (worker/run_task.py, and again in worker/pattern_task.py).  A web       *)
(* application's traffic comes through nginx, a module's through dubbo; an *)
(* application listed under special_mod_name has both.                     *)
(***************************************************************************)
EXTENDS Integers, Sequences

Web == 1
Mod == 2
ApplicationTypes == {Web, Mod}

Publish == 1        \* 发布
StopFlow == 2       \* 停服务
Notice == 3         \* 提示
Rollback == 11      \* 回滚发布
RestoreFlow == 12   \* 回滚启动服务
RollbackNotice == 13 \* 回滚提示
RollbackStop == 14  \* 回滚停止服务
Pause == 19         \* 回滚到一半进行停顿

(* The switches of an application's traffic, in the order they are used. *)
Switches(type, special) ==
  CASE type = Web /\ ~special -> <<"nginx">>
    [] type = Mod /\ ~special -> <<"dubbo">>
    [] type = Web /\ special  -> <<"nginx", "dubbo">>
    [] type = Mod /\ special  -> <<"dubbo", "nginx">>

(* A task is a verb and its object. *)
Each(verb, switches) ==
  [i \in DOMAIN switches |-> [do |-> verb, what |-> switches[i]]]
Do(verb, what) == <<[do |-> verb, what |-> what]>>

Replace(type, special, version) ==
     Do("backup", "log")
  \o Each("disable", Switches(type, special))
  \o Do("stop", "app") \o Do("link", version) \o Do("start", "app")
  \o Do("update", "cmdb")
  \o Each("enable", Switches(type, special))

(* The actions without tasks raise PublishError. *)
WithTasks == {Publish, StopFlow, Rollback, RestoreFlow, RollbackStop}

Tasks(action, type, special) ==
  CASE action = Publish ->
         Do("download", "package") \o Replace(type, special, "target")
    [] action \in {StopFlow, RollbackStop} ->
         Each("disable", Switches(type, special))
    [] action = Rollback -> Replace(type, special, "rollback")
    [] action = RestoreFlow -> Each("enable", Switches(type, special))

=============================================================================
