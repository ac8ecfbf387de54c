SPECIFICATION Spec
CONSTANT Configs <- HarnessConfigs
INVARIANT HarnessRulesComeOut
